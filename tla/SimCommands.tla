------------------------------ MODULE SimCommands ------------------------------
(***************************************************************************)
(* The Simulator driven from the command line: `ptlab sim start`, `stop`,  *)
(* `kill`, `restart` and the simctl.py equivalents, each a Python process  *)
(* of its own, all on the one shared layout (.ptlab/sim or run/) and with  *)
(* no lock between them.  Commands overlap, are interrupted, and exit      *)
(* leaving their children to init.                                         *)
(***************************************************************************)
EXTENDS Simulator

CONSTANT Headless  \* the values of the start option that commands use

ASSUME HeadlessAssumption == Headless \subseteq BOOLEAN

VARIABLES
    alone,    \* history: no other command overlapped this one so far
    clean     \* history: processes a start that ran alone put in the state file

vars == <<simVars, alone, clean>>

TypeOK ==
    /\ SimTypeOK
    /\ alone \in [Cmd -> BOOLEAN]
    /\ clean \subseteq Pid

Init ==
    /\ SimInit
    /\ alone = [c \in Cmd |-> TRUE]
    /\ clean = {}

Recorded(c) == {sim[c], xvfb[c]} \ {NoPid}

Remember(new) == clean' = {p \in clean \cup new : proc'[p] # "free"}

\* main() dispatches one operation; rebuild is a restart behind a compiler run.
Command(c) ==
    /\ \E op \in {"start", "stop", "kill", "restart"}, hl \in Headless : Begin(c, op, hl)
    /\ alone' = [d \in Cmd |-> pc'[d] # "idle" => \A e \in Cmd \ {d} : pc'[e] = "idle"]
    /\ UNCHANGED clean

Step(c) ==
    /\ CallStep(c)
    /\ Remember(IF pc[c] = "torn" /\ pc'[c] = "ok" /\ alone[c] THEN Recorded(c) ELSE {})
    /\ UNCHANGED alone

Interrupted(c) ==
    /\ Interrupt(c)
    /\ UNCHANGED <<alone, clean>>

Orphaned(c) == {p \in Pid : parent[p] = c}

\* The command's exit leaves its children to init, which reaps the zombies.
CommandExit(c) ==
    /\ pc[c] \in Ended
    /\ Goto(c, "idle")
    /\ parent' = [p \in Pid |-> IF p \in Orphaned(c) THEN NoCmd ELSE parent[p]]
    /\ proc' = [p \in Pid |-> IF p \in Orphaned(c) /\ proc[p] = "zombie"
                              THEN "free" ELSE proc[p]]
    /\ Remember({})
    /\ Forget(c)
    /\ alone' = [alone EXCEPT ![c] = TRUE]
    /\ UNCHANGED disk

Exits(p) ==
    /\ ProcessExit(p)
    /\ Remember({})
    /\ UNCHANGED alone

Next ==
    \/ \E c \in Cmd : Command(c) \/ Step(c) \/ Interrupted(c) \/ CommandExit(c)
    \/ \E p \in Pid : Exits(p)

Spec == Init /\ [][Next]_vars

-----------------------------------------------------------------------------
(* Properties.                                                              *)

\* A process that a start put in the state file, with no other command running
\* meanwhile, stays findable: until something sends it SIGKILL or it ends, the
\* state file names it - whatever commands overlap, fail or are interrupted
\* afterwards (start's replacement of an unhealthy simulator, the unlink of
\* stop, kill and a failed start, the truncating write of _dump_json).
Tracked == \A p \in clean : Live(p) => p \in Named(file)

\* A start or restart that raised its own error, rather than being interrupted,
\* leaves none of the processes it spawned running unkilled: the except clauses
\* of start and _start_xvfb cover every failure after a fork.
FailedStartLeavesNothing ==
    \A c \in Cmd, p \in Pid : pc[c] = "error" /\ parent[p] = c => ~Live(p)

\* The result an undisturbed command reports agrees with what it leaves behind:
\* after start there is a readable state file, after stop and kill there is no
\* state file and nothing that a state file had properly recorded is left alive.
ResultMatchesDisk ==
    \A c \in Cmd : alone[c] =>
        /\ pc[c] = "ok" /\ then[c] = "start" => file \in StateFile
        /\ pc[c] \in {"ok", "absent"} /\ then[c] \in {"stop", "kill"} =>
             file = NoFile /\ \A p \in clean : ~Live(p)

\* Stopping is gentle: a properly recorded process is never sent SIGKILL unless
\* it was sent SIGTERM before, except by kill (the flash image is written back
\* by a simulator that gets to handle SIGTERM).
GraceBeforeKill ==
    [][\A p \in clean : proc[p] = "run" /\ proc'[p] = "kill" =>
          \E c \in Cmd : pc[c] = "killing" /\ then[c] = "kill"]_vars

=============================================================================
