------------------------------- MODULE Simulator -------------------------------
(***************************************************************************)
(* ptlab.sim.Simulator and the process control under it (sim.py,           *)
(* processes.py): start, stop, kill and restart of one simulator layout,   *)
(* the operating-system processes they spawn and signal, and the state     *)
(* file through which one ptlab command finds what another one started.    *)
(*                                                                         *)
(* A call is a small state machine pc[c], one step per system call that    *)
(* another process can observe.  The module has no behaviour of its own:   *)
(* SimCommands runs the calls as command-line commands, ScenarioRunner as  *)
(* part of a scenario run.                                                 *)
(***************************************************************************)
EXTENDS Naturals

CONSTANTS
    Cmd,      \* Python processes that call the Simulator
    Pid,      \* process identifiers the kernel hands to Xvfb and infinisim
    NoCmd,    \* the parent of a process whose spawner has exited
    NoPid,    \* Python's None for a process
    NoFile,   \* state.json does not exist
    Torn      \* state.json is truncated and not yet rewritten

\* What _dump_json writes: a headless simulator has no Xvfb.
StateFile == [sim : Pid, xvfb : Pid \cup {NoPid}]

ASSUME SimulatorAssumption ==
    /\ NoCmd \notin Cmd
    /\ NoPid \notin Pid
    /\ NoFile \notin StateFile
    /\ Torn \notin StateFile
    /\ NoFile # Torn

VARIABLES
    proc,     \* kernel: state of each pid
    parent,   \* kernel: who can still wait for it
    file,     \* layout.state
    linked,   \* calls whose open descriptor is still the file in the directory
    pc,       \* the step each call has reached
    then,     \* where the shared stop / terminate code returns to
    headless, \* the start option
    sim,      \* start's local `sim`
    xvfb,     \* start's local `xvfb` (and _start_xvfb's `process`)
    refs      \* the process groups terminate_process_groups still waits for

kernel == <<proc, parent>>
disk   == <<file, linked>>
locals == <<then, headless, sim, xvfb, refs>>
simVars == <<proc, parent, file, linked, pc, then, headless, sim, xvfb, refs>>

Ended  == {"ok", "absent", "error", "interrupt"}
\* Where start's `try` block can raise before or after its children exist.
InTry  == {"xfork", "fork", "wait", "dump", "torn"}
Active == {"start", "load", "stop", "stopload", "signal", "grace", "killing",
           "unlink", "validate", "xwait", "forked"} \cup InTry
Uses   == {"stop", "kill", "start", "restart", "cleanup"}

SimTypeOK ==
    /\ proc \in [Pid -> {"free", "run", "term", "kill", "zombie"}]
    /\ parent \in [Pid -> Cmd \cup {NoCmd}]
    /\ file \in StateFile \cup {NoFile, Torn}
    /\ linked \subseteq Cmd
    /\ pc \in [Cmd -> Active \cup Ended \cup {"idle"}]
    /\ then \in [Cmd -> Uses]
    /\ headless \in [Cmd -> BOOLEAN]
    /\ sim \in [Cmd -> Pid \cup {NoPid}]
    /\ xvfb \in [Cmd -> Pid \cup {NoPid}]
    /\ refs \in [Cmd -> SUBSET Pid]

SimInit ==
    /\ proc = [p \in Pid |-> "free"]
    /\ parent = [p \in Pid |-> NoCmd]
    /\ file = NoFile
    /\ linked = {}
    /\ pc = [c \in Cmd |-> "idle"]
    /\ then = [c \in Cmd |-> "stop"]
    /\ headless = [c \in Cmd |-> TRUE]
    /\ sim = [c \in Cmd |-> NoPid]
    /\ xvfb = [c \in Cmd |-> NoPid]
    /\ refs = [c \in Cmd |-> {}]

-----------------------------------------------------------------------------
(* The kernel.                                                              *)

\* process_is_alive: os.kill(pid, 0) also succeeds for a zombie.
Alive(p) == proc[p] # "free"
Exists(p) == proc[p] \in {"run", "term", "kill"}
\* Not yet sent SIGKILL: nothing but its own good will ends it.
Live(p) == proc[p] \in {"run", "term"}

SigTerm(S) == [p \in Pid |-> IF p \in S /\ proc[p] = "run" THEN "term" ELSE proc[p]]
SigKill(S) == [p \in Pid |-> IF p \in S /\ Live(p) THEN "kill" ELSE proc[p]]

\* A process ends by itself, by SIGTERM or by SIGKILL; while its spawner is
\* there to wait for it, a zombie keeps the pid.
ProcessExit(p) ==
    /\ Exists(p)
    /\ proc' = [proc EXCEPT ![p] = IF parent[p] = NoCmd THEN "free" ELSE "zombie"]
    /\ UNCHANGED <<parent, disk, pc, locals>>

\* subprocess.Popen: reap the spawner's abandoned children, fork a new one.
Fork(c, p) ==
    /\ proc[p] = "free"
    /\ proc' = [q \in Pid |->
                  IF q = p THEN "run"
                  ELSE IF proc[q] = "zombie" /\ parent[q] = c /\ q # xvfb[c]
                       THEN "free" ELSE proc[q]]
    /\ parent' = [parent EXCEPT ![p] = c]

Goto(c, label) == pc' = [pc EXCEPT ![c] = label]

-----------------------------------------------------------------------------
(* stop, kill and the shared terminate_process_groups.                      *)

\* Where a finished (or unnecessary) stop hands control back to.
After(c, returned) ==
    CASE then[c] = "stop"    -> returned
      [] then[c] = "kill"    -> returned
      [] then[c] = "start"   -> "validate"
      [] then[c] = "restart" -> "start"
      [] then[c] = "cleanup" -> "error"

Return(c, returned) ==
    /\ Goto(c, After(c, returned))
    /\ then' = [then EXCEPT ![c] = IF @ = "restart" THEN "start" ELSE @]
    /\ refs' = [refs EXCEPT ![c] = {}]

Named(f) == IF f \in StateFile THEN {f.sim, f.xvfb} \ {NoPid} ELSE {}

\* stop and kill begin alike: no state file, nothing to do.
StopCheck(c) ==
    /\ pc[c] = "stop"
    /\ \/ file = NoFile /\ Return(c, "absent")
       \/ file # NoFile /\ Goto(c, "stopload") /\ UNCHANGED <<then, refs>>
    /\ UNCHANGED <<kernel, disk, headless, sim, xvfb>>

\* _load_json raises when the file vanished or is torn.
StopLoad(c) ==
    /\ pc[c] = "stopload"
    /\ \/ file \notin StateFile /\ Goto(c, "error") /\ UNCHANGED refs
       \/ /\ file \in StateFile
          /\ refs' = [refs EXCEPT ![c] = Named(file)]
          /\ Goto(c, IF then[c] = "kill" THEN "killing" ELSE "signal")
    /\ UNCHANGED <<kernel, disk, then, headless, sim, xvfb>>

AliveRefs(c) == {p \in refs[c] : Alive(p)}

\* Seeded fault: the SIGTERM round is skipped.
Signal_Silent(c) ==
    /\ pc[c] = "signal"
    /\ refs' = [refs EXCEPT ![c] = AliveRefs(c)]
    /\ Goto(c, "grace")
    /\ UNCHANGED <<kernel, disk, then, headless, sim, xvfb>>

\* SIGTERM goes to the groups whose leader is alive; the others are forgotten.
Signal(c) ==
    /\ pc[c] = "signal"
    /\ refs' = [refs EXCEPT ![c] = AliveRefs(c)]
    /\ proc' = SigTerm(AliveRefs(c))
    /\ Goto(c, "grace")
    /\ UNCHANGED <<parent, disk, then, headless, sim, xvfb>>

\* One turn of the polling loop.
GraceWait(c) ==
    /\ pc[c] = "grace"
    /\ refs' = [refs EXCEPT ![c] = AliveRefs(c)]
    /\ Goto(c, IF AliveRefs(c) = {} THEN "unlink" ELSE "grace")
    /\ UNCHANGED <<kernel, disk, then, headless, sim, xvfb>>

\* Seeded faults: no SIGKILL for the survivors; no deadline.
GraceExpired_Lenient(c) ==
    /\ pc[c] = "grace"
    /\ Goto(c, "unlink")
    /\ UNCHANGED <<kernel, disk, locals>>

GraceExpired_Never(c) ==
    /\ pc[c] = "grace"
    /\ refs[c] = {}
    /\ Goto(c, "unlink")
    /\ UNCHANGED <<kernel, disk, locals>>

\* The deadline passed: SIGKILL whatever the last turn still saw alive.
GraceExpired(c) ==
    /\ pc[c] = "grace"
    /\ proc' = SigKill(refs[c])
    /\ Goto(c, "unlink")
    /\ UNCHANGED <<parent, disk, locals>>

\* Seeded fault: kill only asks.
KillNow_Term(c) ==
    /\ pc[c] = "killing"
    /\ proc' = SigTerm(AliveRefs(c))
    /\ Goto(c, "unlink")
    /\ UNCHANGED <<parent, disk, locals>>

\* kill sends SIGKILL at once and does not wait.
KillNow(c) ==
    /\ pc[c] = "killing"
    /\ proc' = SigKill(AliveRefs(c))
    /\ Goto(c, "unlink")
    /\ UNCHANGED <<parent, disk, locals>>

\* Seeded fault: start's except clause does not unlink the state file.
Unlink_OnlyStop(c) ==
    /\ pc[c] = "unlink"
    /\ file' = IF then[c] = "cleanup" THEN file ELSE NoFile
    /\ linked' = {}
    /\ Return(c, "ok")
    /\ UNCHANGED <<kernel, headless, sim, xvfb>>

Unlink(c) ==
    /\ pc[c] = "unlink"
    /\ file' = NoFile
    /\ linked' = {}
    /\ Return(c, "ok")
    /\ UNCHANGED <<kernel, headless, sim, xvfb>>

-----------------------------------------------------------------------------
(* start.                                                                   *)

StartCheck(c) ==
    /\ pc[c] = "start"
    /\ Goto(c, IF file = NoFile THEN "validate" ELSE "load")
    /\ UNCHANGED <<kernel, disk, locals>>

\* existing_state_is_healthy: with a display, a slow answer counts as dead.
Healthy(f) == Alive(f.sim) /\ (f.xvfb # NoPid => Exists(f.xvfb))
MayLookUnhealthy(f) == f.xvfb # NoPid \/ ~Alive(f.sim)

StartLoad(c) ==
    /\ pc[c] = "load"
    /\ \/ file \notin StateFile /\ Goto(c, "error")
       \/ file \in StateFile /\ Healthy(file) /\ Goto(c, "ok")
       \/ file \in StateFile /\ MayLookUnhealthy(file) /\ Goto(c, "stop")
    /\ UNCHANGED <<kernel, disk, locals>>

\* Binary, zoom, port and display checks; they raise outside the try block.
Validate(c) ==
    /\ pc[c] = "validate"
    /\ \/ Goto(c, "error")
       \/ Goto(c, IF headless[c] THEN "fork" ELSE "xfork")
    /\ UNCHANGED <<kernel, disk, locals>>

\* Seeded fault: the locals are not tested against None.
Cleanup_Unfiltered(c, held) ==
    /\ refs' = [refs EXCEPT ![c] = held]
    /\ then' = [then EXCEPT ![c] = "cleanup"]
    /\ Goto(c, "signal")

\* The except clause: terminate what the locals hold, unlink, re-raise.
Cleanup(c, held) ==
    /\ refs' = [refs EXCEPT ![c] = held \ {NoPid}]
    /\ then' = [then EXCEPT ![c] = "cleanup"]
    /\ Goto(c, "signal")

SpawnXvfb(c) ==
    /\ pc[c] = "xfork"
    /\ \E p \in Pid : Fork(c, p) /\ xvfb' = [xvfb EXCEPT ![c] = p]
    /\ Goto(c, "xwait")
    /\ UNCHANGED <<disk, then, headless, sim, refs>>

XvfbReady(c) ==
    /\ pc[c] = "xwait"
    /\ Exists(xvfb[c])
    /\ Goto(c, "fork")
    /\ UNCHANGED <<kernel, disk, locals>>

\* _start_xvfb kills its own child, unless poll() finds (and reaps) it dead.
XvfbFailed(c) ==
    /\ pc[c] = "xwait"
    /\ proc' = IF proc[xvfb[c]] = "zombie" THEN [proc EXCEPT ![xvfb[c]] = "free"]
               ELSE SigKill({xvfb[c]})
    /\ xvfb' = [xvfb EXCEPT ![c] = NoPid]
    /\ Cleanup(c, {})
    /\ UNCHANGED <<parent, disk, headless, sim>>

SpawnSim(c) ==
    /\ pc[c] = "fork"
    /\ \E p \in Pid : Fork(c, p) /\ sim' = [sim EXCEPT ![c] = p]
    /\ Goto(c, "forked")
    /\ UNCHANGED <<disk, then, headless, xvfb, refs>>

\* Popen has returned: only now does the local name the child.
SimAssigned(c) ==
    /\ pc[c] = "forked"
    /\ Goto(c, "wait")
    /\ UNCHANGED <<kernel, disk, locals>>

\* The window and then the BLE-control listener answered.
SimReady(c) ==
    /\ pc[c] = "wait"
    /\ Exists(sim[c])
    /\ Goto(c, "dump")
    /\ UNCHANGED <<kernel, disk, locals>>

\* poll() reports (and reaps) a simulator that exited too early.
SimExited(c) ==
    /\ pc[c] = "wait"
    /\ proc[sim[c]] = "zombie"
    /\ proc' = [proc EXCEPT ![sim[c]] = "free"]
    /\ Cleanup(c, {sim[c], xvfb[c]})
    /\ UNCHANGED <<parent, disk, headless, sim, xvfb>>

\* Seeded fault: the except clause forgets Xvfb.
StartFailed_SimOnly(c) ==
    /\ pc[c] \in InTry
    /\ Cleanup(c, {sim[c]})
    /\ UNCHANGED <<kernel, disk, headless, sim, xvfb>>

\* Any other exception: no fork, no window, no listener in time, no write.
StartFailed(c) ==
    /\ pc[c] \in InTry
    /\ Cleanup(c, {sim[c], xvfb[c]})
    /\ UNCHANGED <<kernel, disk, headless, sim, xvfb>>

\* write_bytes truncates state.json before it writes it.
DumpOpen(c) ==
    /\ pc[c] = "dump"
    /\ file' = Torn
    /\ linked' = linked \cup {c}
    /\ Goto(c, "torn")
    /\ UNCHANGED <<kernel, locals>>

\* The write is lost when the file was unlinked under the open descriptor.
DumpWrite(c) ==
    /\ pc[c] = "torn"
    /\ file' = IF c \in linked THEN [sim |-> sim[c], xvfb |-> xvfb[c]] ELSE file
    /\ linked' = linked \ {c}
    /\ Goto(c, "ok")
    /\ UNCHANGED <<kernel, locals>>

-----------------------------------------------------------------------------
(* The operations as their callers see them.                                *)

Begin(c, op, hl) ==
    /\ pc[c] = "idle"
    /\ pc' = [pc EXCEPT ![c] = IF op = "start" THEN "start" ELSE "stop"]
    /\ then' = [then EXCEPT ![c] = op]
    /\ headless' = [headless EXCEPT ![c] = hl]
    /\ UNCHANGED <<kernel, disk, sim, xvfb, refs>>

CallStep(c) ==
    \/ StopCheck(c) \/ StopLoad(c) \/ Signal(c) \/ GraceWait(c)
    \/ GraceExpired(c) \/ KillNow(c) \/ Unlink(c)
    \/ StartCheck(c) \/ StartLoad(c) \/ Validate(c)
    \/ SpawnXvfb(c) \/ XvfbReady(c) \/ XvfbFailed(c)
    \/ SpawnSim(c) \/ SimAssigned(c) \/ SimReady(c) \/ SimExited(c)
    \/ StartFailed(c) \/ DumpOpen(c) \/ DumpWrite(c)

\* The locals of a call that is over.
Forget(c) ==
    /\ then' = [then EXCEPT ![c] = "stop"]
    /\ headless' = [headless EXCEPT ![c] = TRUE]
    /\ sim' = [sim EXCEPT ![c] = NoPid]
    /\ xvfb' = [xvfb EXCEPT ![c] = NoPid]
    /\ refs' = [refs EXCEPT ![c] = {}]

\* KeyboardInterrupt, or the death of the command: `except Exception` clauses
\* do not run and the call is simply over.
Interrupt(c) ==
    /\ pc[c] \in Active
    /\ Goto(c, "interrupt")
    /\ linked' = linked \ {c}
    /\ Forget(c)
    /\ UNCHANGED <<kernel, file>>

=============================================================================
