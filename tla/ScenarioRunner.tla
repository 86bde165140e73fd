----------------------------- MODULE ScenarioRunner -----------------------------
(***************************************************************************)
(* ptlab.scenario.run_scenario: one Python process that runs scenarios one *)
(* after the other (cli.main), each on a private simulator layout.  A run  *)
(* starts the simulator, executes the scenario function under a SIGALRM    *)
(* deadline, stops the simulator and writes result.json and junit.xml.     *)
(* Simulator calls are the state machine of module Simulator; the deadline *)
(* and Ctrl-C strike between any two of its steps.                         *)
(***************************************************************************)
EXTENDS Simulator

CONSTANTS
    Runner,         \* the Python process
    Nested,         \* simulator operations the scenario function itself calls
    MaxInterrupts   \* how many times Ctrl-C is pressed

ASSUME RunnerAssumption ==
    /\ Runner \in Cmd
    /\ Nested \subseteq {"start", "stop", "kill"}
    /\ MaxInterrupts \in Nat

VARIABLES
    stage,      \* where run_scenario stands
    status,     \* result["status"] in memory
    result,     \* result.json: absent, torn, or the status it holds
    junit,      \* junit.xml: absent or the status it reports
    checks,     \* outcomes in context.assertions
    timer,      \* ITIMER_REAL is armed
    prior,      \* scenario_deadline found it armed and has to restore it
    interrupts, \* number of KeyboardInterrupts so far
    fired,      \* history: the deadline of this run has raised ScenarioTimeout
    cut         \* history: an asynchronous exception hit an unprotected start

runVars == <<stage, status, result, junit, checks, timer, prior, interrupts, fired, cut>>
vars == <<simVars, runVars>>

Final == {"passed", "failed", "timed_out", "skipped"}
Over  == {"finished", "aborted"}

TypeOK ==
    /\ SimTypeOK
    /\ stage \in {"new", "announce", "starting", "body", "calling", "leave",
                  "closing", "stopping", "report", "write", "writing"} \cup Over
    /\ status \in Final \cup {"running"}
    /\ result \in Final \cup {"running", "absent", "torn"}
    /\ junit \in Final \cup {"absent"}
    /\ checks \subseteq BOOLEAN
    /\ timer \in BOOLEAN /\ prior \in BOOLEAN
    /\ interrupts \in 0..MaxInterrupts
    /\ fired \in BOOLEAN /\ cut \in BOOLEAN

Init ==
    /\ SimInit
    /\ stage = "new" /\ status = "running" /\ result = "absent" /\ junit = "absent"
    /\ checks = {} /\ timer = FALSE /\ prior = FALSE /\ interrupts = 0
    /\ fired = FALSE /\ cut = FALSE

At(label) == stage = label /\ UNCHANGED <<interrupts, fired, cut>>
To(label) == stage' = label

-----------------------------------------------------------------------------
(* Before the try block: result.json announces a running scenario.          *)

ResultOpened ==
    /\ At("new")
    /\ result' = "torn"
    /\ To("announce")
    /\ UNCHANGED <<simVars, status, junit, checks, timer, prior>>

\* ... and simulator.start is called, outside the deadline.
Announced ==
    /\ At("announce")
    /\ result' = "running"
    /\ \E hl \in BOOLEAN : Begin(Runner, "start", hl)
    /\ To("starting")
    /\ UNCHANGED <<status, junit, checks, timer, prior>>

\* A step of the simulator call in progress.
SimulatorStep ==
    /\ CallStep(Runner)
    /\ UNCHANGED runVars

\* The caller takes the result of its call.
Returned(outcomes) ==
    /\ pc[Runner] \in outcomes
    /\ Goto(Runner, "idle")
    /\ Forget(Runner)
    /\ UNCHANGED <<kernel, disk>>

Started ==
    /\ At("starting")
    /\ Returned({"ok"})
    /\ timer' = TRUE
    /\ prior' = timer
    /\ To("body")
    /\ UNCHANGED <<status, result, junit, checks>>

\* Seeded faults: every exception is a failure; the verdict is not recorded.
Verdict_Blind == "failed"

NotStarted_Silent ==
    /\ At("starting")
    /\ Returned({"error", "interrupt"})
    /\ To("closing")
    /\ UNCHANGED <<status, result, junit, checks, timer, prior>>

\* `except BaseException`: also a KeyboardInterrupt becomes a failed run.
Verdict == IF fired /\ pc[Runner] = "error" THEN "timed_out" ELSE "failed"

NotStarted ==
    /\ At("starting")
    /\ Returned({"error", "interrupt"})
    /\ status' = Verdict
    /\ To("closing")
    /\ UNCHANGED <<result, junit, checks, timer, prior>>

-----------------------------------------------------------------------------
(* The scenario function.                                                   *)

\* context.check records an outcome and goes on; context.require raises.
Check(passed) ==
    /\ At("body")
    /\ checks' = checks \cup {passed}
    /\ UNCHANGED <<simVars, stage, status, result, junit, timer, prior>>

\* run_command's Popen reaps children whose Popen object is gone.
RunCommand ==
    /\ At("body")
    /\ proc' = [p \in Pid |-> IF proc[p] = "zombie" /\ parent[p] = Runner
                              THEN "free" ELSE proc[p]]
    /\ UNCHANGED <<parent, disk, pc, locals>>
    /\ UNCHANGED <<stage, status, result, junit, checks, timer, prior>>

\* raw_flash_power_loss kills, stops and restarts its simulator.
CallSimulator(op) ==
    /\ At("body")
    /\ Begin(Runner, op, TRUE)
    /\ To("calling")
    /\ UNCHANGED <<status, result, junit, checks, timer, prior>>

CallReturned ==
    /\ At("calling")
    /\ Returned({"ok", "absent"})
    /\ To("body")
    /\ UNCHANGED <<status, result, junit, checks, timer, prior>>

CallRaised ==
    /\ At("calling")
    /\ Returned({"error", "interrupt"})
    /\ status' = Verdict
    /\ To("leave")
    /\ UNCHANGED <<result, junit, checks, timer, prior>>

\* The function returns, skips, or raises anything else.
BodyEnds(outcome) ==
    /\ At("body")
    /\ status' = outcome
    /\ outcome = "passed" => FALSE \notin checks
    /\ To("leave")
    /\ UNCHANGED <<simVars, result, junit, checks, timer, prior>>

\* Seeded fault: the timer is left running.
Disarm_Forgotten ==
    /\ At("leave")
    /\ To("closing")
    /\ UNCHANGED <<simVars, status, result, junit, checks, timer, prior>>

\* scenario_deadline's finally clause restores the timer it found.
Disarm ==
    /\ At("leave")
    /\ timer' = prior
    /\ prior' = FALSE
    /\ To("closing")
    /\ UNCHANGED <<simVars, status, result, junit, checks>>

-----------------------------------------------------------------------------
(* Exceptions from outside: SIGALRM and SIGINT.                             *)

\* start's children are not yet, or no longer, covered by an except clause.
Unprotected ==
    \/ pc[Runner] = "forked"
    \/ pc[Runner] \in {"signal", "grace", "unlink"} /\ then[Runner] = "cleanup"

\* Seeded fault: ScenarioTimeout derives from BaseException.
RaiseInCall_Base ==
    /\ pc[Runner] \in Active
    /\ Goto(Runner, "error")
    /\ UNCHANGED <<kernel, disk, locals>>

\* ScenarioTimeout is an Exception: start's except clause cleans up after it.
RaiseInCall ==
    \/ StartFailed(Runner)
    \/ XvfbFailed(Runner)
    \/ /\ pc[Runner] = "forked"
       /\ Cleanup(Runner, {xvfb[Runner]})
       /\ UNCHANGED <<kernel, disk, headless, sim, xvfb>>
    \/ /\ pc[Runner] \in Active \ (InTry \cup {"forked", "xwait"})
       /\ Goto(Runner, "error")
       /\ UNCHANGED <<kernel, disk, locals>>

\* Where an exception is run_scenario's verdict, and where it leaves it.
Caught   == \/ stage \in {"body", "leave"}
            \/ stage \in {"starting", "calling"} /\ pc[Runner] \in Ended
Uncaught == \/ stage \in {"new", "announce", "closing", "report", "write", "writing"}
            \/ stage = "stopping" /\ pc[Runner] \in Ended

\* The call in progress, if any, has ended: its result is dropped.
DropCall ==
    /\ Goto(Runner, "idle")
    /\ Forget(Runner)
    /\ UNCHANGED <<kernel, disk>>

\* A caught exception leaves the scenario function through scenario_deadline's
\* finally clause, unless it struck there, or before the function was called.
Unwind == To(IF stage \in {"body", "calling"} THEN "leave" ELSE "closing")

\* A timer that an interrupted finally clause left armed can go off anywhere.
DeadlineFires ==
    /\ timer
    /\ timer' = FALSE
    /\ fired' = TRUE
    /\ cut' = (cut \/ Unprotected)
    /\ \/ RaiseInCall /\ UNCHANGED <<stage, status>>
       \/ Caught /\ DropCall /\ status' = "timed_out" /\ Unwind
       \/ Uncaught /\ DropCall /\ To("aborted") /\ UNCHANGED status
    /\ UNCHANGED <<result, junit, checks, prior, interrupts>>

CtrlC ==
    /\ interrupts < MaxInterrupts
    /\ interrupts' = interrupts + 1
    /\ cut' = (cut \/ pc[Runner] \in InTry \cup {"xwait"} \/ Unprotected)
    /\ \/ Interrupt(Runner) /\ UNCHANGED <<stage, status>>
       \/ Caught /\ DropCall /\ status' = "failed" /\ Unwind
       \/ Uncaught /\ DropCall /\ To("aborted") /\ UNCHANGED status
    /\ UNCHANGED <<result, junit, checks, timer, prior, fired>>

-----------------------------------------------------------------------------
(* The finally clause.                                                      *)

StopSimulator ==
    /\ At("closing")
    /\ Begin(Runner, "stop", TRUE)
    /\ To("stopping")
    /\ UNCHANGED <<status, result, junit, checks, timer, prior>>

Stopped ==
    /\ At("stopping")
    /\ Returned({"ok", "absent"})
    /\ To("report")
    /\ UNCHANGED <<status, result, junit, checks, timer, prior>>

\* An exception from stop leaves the finally clause, and run_scenario.
StopRaised ==
    /\ At("stopping")
    /\ Returned({"error", "interrupt"})
    /\ To("aborted")
    /\ UNCHANGED <<status, result, junit, checks, timer, prior>>

JunitWritten ==
    /\ At("report")
    /\ junit' = status
    /\ To("write")
    /\ UNCHANGED <<simVars, status, result, checks, timer, prior>>

FinalResultOpened ==
    /\ At("write")
    /\ result' = "torn"
    /\ To("writing")
    /\ UNCHANGED <<simVars, status, junit, checks, timer, prior>>

FinalResultWritten ==
    /\ At("writing")
    /\ result' = status
    /\ To("finished")
    /\ UNCHANGED <<simVars, status, junit, checks, timer, prior>>

\* cli.main's loop: the next scenario, with files and a layout of its own.
NextScenario ==
    /\ stage = "finished"
    /\ To("new")
    /\ status' = "running" /\ result' = "absent" /\ junit' = "absent" /\ checks' = {}
    /\ fired' = FALSE
    /\ file' = NoFile /\ linked' = {}
    /\ UNCHANGED <<kernel, pc, locals, timer, prior, interrupts, cut>>

-----------------------------------------------------------------------------

Run ==
    \/ ResultOpened \/ Announced \/ SimulatorStep \/ Started \/ NotStarted
    \/ \E passed \in BOOLEAN : Check(passed)
    \/ RunCommand
    \/ \E op \in Nested : CallSimulator(op)
    \/ CallReturned \/ CallRaised
    \/ \E outcome \in {"passed", "failed", "skipped"} : BodyEnds(outcome)
    \/ Disarm \/ StopSimulator \/ Stopped \/ StopRaised
    \/ JunitWritten \/ FinalResultOpened \/ FinalResultWritten

Exits(p) == ProcessExit(p) /\ UNCHANGED runVars

Next ==
    \/ Run
    \/ DeadlineFires
    \/ CtrlC
    \/ NextScenario
    \/ \E p \in Pid : Exits(p)

Spec == Init /\ [][Next]_vars

\* The Python process runs, the interval timer goes off, and the kernel does end
\* a process that was sent SIGKILL.
FairSpec ==
    /\ Spec
    /\ WF_vars(Run) /\ WF_vars(DeadlineFires)
    /\ \A p \in Pid : WF_vars(proc[p] = "kill" /\ Exits(p))

-----------------------------------------------------------------------------
(* Properties.                                                              *)

\* README.md: "Process groups are stopped after pass, failure, or timeout."
ProcessesStopped == stage = "finished" => \A p \in Pid : ~Live(p)

\* What does hold: a process survives its run only if an exception from outside
\* struck inside simulator.start where no except clause covers its children - at
\* Ctrl-C, between fork and assignment, or in start's own cleanup.  Scenario
\* failures, skips, simulator crashes, failed starts and deadlines elsewhere,
\* nested kills, stops and restarts included, never leak one.
StoppedUnlessCut == cut \/ ProcessesStopped

\* The verdict is earned: a finished run reports one status in result.json and
\* junit.xml; it is "passed" only if no check failed and no deadline fired, and a
\* deadline that fired is reported as a timeout whatever the nested simulator
\* calls made of the exception, unless Ctrl-C intervened.
VerdictEarned ==
    stage = "finished" =>
        /\ result = status /\ junit = status /\ status # "running"
        /\ status = "passed" => FALSE \notin checks /\ ~fired
        /\ fired /\ interrupts = 0 => status = "timed_out"

\* Only Ctrl-C can keep a run from reporting: neither a deadline that interrupts
\* a nested start or stop nor a crashed simulator leaves a state file that makes
\* the final simulator.stop raise out of the finally clause (the exception is a
\* deadline that cuts short the cleanup after a failed write of state.json).
AbortNeedsInterrupt == stage = "aborted" => interrupts > 0 \/ cut

\* Without Ctrl-C the SIGALRM timer never outlives the scenario function: nothing
\* in the finally clause, or in the next scenario's start, can be hit by it.
TimerConfined ==
    interrupts = 0 =>
        timer = (stage \in {"body", "calling", "leave"} /\ ~fired)

\* Every run that starts comes to its end: the deadline bounds the scenario
\* function and every simulator call ends by itself.
RunEnds == stage = "new" ~> stage \in Over

\* What a stop, or the cleanup of a failed start, sends its signals to does end,
\* even a process that ignores SIGTERM: also if a deadline or Ctrl-C cuts short a
\* stop that the scenario function called, for the finally clause stops again.
\* Excepted are an exception in a cleanup, which nothing repeats, and one that
\* leaves the finally clause itself.
StopEndsProcess ==
    \A p \in Pid :
        (pc[Runner] = "signal" /\ p \in refs[Runner])
            ~> (~Exists(p) \/ cut \/ stage = "aborted")

=============================================================================
