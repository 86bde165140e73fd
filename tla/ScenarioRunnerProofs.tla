--------------------------- MODULE ScenarioRunnerProofs ---------------------------
(***************************************************************************)
(* The safety properties of ScenarioRunner hold for any number of process  *)
(* identifiers, of runs and of Ctrl-C, and for scenario functions that make *)
(* any calls of the simulator.                                              *)
(***************************************************************************)
EXTENDS ScenarioRunner, SimulatorProofs

InCall == {"starting", "calling", "stopping"}
Reporting == {"report", "write", "writing", "finished"}

\* A simulator call is in progress in three stages; the last of them stops.
PhaseInv ==
    /\ stage \in InCall <=> pc[Runner] # "idle"
    /\ stage = "stopping" => then[Runner] = "stop"

\* Without Ctrl-C the timer is armed in the scenario function only.
TimerInv ==
    interrupts = 0 =>
        /\ TimerConfined
        /\ ~prior
        /\ stage \in {"new", "announce", "starting"} => ~fired
        /\ pc[Runner] # "interrupt"

\* start's except clause is at work.
CleaningUp == pc[Runner] \in {"signal", "grace", "unlink"} /\ then[Runner] = "cleanup"

\* A deadline that fired ends the call it struck in by an exception, and cannot be
\* forgotten: the run that goes on has not passed.
FiredInv ==
    fired =>
        /\ stage \notin {"new", "announce", "body"}
        /\ stage \in {"starting", "calling"} => pc[Runner] \in {"error", "interrupt"} \/ CleaningUp
        /\ stage = "stopping" /\ status = "passed" => pc[Runner] = "error"
        /\ stage \in {"leave", "closing"} \cup Reporting => status # "passed"

\* From the end of the scenario function on there is a verdict, and it is earned.
VerdictInv ==
    /\ stage \in {"leave", "closing", "stopping"} \cup Reporting =>
          /\ status # "running"
          /\ status = "passed" => FALSE \notin checks
          /\ fired /\ interrupts = 0 => status = "timed_out"
    /\ stage \in {"write", "writing", "finished"} => junit = status
    /\ stage = "finished" => result = status

\* Between two steps of a call only the call itself changes the state file, and
\* nothing but an exception from outside leaves it truncated.
FileInv ==
    /\ pc[Runner] = "torn" => Runner \in linked
    /\ pc[Runner] = "stopload" => file # NoFile
    /\ stage = "stopping" /\ pc[Runner] \in {"ok", "absent"} => file = NoFile
    /\ stage \in Reporting => file = NoFile
    /\ interrupts = 0 /\ ~cut =>
          /\ file = Torn => pc[Runner] = "torn" \/ CleaningUp
          /\ stage = "stopping" => pc[Runner] # "error"

\* Where a call that has not been cut keeps what it must not lose: in its locals
\* until the state file is written, in the state file, in refs while it stops.
Holds ==
    IF pc[Runner] \in {"validate", "xfork", "unlink"} THEN {}
    ELSE IF pc[Runner] \in {"xwait", "fork"} THEN {xvfb[Runner]}
    ELSE IF pc[Runner] \in {"forked", "wait", "dump", "torn"} THEN {sim[Runner], xvfb[Runner]}
    ELSE IF CleaningUp THEN refs[Runner]
    ELSE IF pc[Runner] \in {"signal", "grace", "killing"} THEN refs[Runner] \cap Named(file)
    ELSE Named(file)

HeldInv == ~cut => \A p \in Pid : Live(p) => p \in Holds

IInv ==
    /\ TypeOK /\ LocalsInv /\ PhaseInv /\ TimerInv /\ FiredInv /\ VerdictInv
    /\ FileInv /\ HeldInv /\ AbortNeedsInterrupt

\* Nothing runs yet.
LEMMA InitIInv == Init => IInv
<1> SUFFICES ASSUME Init PROVE IInv
  OBVIOUS
<1>1. SimInv
  BY SimInitInv DEF Init
<1>2. TypeOK
  <2>1. interrupts \in 0..MaxInterrupts /\ checks \subseteq BOOLEAN
    BY RunnerAssumption DEF Init
  <2> QED
    BY <1>1, <2>1, Zenon DEF SimInv, TypeOK, Final, Over, Init
<1> USE RunnerAssumption DEF Init, SimInit, InCall, Reporting
<1>3. PhaseInv /\ TimerInv /\ FiredInv /\ VerdictInv /\ AbortNeedsInterrupt
  BY DEF PhaseInv, TimerInv, TimerConfined, FiredInv, VerdictInv, AbortNeedsInterrupt
<1>4. FileInv /\ HeldInv
  BY SimulatorAssumption DEF FileInv, HeldInv, Live
<1> QED
  BY <1>1, <1>2, <1>3, <1>4 DEF SimInv, IInv

-----------------------------------------------------------------------------
(* Types.                                                                   *)

\* The exception of an outside event is a step of the call's own, or ends it.
LEMMA RaiseInv ==
    ASSUME IInv, RaiseInCall
    PROVE  SimInv'
<1> USE RunnerAssumption DEF IInv, TypeOK, SimInv
<1>1. CASE StartFailed(Runner) \/ XvfbFailed(Runner)
  BY <1>1, CallStepInv DEF CallStep
<1>2. CASE /\ pc[Runner] = "forked"
           /\ Cleanup(Runner, {xvfb[Runner]})
           /\ UNCHANGED <<kernel, disk, headless, sim, xvfb>>
  BY <1>2, SimulatorAssumption
  DEF Cleanup, Goto, SimTypeOK, LocalsInv, StartSteps, kernel, disk, Active, InTry, Uses
<1>3. CASE /\ pc[Runner] \in Active \ (InTry \cup {"forked", "xwait"})
           /\ Goto(Runner, "error")
           /\ UNCHANGED <<kernel, disk, locals>>
  BY <1>3
  DEF Goto, SimTypeOK, LocalsInv, StartSteps, kernel, disk, locals, Active, InTry, Ended, Uses
<1> QED
  BY <1>1, <1>2, <1>3 DEF RaiseInCall

\* Between calls the locals are forgotten or left alone.
LEMMA DropInv ==
    ASSUME IInv, Goto(Runner, "idle"), Forget(Runner), UNCHANGED <<kernel, disk>>
    PROVE  SimInv'
  BY ForgetInv, RunnerAssumption DEF IInv, TypeOK, SimInv, Ended, kernel, disk

LEMMA SimulatorTypes ==
    ASSUME IInv, Next
    PROVE  SimInv'
<1> USE RunnerAssumption DEF SimInv
<1>1. CASE SimulatorStep
  BY <1>1, CallStepInv DEF SimulatorStep, IInv, TypeOK
<1>2. CASE \/ Announced \/ StopSimulator \/ \E op \in Nested : CallSimulator(op)
  BY <1>2, BeginInv DEF Announced, StopSimulator, CallSimulator, IInv, TypeOK, Uses
<1>3. CASE Started \/ NotStarted \/ CallReturned \/ CallRaised \/ Stopped \/ StopRaised
  BY <1>3, DropInv
  DEF Started, NotStarted, CallReturned, CallRaised, Stopped, StopRaised, Returned
<1>4. CASE \/ ResultOpened \/ JunitWritten \/ FinalResultOpened \/ FinalResultWritten
           \/ Disarm \/ \E b \in BOOLEAN : Check(b)
           \/ \E o \in {"passed", "failed", "skipped"} : BodyEnds(o)
  BY <1>4
  DEF ResultOpened, JunitWritten, FinalResultOpened, FinalResultWritten, Disarm, Check, BodyEnds,
      IInv, TypeOK, SimTypeOK, LocalsInv, simVars
<1>5. CASE RunCommand
  BY <1>5 DEF RunCommand, IInv, TypeOK, SimTypeOK, LocalsInv, disk, locals
<1>6. CASE DeadlineFires
  BY <1>6, RaiseInv, DropInv DEF DeadlineFires, DropCall
<1>7. CASE CtrlC
  <2>1. CASE Interrupt(Runner)
    BY <2>1, ForgetInv DEF Interrupt, IInv, TypeOK, Ended
  <2> QED
    BY <1>7, <2>1, DropInv DEF CtrlC, DropCall
<1>8. CASE NextScenario
  BY <1>8 DEF NextScenario, IInv, TypeOK, SimTypeOK, LocalsInv, kernel, locals
<1>9. ASSUME NEW p \in Pid, Exits(p) PROVE SimInv'
  BY <1>9, ProcessExitInv DEF Exits, IInv, TypeOK
<1> QED
  BY <1>1, <1>2, <1>3, <1>4, <1>5, <1>6, <1>7, <1>8, <1>9 DEF Next, Run

\* Every step keeps the state well typed.
LEMMA TypeStep ==
    ASSUME IInv, Next
    PROVE  TypeOK' /\ LocalsInv'
<1>1. SimInv'
  BY SimulatorTypes
<1> DEFINE RunTypeOK ==
      /\ stage \in {"new", "announce", "starting", "body", "calling", "leave",
                    "closing", "stopping", "report", "write", "writing"} \cup Over
      /\ status \in Final \cup {"running"}
      /\ result \in Final \cup {"running", "absent", "torn"}
      /\ junit \in Final \cup {"absent"}
      /\ checks \subseteq BOOLEAN
      /\ timer \in BOOLEAN /\ prior \in BOOLEAN
      /\ interrupts \in 0..MaxInterrupts
      /\ fired \in BOOLEAN /\ cut \in BOOLEAN
<1>2. RunTypeOK
  BY DEF IInv, TypeOK
<1>3. RunTypeOK'
  <2> USE <1>2, RunnerAssumption DEF Final, Over, At, To
  <2>1. CASE ResultOpened
    BY <2>1 DEF ResultOpened
  <2>2. CASE Announced
    BY <2>2 DEF Announced
  <2>3. CASE SimulatorStep
    BY <2>3 DEF SimulatorStep, runVars
  <2>4. CASE Started
    BY <2>4 DEF Started
  <2>5. CASE NotStarted
    BY <2>5 DEF NotStarted, Verdict
  <2>6. CASE \E b \in BOOLEAN : Check(b)
    BY <2>6 DEF Check
  <2>7. CASE RunCommand
    BY <2>7 DEF RunCommand
  <2>8. CASE \E op \in Nested : CallSimulator(op)
    BY <2>8 DEF CallSimulator
  <2>9. CASE CallReturned
    BY <2>9 DEF CallReturned
  <2>10. CASE CallRaised
    BY <2>10 DEF CallRaised, Verdict
  <2>11. CASE \E o \in {"passed", "failed", "skipped"} : BodyEnds(o)
    BY <2>11 DEF BodyEnds
  <2>12. CASE Disarm
    BY <2>12 DEF Disarm
  <2>13. CASE StopSimulator
    BY <2>13 DEF StopSimulator
  <2>14. CASE Stopped
    BY <2>14 DEF Stopped
  <2>15. CASE StopRaised
    BY <2>15 DEF StopRaised
  <2>16. CASE JunitWritten
    BY <2>16 DEF JunitWritten, IInv, VerdictInv, Reporting
  <2>17. CASE FinalResultOpened
    BY <2>17 DEF FinalResultOpened
  <2>18. CASE FinalResultWritten
    BY <2>18 DEF FinalResultWritten
  <2>19. CASE DeadlineFires
    BY <2>19 DEF DeadlineFires, Unwind
  <2>20. CASE CtrlC
    BY <2>20 DEF CtrlC, Unwind
  <2>21. CASE NextScenario
    BY <2>21 DEF NextScenario
  <2>22. CASE \E p \in Pid : Exits(p)
    BY <2>22 DEF Exits, runVars
  <2> QED
    BY <2>1, <2>2, <2>3, <2>4, <2>5, <2>6, <2>7, <2>8, <2>9, <2>10, <2>11, <2>12, <2>13, <2>14, <2>15, <2>16, <2>17, <2>18, <2>19, <2>20, <2>21, <2>22
    DEF Next, Run
<1> QED
  BY <1>1, <1>3 DEF SimInv, TypeOK

-----------------------------------------------------------------------------
(* Control.                                                                 *)

\* A call goes on until it returns or raises; stop raises only if it finds no
\* readable state file, and nothing comes out of start's cleanup but an error.
LEMMA CallProgress ==
    ASSUME IInv, CallStep(Runner)
    PROVE  /\ pc[Runner] # "idle" /\ pc'[Runner] \notin {"idle", "interrupt"}
           /\ then[Runner] = "stop" =>
                 /\ then'[Runner] = "stop"
                 /\ pc'[Runner] = "error" => pc[Runner] = "stopload" /\ file \notin StateFile
           /\ CleaningUp => CleaningUp' \/ pc'[Runner] = "error"
           /\ pc[Runner] \notin {"error", "interrupt"}
<1> USE RunnerAssumption
    DEF IInv, TypeOK, SimTypeOK, LocalsInv, StartSteps, InTry, Active, Ended, Uses, Goto, locals,
        CleaningUp
<1>1. CASE StopCheck(Runner)
  BY <1>1 DEF StopCheck, Return, After
<1>2. CASE StopLoad(Runner)
  BY <1>2 DEF StopLoad
<1>3. CASE Signal(Runner) \/ GraceWait(Runner) \/ GraceExpired(Runner) \/ KillNow(Runner)
  BY <1>3 DEF Signal, GraceWait, GraceExpired, KillNow
<1>4. CASE Unlink(Runner)
  BY <1>4 DEF Unlink, Return, After
<1>5. CASE \/ StartCheck(Runner) \/ StartLoad(Runner) \/ Validate(Runner)
           \/ SpawnXvfb(Runner) \/ XvfbReady(Runner) \/ SpawnSim(Runner)
           \/ SimAssigned(Runner) \/ SimReady(Runner) \/ DumpOpen(Runner) \/ DumpWrite(Runner)
  BY <1>5
  DEF StartCheck, StartLoad, Validate, SpawnXvfb, XvfbReady, SpawnSim, SimAssigned, SimReady,
      DumpOpen, DumpWrite
<1>6. CASE XvfbFailed(Runner) \/ SimExited(Runner) \/ StartFailed(Runner)
  BY <1>6 DEF XvfbFailed, SimExited, StartFailed, Cleanup
<1> QED
  BY <1>1, <1>2, <1>3, <1>4, <1>5, <1>6 DEF CallStep

\* An exception from outside ends a call or sends start into its cleanup.
LEMMA RaiseProgress ==
    ASSUME IInv, RaiseInCall
    PROVE  /\ pc[Runner] \in Active /\ pc[Runner] \notin {"idle", "error", "interrupt"}
           /\ pc'[Runner] = "error" \/ CleaningUp'
           /\ pc'[Runner] \notin {"idle", "interrupt"}
           /\ then[Runner] = "stop" => then'[Runner] = "stop" /\ pc'[Runner] = "error"
<1> USE RunnerAssumption
    DEF IInv, TypeOK, SimTypeOK, LocalsInv, StartSteps, InTry, Active, Goto, locals, CleaningUp
<1> QED
  BY DEF RaiseInCall, StartFailed, XvfbFailed, Cleanup

\* Ctrl-C ends a call at once.
LEMMA InterruptProgress ==
    ASSUME IInv, Interrupt(Runner)
    PROVE  /\ pc[Runner] \notin {"idle", "error", "interrupt"}
           /\ pc'[Runner] = "interrupt" /\ then'[Runner] = "stop"
  BY RunnerAssumption
  DEF IInv, TypeOK, SimTypeOK, Interrupt, Forget, Goto, Active, InTry

\* A call begins, and its result is taken.
LEMMA BeginProgress ==
    ASSUME IInv, NEW op, NEW hl, Begin(Runner, op, hl)
    PROVE  pc[Runner] = "idle" /\ pc'[Runner] \in {"start", "stop"} /\ then'[Runner] = op
  BY RunnerAssumption DEF IInv, TypeOK, SimTypeOK, Begin

LEMMA DropProgress ==
    ASSUME IInv, Goto(Runner, "idle"), Forget(Runner)
    PROVE  pc'[Runner] = "idle" /\ then'[Runner] = "stop"
  BY RunnerAssumption DEF IInv, TypeOK, SimTypeOK, Goto, Forget

\* The stages between calls, and the processes, leave the call alone.
Quiet ==
    \/ ResultOpened \/ RunCommand \/ Disarm \/ JunitWritten \/ FinalResultOpened
    \/ FinalResultWritten \/ NextScenario
    \/ \E b \in BOOLEAN : Check(b)
    \/ \E o \in {"passed", "failed", "skipped"} : BodyEnds(o)
    \/ \E p \in Pid : Exits(p)

LEMMA QuietProgress ==
    ASSUME Quiet
    PROVE  UNCHANGED <<pc, locals>>
  BY DEF Quiet, ResultOpened, RunCommand, Disarm, JunitWritten, FinalResultOpened,
         FinalResultWritten, NextScenario, Check, BodyEnds, Exits, ProcessExit, simVars, locals

\* Calls are made, and end, where PhaseInv says; the timer is disarmed with the
\* scenario function; run_scenario raises only because of Ctrl-C or a cut.
LEMMA ControlStep ==
    ASSUME IInv, Next
    PROVE  PhaseInv' /\ TimerInv' /\ AbortNeedsInterrupt'
<1>1. PhaseInv /\ TimerInv /\ AbortNeedsInterrupt /\ FileInv
  BY DEF IInv
<1>2. timer \in BOOLEAN /\ prior \in BOOLEAN /\ fired \in BOOLEAN /\ cut \in BOOLEAN
      /\ interrupts \in Nat
  BY RunnerAssumption DEF IInv, TypeOK
<1> USE <1>1, <1>2 DEF PhaseInv, TimerInv, TimerConfined, AbortNeedsInterrupt, InCall, At, To
<1>3. CASE SimulatorStep
  BY <1>3, CallProgress DEF SimulatorStep, runVars
<1>4. CASE Announced \/ StopSimulator \/ \E op \in Nested : CallSimulator(op)
  <2>1. /\ pc[Runner] = "idle" /\ pc'[Runner] \in {"start", "stop"}
        /\ stage' = "stopping" => then'[Runner] = "stop"
    BY <1>4, BeginProgress DEF Announced, StopSimulator, CallSimulator
  <2>2. /\ \/ stage = "announce" /\ stage' = "starting"
           \/ stage = "body" /\ stage' = "calling"
           \/ stage = "closing" /\ stage' = "stopping"
        /\ UNCHANGED <<timer, prior, interrupts, fired, cut>>
    BY <1>4 DEF Announced, StopSimulator, CallSimulator
  <2> QED
    BY <2>1, <2>2
<1>5. CASE Started \/ NotStarted \/ CallReturned \/ CallRaised \/ Stopped
  <2>1. pc'[Runner] = "idle"
    BY <1>5, DropProgress DEF Started, NotStarted, CallReturned, CallRaised, Stopped, Returned
  <2>2. CASE Started
    BY <2>1, <2>2 DEF Started
  <2>3. CASE NotStarted \/ CallReturned \/ CallRaised \/ Stopped
    BY <2>1, <2>3 DEF NotStarted, CallReturned, CallRaised, Stopped
  <2> QED
    BY <1>5, <2>2, <2>3
<1>6. CASE StopRaised
  BY <1>6, DropProgress DEF StopRaised, Returned, FileInv
<1>7. CASE Quiet
  <2>1. UNCHANGED <<pc, then>>
    BY <1>7, QuietProgress DEF locals
  <2>2. CASE \/ ResultOpened \/ RunCommand \/ JunitWritten \/ FinalResultOpened
             \/ FinalResultWritten
    BY <2>1, <2>2
    DEF ResultOpened, RunCommand, JunitWritten, FinalResultOpened, FinalResultWritten
  <2>3. CASE Disarm \/ NextScenario
    BY <2>1, <2>3 DEF Disarm, NextScenario
  <2>4. CASE \/ \E b \in BOOLEAN : Check(b)
             \/ \E o \in {"passed", "failed", "skipped"} : BodyEnds(o)
    <3>1. /\ stage = "body" /\ stage' \in {"body", "leave"}
          /\ UNCHANGED <<timer, prior, interrupts, fired, cut>>
      BY <2>4 DEF Check, BodyEnds
    <3> QED
      BY <2>1, <3>1
  <2>5. CASE \E p \in Pid : Exits(p)
    BY <2>1, <2>5 DEF Exits, runVars
  <2> QED
    BY <1>7, <2>2, <2>3, <2>4, <2>5 DEF Quiet
<1>8. CASE DeadlineFires
  <2>1. CASE RaiseInCall /\ UNCHANGED stage
    BY <1>8, <2>1, RaiseProgress DEF DeadlineFires
  <2>2. CASE Caught /\ DropCall /\ Unwind
    BY <1>8, <2>2, DropProgress DEF DeadlineFires, DropCall, Caught, Unwind
  <2>3. CASE Uncaught /\ DropCall /\ To("aborted")
    <3>1. interrupts # 0 /\ UNCHANGED interrupts
      BY <1>8, <2>3 DEF DeadlineFires, Uncaught
    <3>2. pc'[Runner] = "idle" /\ stage' = "aborted"
      BY <2>3, DropProgress DEF DropCall
    <3> QED
      BY <3>1, <3>2
  <2> QED
    BY <1>8, <2>1, <2>2, <2>3 DEF DeadlineFires
<1>9. CASE CtrlC
  <2>1. interrupts' > 0 /\ interrupts' # 0
    BY <1>9 DEF CtrlC
  <2>2. CASE Interrupt(Runner) /\ UNCHANGED stage
    BY <2>1, <2>2, InterruptProgress
  <2>3. CASE Caught /\ DropCall /\ Unwind
    BY <2>1, <2>3, DropProgress DEF DropCall, Unwind
  <2>4. CASE Uncaught /\ DropCall /\ To("aborted")
    BY <2>1, <2>4, DropProgress DEF DropCall
  <2> QED
    BY <1>9, <2>2, <2>3, <2>4 DEF CtrlC
<1> QED
  BY <1>3, <1>4, <1>5, <1>6, <1>7, <1>8, <1>9 DEF Next, Run, Quiet

-----------------------------------------------------------------------------
(* The verdict.                                                             *)

\* A deadline that has fired leads to a timeout unless Ctrl-C intervenes, and the
\* reports repeat the verdict.
LEMMA VerdictStep ==
    ASSUME IInv, Next
    PROVE  FiredInv' /\ VerdictInv'
<1>1. PhaseInv /\ TimerInv /\ FiredInv /\ VerdictInv
  BY DEF IInv
<1>2. /\ timer \in BOOLEAN /\ fired \in BOOLEAN /\ interrupts \in Nat
      /\ status \in Final \cup {"running"}
  BY RunnerAssumption DEF IInv, TypeOK
<1> USE <1>1, <1>2 DEF FiredInv, VerdictInv, InCall, Reporting, At, To
<1>3. CASE SimulatorStep
  BY <1>3, CallProgress DEF SimulatorStep, runVars, PhaseInv
<1>4. CASE Announced \/ StopSimulator \/ \E op \in Nested : CallSimulator(op)
  <2>1. CASE Announced
    BY <2>1 DEF Announced
  <2>2. CASE StopSimulator
    BY <2>2 DEF StopSimulator
  <2>3. CASE \E op \in Nested : CallSimulator(op)
    BY <2>3 DEF CallSimulator
  <2> QED
    BY <1>4, <2>1, <2>2, <2>3
<1>5. CASE Started \/ CallReturned
  <2>1. CASE Started
    BY <2>1 DEF Started, Returned, CleaningUp
  <2>2. CASE CallReturned
    BY <2>2 DEF CallReturned, Returned, CleaningUp
  <2> QED
    BY <1>5, <2>1, <2>2
<1>6. CASE NotStarted \/ CallRaised
  <2>1. /\ status' = Verdict /\ pc[Runner] \in {"error", "interrupt"}
        /\ stage \in {"starting", "calling"} /\ stage' \in {"leave", "closing"}
        /\ UNCHANGED <<fired, interrupts>>
    BY <1>6 DEF NotStarted, CallRaised, Returned
  <2>2. fired /\ interrupts = 0 => pc[Runner] = "error"
    BY <2>1 DEF TimerInv
  <2> QED
    BY <2>1, <2>2 DEF Verdict
<1>7. CASE Stopped \/ StopRaised
  <2>1. CASE Stopped
    BY <2>1 DEF Stopped, Returned
  <2>2. CASE StopRaised
    BY <2>2 DEF StopRaised
  <2> QED
    BY <1>7, <2>1, <2>2
<1>8. CASE \/ \E b \in BOOLEAN : Check(b)
           \/ \E o \in {"passed", "failed", "skipped"} : BodyEnds(o)
  <2>1. CASE \E b \in BOOLEAN : Check(b)
    BY <2>1 DEF Check
  <2>2. CASE \E o \in {"passed", "failed", "skipped"} : BodyEnds(o)
    <3>1. /\ stage = "body" /\ stage' = "leave" /\ UNCHANGED <<fired, checks>>
          /\ status' \in {"passed", "failed", "skipped"}
          /\ status' = "passed" => FALSE \notin checks
      BY <2>2 DEF BodyEnds
    <3>2. ~fired'
      BY <3>1
    <3> QED
      BY <3>1, <3>2
  <2> QED
    BY <1>8, <2>1, <2>2
<1>9. CASE ResultOpened \/ JunitWritten \/ FinalResultOpened \/ FinalResultWritten
  <2>1. CASE ResultOpened
    BY <2>1 DEF ResultOpened
  <2>2. CASE JunitWritten
    BY <2>2 DEF JunitWritten
  <2>3. CASE FinalResultOpened
    BY <2>3 DEF FinalResultOpened
  <2>4. CASE FinalResultWritten
    BY <2>4 DEF FinalResultWritten
  <2> QED
    BY <1>9, <2>1, <2>2, <2>3, <2>4
<1>10. CASE RunCommand \/ Disarm \/ NextScenario
  <2>1. CASE RunCommand
    BY <2>1 DEF RunCommand
  <2>2. CASE Disarm
    BY <2>2 DEF Disarm
  <2>3. CASE NextScenario
    BY <2>3 DEF NextScenario
  <2> QED
    BY <1>10, <2>1, <2>2, <2>3
<1>11. CASE \E p \in Pid : Exits(p)
  <2>1. UNCHANGED runVars /\ UNCHANGED <<pc, then>>
    BY <1>11, QuietProgress DEF Exits, Quiet, locals
  <2> QED
    BY <2>1 DEF runVars, CleaningUp
<1>12. CASE DeadlineFires
  <2>1. UNCHANGED <<result, junit, checks, interrupts>> /\ timer /\ fired'
    BY <1>12 DEF DeadlineFires
  <2>2. CASE RaiseInCall /\ UNCHANGED <<stage, status>>
    <3>1. stage \in InCall
      BY <2>2, RaiseProgress DEF PhaseInv
    <3>2. interrupts = 0 => stage = "calling"
      BY <2>1, <3>1 DEF TimerInv, TimerConfined
    <3> QED
      BY <2>1, <2>2, <3>1, <3>2, RaiseProgress DEF PhaseInv
  <2>3. CASE Caught /\ status' = "timed_out" /\ Unwind
    BY <2>1, <2>3 DEF Caught, Unwind
  <2>4. CASE To("aborted")
    BY <2>1, <2>4
  <2> QED
    BY <1>12, <2>2, <2>3, <2>4 DEF DeadlineFires
<1>13. CASE CtrlC
  <2>1. UNCHANGED <<result, junit, checks, fired>> /\ interrupts' # 0
    BY <1>13 DEF CtrlC
  <2>2. CASE Interrupt(Runner) /\ UNCHANGED <<stage, status>>
    <3>1. stage \in InCall
      BY <2>2, InterruptProgress DEF PhaseInv
    <3> QED
      BY <2>1, <2>2, <3>1, InterruptProgress
  <2>3. CASE Caught /\ status' = "failed" /\ Unwind
    BY <2>1, <2>3 DEF Caught, Unwind
  <2>4. CASE To("aborted")
    BY <2>1, <2>4
  <2> QED
    BY <1>13, <2>2, <2>3, <2>4 DEF CtrlC
<1> QED
  BY <1>3, <1>4, <1>5, <1>6, <1>7, <1>8, <1>9, <1>10, <1>11, <1>12, <1>13 DEF Next, Run

-----------------------------------------------------------------------------
(* The state file and the processes.                                        *)

\* What one step of a call does to the state file.
LEMMA CallFile ==
    ASSUME IInv, CallStep(Runner)
    PROVE  /\ pc'[Runner] = "torn" => Runner \in linked'
           /\ pc'[Runner] = "stopload" => file' # NoFile
           /\ then[Runner] = "stop" /\ pc'[Runner] \in {"ok", "absent"} => file' = NoFile
           /\ file' = Torn =>
                 \/ pc'[Runner] = "torn" \/ CleaningUp'
                 \/ file = Torn /\ pc[Runner] # "torn" /\ ~CleaningUp
<1>1. SimTypeOK /\ LocalsInv /\ FileInv
  BY DEF IInv, TypeOK
<1> USE <1>1, RunnerAssumption, SimulatorAssumption
    DEF SimTypeOK, LocalsInv, FileInv, StartSteps, InTry, Active, Ended, Uses, Goto, kernel, disk,
        locals, CleaningUp
<1>2. CASE StopCheck(Runner)
  BY <1>2 DEF StopCheck, Return, After
<1>3. CASE StopLoad(Runner)
  BY <1>3 DEF StopLoad
<1>4. CASE \/ Signal(Runner) \/ GraceWait(Runner) \/ GraceExpired(Runner) \/ KillNow(Runner)
  BY <1>4 DEF Signal, GraceWait, GraceExpired, KillNow
<1>5. CASE Unlink(Runner)
  BY <1>5 DEF Unlink, Return, After
<1>6. CASE StartCheck(Runner) \/ StartLoad(Runner) \/ Validate(Runner)
  BY <1>6 DEF StartCheck, StartLoad, Validate
<1>7. CASE \/ SpawnXvfb(Runner) \/ XvfbReady(Runner) \/ SpawnSim(Runner)
           \/ SimAssigned(Runner) \/ SimReady(Runner)
  BY <1>7 DEF SpawnXvfb, XvfbReady, SpawnSim, SimAssigned, SimReady
<1>8. CASE XvfbFailed(Runner) \/ SimExited(Runner) \/ StartFailed(Runner)
  BY <1>8 DEF XvfbFailed, SimExited, StartFailed, Cleanup
<1>9. CASE DumpOpen(Runner)
  BY <1>9 DEF DumpOpen
<1>10. CASE DumpWrite(Runner)
  BY <1>10 DEF DumpWrite, StateFile
<1> QED
  BY <1>2, <1>3, <1>4, <1>5, <1>6, <1>7, <1>8, <1>9, <1>10 DEF CallStep

LEMMA FileStep ==
    ASSUME IInv, Next
    PROVE  FileInv'
<1>1. FileInv /\ PhaseInv /\ TimerInv /\ SimTypeOK
  BY DEF IInv, TypeOK
<1>2. interrupts \in Nat /\ cut \in BOOLEAN
  BY RunnerAssumption DEF IInv, TypeOK
<1> USE <1>1, <1>2 DEF FileInv, InCall, Reporting, At, To
<1>3. CASE SimulatorStep
  <2>1. UNCHANGED runVars /\ stage \in InCall /\ CallStep(Runner)
    BY <1>3, CallProgress DEF SimulatorStep, PhaseInv, runVars
  <2>2. stage = "stopping" /\ pc'[Runner] = "error" => file = Torn /\ pc[Runner] = "stopload"
    BY <2>1, CallProgress DEF PhaseInv, SimTypeOK
  <2>3. interrupts = 0 /\ ~cut /\ stage = "stopping" => pc'[Runner] # "error"
    BY <2>2 DEF CleaningUp
  <2> QED
    BY <2>1, <2>3, CallFile DEF runVars, PhaseInv
<1>4. CASE Announced \/ StopSimulator \/ \E op \in Nested : CallSimulator(op)
  <2>1. UNCHANGED <<disk, interrupts, cut>> /\ pc[Runner] = "idle" /\ pc'[Runner] \in {"start", "stop"}
    BY <1>4, BeginProgress DEF Announced, StopSimulator, CallSimulator, Begin
  <2>2. stage' \notin Reporting
    BY <1>4 DEF Announced, StopSimulator, CallSimulator
  <2> QED
    BY <2>1, <2>2 DEF disk, CleaningUp
<1>5. CASE Started \/ NotStarted \/ CallReturned \/ CallRaised \/ Stopped \/ StopRaised
  <2>1. /\ UNCHANGED <<disk, interrupts, cut>> /\ pc'[Runner] = "idle"
        /\ pc[Runner] \in {"ok", "absent", "error", "interrupt"}
    BY <1>5, DropProgress
    DEF Started, NotStarted, CallReturned, CallRaised, Stopped, StopRaised, Returned
  <2>2. /\ stage' # "stopping"
        /\ stage' \in Reporting => stage = "stopping" /\ pc[Runner] \in {"ok", "absent"}
    BY <1>5 DEF Started, NotStarted, CallReturned, CallRaised, Stopped, StopRaised, Returned
  <2> QED
    BY <2>1, <2>2 DEF disk, CleaningUp
<1>6. CASE Quiet
  <2>1. UNCHANGED <<pc, then, interrupts, cut>>
    BY <1>6, QuietProgress
    DEF locals, Quiet, ResultOpened, RunCommand, Disarm, JunitWritten, FinalResultOpened,
        FinalResultWritten, NextScenario, Check, BodyEnds, Exits, runVars
  <2>2. CASE NextScenario
    BY <2>1, <2>2, SimulatorAssumption DEF NextScenario, PhaseInv
  <2>3. CASE ~NextScenario
    <3>1. /\ UNCHANGED disk
          /\ stage' = "stopping" => stage = "stopping"
          /\ stage' \in Reporting => stage \in Reporting
      BY <1>6, <2>3
      DEF Quiet, ResultOpened, RunCommand, Disarm, JunitWritten, FinalResultOpened,
          FinalResultWritten, Check, BodyEnds, Exits, ProcessExit, runVars, simVars, disk
    <3> QED
      BY <2>1, <3>1 DEF disk, CleaningUp
  <2> QED
    BY <2>2, <2>3
<1>7. CASE DeadlineFires
  <2>1. interrupts' = interrupts /\ cut' = (cut \/ Unprotected) /\ timer
    BY <1>7 DEF DeadlineFires
  <2>2. CASE RaiseInCall /\ UNCHANGED stage
    <3>1. UNCHANGED disk /\ stage \in InCall
      BY <2>2, RaiseProgress
      DEF RaiseInCall, StartFailed, XvfbFailed, PhaseInv, disk, kernel
    <3>2. pc[Runner] = "torn" \/ CleaningUp => CleaningUp' \/ cut'
      BY <2>1, <2>2, RunnerAssumption
      DEF RaiseInCall, StartFailed, XvfbFailed, Cleanup, Goto, Unprotected, CleaningUp, InTry,
          SimTypeOK
    <3>3. interrupts = 0 => stage # "stopping"
      BY <2>1 DEF TimerInv, TimerConfined
    <3>4. pc'[Runner] \in {"error", "signal", "grace", "unlink"}
      BY <2>2, RaiseProgress DEF CleaningUp
    <3> QED
      BY <2>1, <2>2, <3>1, <3>2, <3>3, <3>4 DEF disk
  <2>3. CASE (Caught \/ Uncaught) /\ DropCall /\ (Unwind \/ To("aborted"))
    <3>1. UNCHANGED disk /\ pc'[Runner] = "idle" /\ stage' \in {"leave", "closing", "aborted"}
      BY <2>3, DropProgress DEF DropCall, Unwind, disk, kernel
    <3>2. pc[Runner] \notin {"torn", "signal", "grace", "unlink"}
      BY <2>3 DEF Caught, Uncaught, PhaseInv, Ended
    <3> QED
      BY <2>1, <3>1, <3>2 DEF disk, CleaningUp
  <2> QED
    BY <1>7, <2>2, <2>3 DEF DeadlineFires
<1>8. CASE CtrlC
  <2>1. interrupts' # 0
    BY <1>8 DEF CtrlC
  <2>2. CASE Interrupt(Runner) /\ UNCHANGED stage
    BY <2>1, <2>2, InterruptProgress DEF Interrupt, PhaseInv
  <2>3. CASE DropCall /\ (Unwind \/ To("aborted"))
    BY <2>1, <2>3, DropProgress DEF DropCall, Unwind, disk, kernel
  <2> QED
    BY <1>8, <2>2, <2>3 DEF CtrlC
<1> QED
  BY <1>3, <1>4, <1>5, <1>6, <1>7, <1>8 DEF Next, Run, Quiet

\* A process that runs unkilled is among what the call holds, from one step of the
\* call to the next: stop takes what the file names and unlinks it when all of it
\* is gone or sent SIGKILL; start spawns when the file is gone and nothing runs.
LEMMA CallHolds ==
    ASSUME IInv, CallStep(Runner), \A p \in Pid : Live(p) => p \in Holds
    PROVE  \A p \in Pid : Live(p)' => p \in Holds'
<1>1. SimTypeOK /\ LocalsInv /\ FileInv
  BY DEF IInv, TypeOK
<1>2. \A p \in Pid : p # NoPid
  BY SimulatorAssumption
<1> USE <1>1, <1>2, RunnerAssumption, SimulatorAssumption
    DEF SimTypeOK, LocalsInv, FileInv, StartSteps, InTry, Active, Ended, Uses, Goto, kernel, disk,
        locals, CleaningUp, Holds, Named, Alive, Live, Exists
<1>3. CASE StopCheck(Runner)
  BY <1>3 DEF StopCheck, Return, After
<1>4. CASE StopLoad(Runner)
  BY <1>4 DEF StopLoad
<1>5. CASE Signal(Runner)
  BY <1>5 DEF Signal, AliveRefs, SigTerm
<1>6. CASE GraceWait(Runner)
  BY <1>6 DEF GraceWait, AliveRefs
<1>7. CASE GraceExpired(Runner)
  BY <1>7 DEF GraceExpired, SigKill
<1>8. CASE KillNow(Runner)
  BY <1>8 DEF KillNow, AliveRefs, SigKill
<1>9. CASE Unlink(Runner)
  BY <1>9 DEF Unlink, Return, After
<1>10. CASE StartCheck(Runner)
  BY <1>10 DEF StartCheck
<1>11. CASE StartLoad(Runner)
  BY <1>11 DEF StartLoad
<1>12. CASE Validate(Runner)
  BY <1>12 DEF Validate
<1>13. CASE SpawnXvfb(Runner)
  BY <1>13 DEF SpawnXvfb, Fork
<1>14. CASE XvfbReady(Runner)
  BY <1>14 DEF XvfbReady
<1>15. CASE XvfbFailed(Runner)
  BY <1>15 DEF XvfbFailed, Cleanup, SigKill
<1>16. CASE SpawnSim(Runner)
  BY <1>16 DEF SpawnSim, Fork
<1>17. CASE SimAssigned(Runner)
  BY <1>17 DEF SimAssigned
<1>18. CASE SimReady(Runner)
  BY <1>18 DEF SimReady
<1>19. CASE SimExited(Runner)
  BY <1>19 DEF SimExited, Cleanup
<1>20. CASE StartFailed(Runner)
  BY <1>20 DEF StartFailed, Cleanup
<1>21. CASE DumpOpen(Runner)
  BY <1>21 DEF DumpOpen
<1>22. CASE DumpWrite(Runner)
  BY <1>22 DEF DumpWrite, StateFile
<1> QED
  BY <1>3, <1>4, <1>5, <1>6, <1>7, <1>8, <1>9, <1>10, <1>11, <1>12, <1>13, <1>14, <1>15, <1>16,
     <1>17, <1>18, <1>19, <1>20, <1>21, <1>22
  DEF CallStep

\* Away from start's children the state file alone is enough to find what runs.
LEMMA HoldsOutside ==
    /\ pc[Runner] \in {"idle", "start", "load", "stop", "stopload"} \cup Ended => Holds = Named(file)
    /\ pc[Runner] \notin InTry \cup {"xwait"} /\ ~Unprotected => Holds \subseteq Named(file)
  BY DEF Holds, CleaningUp, Ended, InTry, Unprotected

LEMMA HeldStep ==
    ASSUME IInv, Next
    PROVE  HeldInv'
<1>1. HeldInv /\ SimTypeOK /\ PhaseInv /\ FileInv
  BY DEF IInv, TypeOK
<1> USE <1>1 DEF HeldInv
<1>2. pc'[Runner] \in {"idle", "start", "stop"} \cup Ended => Holds' = Named(file')
  BY DEF Holds, CleaningUp, Ended, Named
<1>3. CASE SimulatorStep
  BY <1>3, CallHolds DEF SimulatorStep, runVars
<1>4. CASE Announced \/ StopSimulator \/ \E op \in Nested : CallSimulator(op)
  <2>1. /\ UNCHANGED <<kernel, disk, cut>>
        /\ pc[Runner] = "idle" /\ pc'[Runner] \in {"start", "stop"}
    BY <1>4, BeginProgress DEF Announced, StopSimulator, CallSimulator, Begin, At
  <2> QED
    BY <1>2, <2>1, HoldsOutside DEF kernel, disk, Live, Named
<1>5. CASE Started \/ NotStarted \/ CallReturned \/ CallRaised \/ Stopped \/ StopRaised
  <2>1. /\ UNCHANGED <<kernel, disk, cut>>
        /\ pc[Runner] \in Ended /\ pc'[Runner] = "idle"
    BY <1>5, DropProgress
    DEF Started, NotStarted, CallReturned, CallRaised, Stopped, StopRaised, Returned, At, Ended
  <2> QED
    BY <1>2, <2>1, HoldsOutside DEF kernel, disk, Live, Named
<1>6. CASE Quiet
  <2>1. UNCHANGED <<pc, locals, cut>>
    BY <1>6, QuietProgress
    DEF Quiet, ResultOpened, RunCommand, Disarm, JunitWritten, FinalResultOpened,
        FinalResultWritten, NextScenario, Check, BodyEnds, Exits, runVars, At
  <2>2. \A p \in Pid : Live(p)' => Live(p)
    BY <1>6
    DEF Quiet, ResultOpened, RunCommand, Disarm, JunitWritten, FinalResultOpened,
        FinalResultWritten, NextScenario, Check, BodyEnds, Exits, ProcessExit, simVars, kernel,
        Live, SimTypeOK
  <2>3. file' = file
    BY <1>6
    DEF Quiet, ResultOpened, RunCommand, Disarm, JunitWritten, FinalResultOpened,
        FinalResultWritten, NextScenario, Check, BodyEnds, Exits, ProcessExit, simVars, disk,
        FileInv, Reporting
  <2> QED
    BY <2>1, <2>2, <2>3 DEF Holds, CleaningUp, Named, locals
<1>7. CASE DeadlineFires
  <2>1. cut' = (cut \/ Unprotected)
    BY <1>7 DEF DeadlineFires
  <2>2. CASE StartFailed(Runner) \/ XvfbFailed(Runner)
    BY <2>1, <2>2, CallHolds DEF CallStep
  <2>3. CASE pc[Runner] = "forked"
    BY <2>1, <2>3 DEF Unprotected
  <2>4. CASE /\ pc[Runner] \in Active \ (InTry \cup {"forked", "xwait"})
             /\ Goto(Runner, "error")
             /\ UNCHANGED <<kernel, disk, locals>>
    <3>1. pc'[Runner] = "error"
      BY <2>4, RunnerAssumption DEF Goto, SimTypeOK
    <3> QED
      BY <1>2, <2>1, <2>4, <3>1, HoldsOutside DEF kernel, disk, Live, Named, Ended
  <2>5. CASE (Caught \/ Uncaught) /\ DropCall
    <3>1. UNCHANGED <<kernel, disk>> /\ pc'[Runner] = "idle"
      BY <2>5, DropProgress DEF DropCall
    <3>2. pc[Runner] \in Ended \cup {"idle"}
      BY <2>5 DEF Caught, Uncaught, PhaseInv, InCall
    <3> QED
      BY <1>2, <2>1, <3>1, <3>2, HoldsOutside DEF kernel, disk, Live, Named
  <2> QED
    BY <1>7, <2>2, <2>3, <2>4, <2>5 DEF DeadlineFires, RaiseInCall
<1>8. CASE CtrlC
  <2>1. cut' = (cut \/ pc[Runner] \in InTry \cup {"xwait"} \/ Unprotected)
    BY <1>8 DEF CtrlC
  <2>2. CASE Interrupt(Runner)
    <3>1. UNCHANGED <<kernel, file>> /\ pc'[Runner] = "interrupt"
      BY <2>2, InterruptProgress DEF Interrupt
    <3> QED
      BY <1>2, <2>1, <3>1, HoldsOutside DEF kernel, Live, Named, Ended
  <2>3. CASE (Caught \/ Uncaught) /\ DropCall
    <3>1. UNCHANGED <<kernel, disk>> /\ pc'[Runner] = "idle"
      BY <2>3, DropProgress DEF DropCall
    <3>2. pc[Runner] \in Ended \cup {"idle"}
      BY <2>3 DEF Caught, Uncaught, PhaseInv, InCall
    <3> QED
      BY <1>2, <2>1, <3>1, <3>2, HoldsOutside DEF kernel, disk, Live, Named
  <2> QED
    BY <1>8, <2>2, <2>3 DEF CtrlC
<1> QED
  BY <1>3, <1>4, <1>5, <1>6, <1>7, <1>8 DEF Next, Run, Quiet

-----------------------------------------------------------------------------

LEMMA Invariance == Spec => []IInv
<1>1. IInv /\ [Next]_vars => IInv'
  <2> SUFFICES ASSUME IInv, [Next]_vars PROVE IInv'
    OBVIOUS
  <2>1. CASE Next
    BY <2>1, TypeStep, ControlStep, VerdictStep, FileStep, HeldStep DEF IInv
  <2>2. CASE UNCHANGED vars
    <3> USE <2>2 DEF vars, simVars, runVars
    <3>1. TypeOK' /\ LocalsInv'
      BY DEF IInv, TypeOK, SimTypeOK, LocalsInv
    <3>2. PhaseInv' /\ TimerInv' /\ AbortNeedsInterrupt'
      BY DEF IInv, PhaseInv, TimerInv, TimerConfined, AbortNeedsInterrupt
    <3>3. FiredInv' /\ VerdictInv' /\ FileInv'
      BY DEF IInv, FiredInv, CleaningUp, VerdictInv, FileInv
    <3>4. HeldInv'
      BY DEF IInv, HeldInv, Holds, CleaningUp, Live, Named
    <3> QED
      BY <3>1, <3>2, <3>3, <3>4 DEF IInv
  <2> QED
    BY <2>1, <2>2
<1> QED
  BY <1>1, InitIInv, PTL DEF Spec

\* A run, its files and its simulator are always well typed.
THEOREM RunnerTyped == Spec => []TypeOK
  BY Invariance, PTL DEF IInv

\* Without Ctrl-C the timer never outlives the scenario function, in any number of
\* consecutive runs.
THEOREM DeadlineConfined == Spec => []TimerConfined
<1>1. IInv => TimerConfined
  BY DEF IInv, TimerInv, TimerConfined
<1> QED
  BY <1>1, Invariance, PTL

\* A run that finishes reports one verdict, and the verdict is earned.
THEOREM VerdictIsEarned == Spec => []VerdictEarned
<1>1. IInv => VerdictEarned
  BY DEF IInv, FiredInv, VerdictInv, Reporting, VerdictEarned
<1> QED
  BY <1>1, Invariance, PTL

\* Only Ctrl-C, or a deadline in start's own cleanup, keeps a run from reporting.
THEOREM RunReports == Spec => []AbortNeedsInterrupt
  BY Invariance, PTL DEF IInv

\* A run that no exception from outside cut where start's children are unprotected
\* leaves no process behind, whatever the scenario function did.
THEOREM NothingLeftRunning == Spec => []StoppedUnlessCut
<1>1. IInv => StoppedUnlessCut
  <2> SUFFICES ASSUME IInv, ~cut, stage = "finished", NEW p \in Pid, Live(p) PROVE FALSE
    BY DEF StoppedUnlessCut, ProcessesStopped
  <2>1. file = NoFile /\ pc[Runner] = "idle"
    BY DEF IInv, FileInv, Reporting, PhaseInv, InCall
  <2>2. p \in Named(file)
    BY <2>1 DEF IInv, HeldInv, Holds, CleaningUp
  <2> QED
    BY <2>1, <2>2, SimulatorAssumption DEF Named
<1> QED
  BY <1>1, Invariance, PTL

=============================================================================
