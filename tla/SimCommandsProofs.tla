--------------------------- MODULE SimCommandsProofs ---------------------------
(***************************************************************************)
(* The safety properties of SimCommands hold for any number of commands    *)
(* and of process identifiers.                                             *)
(***************************************************************************)
EXTENDS SimCommands, SimulatorProofs

\* Overlap is symmetric: while a command is alone, every other one is idle.
AloneInv ==
    \A c, d \in Cmd : alone[c] /\ pc[c] # "idle" /\ c # d => pc[d] = "idle"

\* While a command is alone nobody unlinks the file it is writing.
LinkedInv == \A c \in Cmd : pc[c] = "torn" /\ alone[c] => c \in linked

CleanExists == \A p \in clean : proc[p] # "free"

\* A command came after everything in clean; so by the time it is past the stop
\* that opens start, or about to unlink, it has dealt with all of it.
Done(c) == \/ pc[c] \in {"validate", "xfork", "xwait", "fork", "forked", "wait",
                         "dump", "torn", "unlink"}
           \/ pc[c] \in {"signal", "grace"} /\ then[c] = "cleanup"

DoneInv == \A c \in Cmd : Done(c) => \A p \in clean : ~Live(p)

\* ... and while it is stopping what it read, it holds all of it.
HeldInv ==
    \A c \in Cmd : pc[c] \in {"signal", "grace", "killing"} /\ then[c] # "cleanup" =>
        \A p \in clean : Live(p) => p \in refs[c]

GraceInv ==
    \A c \in Cmd : pc[c] = "grace" => \A p \in clean \cap refs[c] : proc[p] # "run"

\* The processes of its own that a call may still have to answer for.
Charge(c) ==
    IF pc[c] \in {"xwait", "fork"} THEN {xvfb[c]}
    ELSE IF pc[c] \in {"forked", "wait", "dump", "torn"} THEN {sim[c], xvfb[c]}
    ELSE IF pc[c] \in {"signal", "grace"} /\ then[c] = "cleanup" THEN refs[c]
    ELSE IF pc[c] \in {"ok", "interrupt"} THEN Pid
    ELSE {}

ChargeInv == \A c \in Cmd, p \in Pid : Live(p) /\ parent[p] = c => p \in Charge(c)

IInv ==
    /\ TypeOK /\ LocalsInv /\ AloneInv /\ LinkedInv /\ CleanExists
    /\ DoneInv /\ HeldInv /\ GraceInv /\ ChargeInv /\ Tracked /\ ResultMatchesDisk

\* A step of a call keeps the state well typed.
LEMMA TypeStep ==
    ASSUME IInv, NEW c \in Cmd, Step(c)
    PROVE  TypeOK' /\ LocalsInv'
<1>1. SimTypeOK' /\ LocalsInv'
  BY CallStepInv DEF Step, IInv, TypeOK, SimInv
<1>2. clean' \subseteq Pid
  BY SimulatorAssumption
  DEF Step, Remember, Recorded, IInv, TypeOK, SimTypeOK, LocalsInv
<1> QED
  BY <1>1, <1>2 DEF Step, IInv, TypeOK

\* A step of a call makes no command idle or busy; the descriptor that start
\* writes through is unlinked only by another busy command.
LEMMA OverlapStep ==
    ASSUME IInv, NEW c \in Cmd, Step(c)
    PROVE  AloneInv' /\ LinkedInv' /\ CleanExists'
<1> USE SimulatorAssumption DEF IInv, TypeOK, SimTypeOK, StateFile, Active, InTry, Ended, Uses,
        Alive, Live, Exists, Goto, Remember, kernel, disk, locals,
        LocalsInv, StartSteps, AloneInv, LinkedInv, CleanExists
<1>1. CASE StopCheck(c)
  BY <1>1 DEF Step, StopCheck, Return, After
<1>2. CASE StopLoad(c)
  BY <1>2 DEF Step, StopLoad, Named
<1>3. CASE Signal(c)
  BY <1>3 DEF Step, Signal, AliveRefs, SigTerm
<1>4. CASE GraceWait(c)
  BY <1>4 DEF Step, GraceWait, AliveRefs
<1>5. CASE GraceExpired(c)
  BY <1>5 DEF Step, GraceExpired, SigKill
<1>6. CASE KillNow(c)
  BY <1>6 DEF Step, KillNow, AliveRefs, SigKill
<1>7. CASE Unlink(c)
  BY <1>7 DEF Step, Unlink, Return, After
<1>8. CASE StartCheck(c)
  BY <1>8 DEF Step, StartCheck, Named
<1>9. CASE StartLoad(c)
  BY <1>9 DEF Step, StartLoad, Healthy, MayLookUnhealthy
<1>10. CASE Validate(c)
  BY <1>10 DEF Step, Validate
<1>11. CASE SpawnXvfb(c)
  BY <1>11 DEF Step, SpawnXvfb, Fork
<1>12. CASE XvfbReady(c)
  BY <1>12 DEF Step, XvfbReady
<1>13. CASE XvfbFailed(c)
  BY <1>13 DEF Step, XvfbFailed, Cleanup, SigKill
<1>14. CASE SpawnSim(c)
  BY <1>14 DEF Step, SpawnSim, Fork
<1>15. CASE SimAssigned(c)
  BY <1>15 DEF Step, SimAssigned
<1>16. CASE SimReady(c)
  BY <1>16 DEF Step, SimReady
<1>17. CASE SimExited(c)
  BY <1>17 DEF Step, SimExited, Cleanup
<1>18. CASE StartFailed(c)
  BY <1>18 DEF Step, StartFailed, Cleanup
<1>19. CASE DumpOpen(c)
  BY <1>19 DEF Step, DumpOpen
<1>20. CASE DumpWrite(c)
  BY <1>20 DEF Step, DumpWrite, Recorded
<1> QED
  BY <1>1, <1>2, <1>3, <1>4, <1>5, <1>6, <1>7, <1>8, <1>9, <1>10, <1>11, <1>12, <1>13, <1>14, <1>15, <1>16, <1>17, <1>18, <1>19, <1>20 DEF Step, CallStep

\* The heart of the proof: StopLoad takes what Tracked says the file names, the
\* grace period ends with all of it gone or sent SIGKILL, and only DumpWrite adds
\* to clean - when the writer is alone, so that no other call has to hold it.
LEMMA CleanStep ==
    ASSUME IInv, NEW c \in Cmd, Step(c)
    PROVE  DoneInv' /\ HeldInv' /\ GraceInv' /\ Tracked' /\ ResultMatchesDisk'
<1> USE SimulatorAssumption DEF IInv, TypeOK, SimTypeOK, StateFile, Active, InTry, Ended, Uses,
        Alive, Live, Exists, Goto, Remember, kernel, disk, locals,
        LocalsInv, StartSteps, AloneInv, LinkedInv, CleanExists, DoneInv, HeldInv, GraceInv, Tracked, ResultMatchesDisk, Done, Named
<1>1. CASE StopCheck(c)
  BY <1>1 DEF Step, StopCheck, Return, After
<1>2. CASE StopLoad(c)
  BY <1>2 DEF Step, StopLoad, Named
<1>3. CASE Signal(c)
  BY <1>3 DEF Step, Signal, AliveRefs, SigTerm
<1>4. CASE GraceWait(c)
  BY <1>4 DEF Step, GraceWait, AliveRefs
<1>5. CASE GraceExpired(c)
  BY <1>5 DEF Step, GraceExpired, SigKill
<1>6. CASE KillNow(c)
  BY <1>6 DEF Step, KillNow, AliveRefs, SigKill
<1>7. CASE Unlink(c)
  BY <1>7 DEF Step, Unlink, Return, After
<1>8. CASE StartCheck(c)
  BY <1>8 DEF Step, StartCheck, Named
<1>9. CASE StartLoad(c)
  BY <1>9 DEF Step, StartLoad, Healthy, MayLookUnhealthy
<1>10. CASE Validate(c)
  BY <1>10 DEF Step, Validate
<1>11. CASE SpawnXvfb(c)
  BY <1>11 DEF Step, SpawnXvfb, Fork
<1>12. CASE XvfbReady(c)
  BY <1>12 DEF Step, XvfbReady
<1>13. CASE XvfbFailed(c)
  BY <1>13 DEF Step, XvfbFailed, Cleanup, SigKill
<1>14. CASE SpawnSim(c)
  BY <1>14 DEF Step, SpawnSim, Fork
<1>15. CASE SimAssigned(c)
  BY <1>15 DEF Step, SimAssigned
<1>16. CASE SimReady(c)
  BY <1>16 DEF Step, SimReady
<1>17. CASE SimExited(c)
  BY <1>17 DEF Step, SimExited, Cleanup
<1>18. CASE StartFailed(c)
  BY <1>18 DEF Step, StartFailed, Cleanup
<1>19. CASE DumpOpen(c)
  BY <1>19 DEF Step, DumpOpen
<1>20. CASE DumpWrite(c)
  BY <1>20 DEF Step, DumpWrite, Recorded
<1> QED
  BY <1>1, <1>2, <1>3, <1>4, <1>5, <1>6, <1>7, <1>8, <1>9, <1>10, <1>11, <1>12, <1>13, <1>14, <1>15, <1>16, <1>17, <1>18, <1>19, <1>20 DEF Step, CallStep

\* What a start has spawned moves from its locals to the refs of its cleanup,
\* and out of these only by ending or by SIGKILL.
LEMMA ChargeStep ==
    ASSUME IInv, NEW c \in Cmd, Step(c)
    PROVE  ChargeInv'
<1> USE SimulatorAssumption DEF IInv, TypeOK, SimTypeOK, StateFile, Active, InTry, Ended, Uses,
        Alive, Live, Exists, Goto, Remember, kernel, disk, locals,
        LocalsInv, StartSteps, ChargeInv, Charge
<1>1. CASE StopCheck(c)
  BY <1>1 DEF Step, StopCheck, Return, After
<1>2. CASE StopLoad(c)
  BY <1>2 DEF Step, StopLoad, Named
<1>3. CASE Signal(c)
  BY <1>3 DEF Step, Signal, AliveRefs, SigTerm
<1>4. CASE GraceWait(c)
  BY <1>4 DEF Step, GraceWait, AliveRefs
<1>5. CASE GraceExpired(c)
  BY <1>5 DEF Step, GraceExpired, SigKill
<1>6. CASE KillNow(c)
  BY <1>6 DEF Step, KillNow, AliveRefs, SigKill
<1>7. CASE Unlink(c)
  BY <1>7 DEF Step, Unlink, Return, After
<1>8. CASE StartCheck(c)
  BY <1>8 DEF Step, StartCheck, Named
<1>9. CASE StartLoad(c)
  BY <1>9 DEF Step, StartLoad, Healthy, MayLookUnhealthy
<1>10. CASE Validate(c)
  BY <1>10 DEF Step, Validate
<1>11. CASE SpawnXvfb(c)
  BY <1>11 DEF Step, SpawnXvfb, Fork
<1>12. CASE XvfbReady(c)
  BY <1>12 DEF Step, XvfbReady
<1>13. CASE XvfbFailed(c)
  BY <1>13 DEF Step, XvfbFailed, Cleanup, SigKill
<1>14. CASE SpawnSim(c)
  BY <1>14 DEF Step, SpawnSim, Fork
<1>15. CASE SimAssigned(c)
  BY <1>15 DEF Step, SimAssigned
<1>16. CASE SimReady(c)
  BY <1>16 DEF Step, SimReady
<1>17. CASE SimExited(c)
  BY <1>17 DEF Step, SimExited, Cleanup
<1>18. CASE StartFailed(c)
  BY <1>18 DEF Step, StartFailed, Cleanup
<1>19. CASE DumpOpen(c)
  BY <1>19 DEF Step, DumpOpen
<1>20. CASE DumpWrite(c)
  BY <1>20 DEF Step, DumpWrite, Recorded
<1> QED
  BY <1>1, <1>2, <1>3, <1>4, <1>5, <1>6, <1>7, <1>8, <1>9, <1>10, <1>11, <1>12, <1>13, <1>14, <1>15, <1>16, <1>17, <1>18, <1>19, <1>20 DEF Step, CallStep

\* A new command is alone if all the others are idle, and ends their solitude.
LEMMA CommandPreserves ==
    ASSUME IInv, NEW c \in Cmd, Command(c)
    PROVE  IInv'
<1> USE SimulatorAssumption DEF IInv, TypeOK, SimTypeOK, StateFile, Active, InTry, Ended, Uses,
        Alive, Live, Exists, Goto, Remember, kernel, disk, locals
<1>1. PICK op \in {"start", "stop", "kill", "restart"}, hl \in Headless : Begin(c, op, hl)
  BY DEF Command
<1>2. /\ alone' \in [Cmd -> BOOLEAN]
      /\ \A d \in Cmd : alone'[d] <=> (pc'[d] # "idle" => \A e \in Cmd \ {d} : pc'[e] = "idle")
  <2> DEFINE lone(d) == pc'[d] # "idle" => \A e \in Cmd \ {d} : pc'[e] = "idle"
  <2>1. alone' = [d \in Cmd |-> lone(d)]
    BY DEF Command
  <2>2. \A d \in Cmd : lone(d) \in BOOLEAN
    OBVIOUS
  <2> HIDE DEF lone
  <2>3. alone' \in [Cmd -> BOOLEAN] /\ \A d \in Cmd : alone'[d] <=> lone(d)
    BY <2>1, <2>2, Zenon
  <2> QED
    BY <2>3 DEF lone
<1>3. clean' = clean
  BY DEF Command
<1>4. TypeOK' /\ LocalsInv'
  BY <1>1, <1>2, <1>3, HeadlessAssumption DEF Begin, LocalsInv, StartSteps
<1>5. AloneInv' /\ LinkedInv' /\ CleanExists'
  BY <1>1, <1>2, <1>3 DEF Begin, AloneInv, LinkedInv, CleanExists
<1>6. DoneInv' /\ HeldInv' /\ GraceInv' /\ Tracked' /\ ResultMatchesDisk'
  BY <1>1, <1>2, <1>3 DEF Begin, AloneInv, DoneInv, HeldInv, GraceInv, Tracked, ResultMatchesDisk, Done
<1>7. ChargeInv'
  BY <1>1 DEF Begin, ChargeInv, Charge
<1> QED
  BY <1>4, <1>5, <1>6, <1>7

\* An interrupted call forgets its locals; nothing they held was in clean.
LEMMA InterruptedPreserves ==
    ASSUME IInv, NEW c \in Cmd, Interrupted(c)
    PROVE  IInv'
<1> USE SimulatorAssumption DEF IInv, TypeOK, SimTypeOK, StateFile, Active, InTry, Ended, Uses,
        Alive, Live, Exists, Goto, Remember, kernel, disk, locals,
        Interrupted, Interrupt, Forget
<1>1. TypeOK' /\ LocalsInv'
  BY DEF LocalsInv, StartSteps
<1>2. AloneInv' /\ LinkedInv' /\ CleanExists'
  BY DEF LocalsInv, StartSteps, AloneInv, LinkedInv, CleanExists
<1>3. DoneInv' /\ HeldInv' /\ GraceInv' /\ Tracked' /\ ResultMatchesDisk'
  BY DEF LocalsInv, StartSteps, AloneInv, LinkedInv, CleanExists, DoneInv, HeldInv, GraceInv, Tracked, ResultMatchesDisk, Done, Named
<1>4. ChargeInv'
  BY DEF LocalsInv, StartSteps, ChargeInv, Charge
<1> QED
  BY <1>1, <1>2, <1>3, <1>4

\* An exiting command gives up its children, and frees only zombies.
LEMMA CommandExitPreserves ==
    ASSUME IInv, NEW c \in Cmd, CommandExit(c)
    PROVE  IInv'
<1> USE SimulatorAssumption DEF IInv, TypeOK, SimTypeOK, StateFile, Active, InTry, Ended, Uses,
        Alive, Live, Exists, Goto, Remember, kernel, disk, locals,
        CommandExit, Forget, Orphaned
<1>1. TypeOK' /\ LocalsInv'
  BY DEF LocalsInv, StartSteps
<1>2. AloneInv' /\ LinkedInv' /\ CleanExists'
  BY DEF LocalsInv, StartSteps, AloneInv, LinkedInv, CleanExists
<1>3. DoneInv' /\ HeldInv' /\ GraceInv' /\ Tracked' /\ ResultMatchesDisk'
  BY DEF LocalsInv, StartSteps, AloneInv, LinkedInv, CleanExists, DoneInv, HeldInv, GraceInv, Tracked, ResultMatchesDisk, Done, Named
<1>4. ChargeInv'
  BY DEF LocalsInv, StartSteps, ChargeInv, Charge
<1> QED
  BY <1>1, <1>2, <1>3, <1>4

\* A process that ends is no longer alive: no invariant asks that it were.
LEMMA ExitsPreserves ==
    ASSUME IInv, NEW p \in Pid, Exits(p)
    PROVE  IInv'
<1> USE SimulatorAssumption DEF IInv, TypeOK, SimTypeOK, StateFile, Active, InTry, Ended, Uses,
        Alive, Live, Exists, Goto, Remember, kernel, disk, locals,
        Exits, ProcessExit
<1>1. TypeOK' /\ LocalsInv'
  BY DEF LocalsInv, StartSteps
<1>2. AloneInv' /\ LinkedInv' /\ CleanExists'
  BY DEF LocalsInv, StartSteps, AloneInv, LinkedInv, CleanExists
<1>3. DoneInv' /\ HeldInv' /\ GraceInv' /\ Tracked' /\ ResultMatchesDisk'
  BY DEF LocalsInv, StartSteps, AloneInv, LinkedInv, CleanExists, DoneInv, HeldInv, GraceInv, Tracked, ResultMatchesDisk, Done, Named
<1>4. ChargeInv'
  BY DEF LocalsInv, StartSteps, ChargeInv, Charge
<1> QED
  BY <1>1, <1>2, <1>3, <1>4

\* The initial state, before any command.
LEMMA InitIInv == Init => IInv
  BY SimulatorAssumption
  DEF Init, SimInit, IInv, TypeOK, SimTypeOK, Active, Uses, LocalsInv, StartSteps,
      AloneInv, LinkedInv, CleanExists, DoneInv, Done, HeldInv, GraceInv,
      ChargeInv, Live, Tracked, ResultMatchesDisk

\* Every step preserves the inductive invariant.
LEMMA NextIInv == IInv /\ [Next]_vars => IInv'
<1> SUFFICES ASSUME IInv, [Next]_vars PROVE IInv'
  OBVIOUS
<1>1. ASSUME NEW c \in Cmd, Command(c) PROVE IInv'
  BY <1>1, CommandPreserves
<1>2. ASSUME NEW c \in Cmd, Step(c) PROVE IInv'
  BY <1>2, TypeStep, OverlapStep, CleanStep, ChargeStep DEF IInv
<1>3. ASSUME NEW c \in Cmd, Interrupted(c) PROVE IInv'
  BY <1>3, InterruptedPreserves
<1>4. ASSUME NEW c \in Cmd, CommandExit(c) PROVE IInv'
  BY <1>4, CommandExitPreserves
<1>5. ASSUME NEW p \in Pid, Exits(p) PROVE IInv'
  BY <1>5, ExitsPreserves
<1>6. CASE UNCHANGED vars
  BY <1>6
  DEF vars, simVars, IInv, TypeOK, SimTypeOK, LocalsInv, AloneInv, LinkedInv, CleanExists,
      DoneInv, Done, HeldInv, GraceInv, ChargeInv, Charge, Live, Tracked, Named,
      ResultMatchesDisk
<1> QED
  BY <1>1, <1>2, <1>3, <1>4, <1>5, <1>6 DEF Next

THEOREM Invariance == Spec => []IInv
  BY InitIInv, NextIInv, PTL DEF Spec

-----------------------------------------------------------------------------

\* The state of the lifecycle is always well typed.
THEOREM TypeCorrect == Spec => []TypeOK
<1>1. IInv => TypeOK
  BY DEF IInv
<1> QED
  BY <1>1, Invariance, PTL

\* A process that an undisturbed start recorded in state.json stays findable
\* through it for as long as it runs, whatever any number of later commands do.
THEOREM TrackedHolds == Spec => []Tracked
<1>1. IInv => Tracked
  BY DEF IInv
<1> QED
  BY <1>1, Invariance, PTL

\* Whatever makes start raise, its except clauses leave no child running.
THEOREM FailedStartIsClean == Spec => []FailedStartLeavesNothing
<1>1. IInv => FailedStartLeavesNothing
  BY DEF IInv, ChargeInv, Charge, FailedStartLeavesNothing
<1> QED
  BY <1>1, Invariance, PTL

\* What an undisturbed command reports is what the state file says.
THEOREM ResultIsTrue == Spec => []ResultMatchesDisk
<1>1. IInv => ResultMatchesDisk
  BY DEF IInv
<1> QED
  BY <1>1, Invariance, PTL

\* Only kill sends SIGKILL to a recorded process that had no SIGTERM before.
THEOREM KillOnlyAfterGrace == Spec => GraceBeforeKill
<1> DEFINE Gentle == \A p \in clean : proc[p] = "run" /\ proc'[p] = "kill" =>
                        \E c \in Cmd : pc[c] = "killing" /\ then[c] = "kill"
<1>1. ASSUME IInv, NEW c \in Cmd, Step(c) PROVE Gentle
  BY <1>1
  DEF IInv, TypeOK, SimTypeOK, LocalsInv, DoneInv, Done, GraceInv, Live, Exists, AliveRefs, Alive,
      Step, CallStep, StopCheck, StopLoad, Signal, SigTerm, GraceWait, GraceExpired, SigKill,
      KillNow, Unlink, StartCheck, StartLoad, Validate, SpawnXvfb, XvfbReady, XvfbFailed,
      SpawnSim, Fork, SimAssigned, SimReady, SimExited, StartFailed, DumpOpen, DumpWrite,
      kernel, locals
<1>2. IInv /\ [Next]_vars => [Gentle]_vars
  BY <1>1
  DEF IInv, TypeOK, SimTypeOK, Next, Command, Begin, Interrupted, Interrupt, CommandExit,
      Exits, ProcessExit, kernel, vars
<1> QED
  BY <1>2, Invariance, PTL DEF Spec, GraceBeforeKill

=============================================================================
