----------------------------- MODULE SimulatorProofs -----------------------------
(***************************************************************************)
(* What the steps of a Simulator call preserve whoever makes it: a command *)
(* (SimCommandsProofs) or a scenario run (ScenarioRunnerProofs).           *)
(***************************************************************************)
EXTENDS Simulator, TLAPS

StartSteps == {"start", "load", "validate", "xfork", "xwait", "fork", "forked",
               "wait", "dump", "torn"}

\* What the call's own locals hold at each step.
LocalsInv ==
    \A c \in Cmd :
        /\ pc[c] \in StartSteps => then[c] = "start"
        /\ pc[c] \in {"stop", "stopload", "killing"} => then[c] # "cleanup"
        /\ pc[c] = "killing" => then[c] = "kill"
        /\ pc[c] = "xwait" => xvfb[c] \in Pid
        /\ pc[c] \in {"forked", "wait", "dump", "torn"} => sim[c] \in Pid

SimInv == SimTypeOK /\ LocalsInv

\* Before any call.
LEMMA SimInitInv == SimInit => SimInv
  BY SimulatorAssumption
  DEF SimInit, SimInv, SimTypeOK, Active, Uses, LocalsInv, StartSteps

\* A step of a call keeps the state well typed, and the locals mean what
\* LocalsInv says they mean where start and stop use them.
LEMMA CallStepInv ==
    ASSUME SimInv, NEW c \in Cmd, CallStep(c)
    PROVE  SimInv'
<1> USE SimulatorAssumption
    DEF SimInv, SimTypeOK, StateFile, Active, InTry, Ended, Uses, Alive, Live, Exists, Goto,
        kernel, disk, locals, LocalsInv, StartSteps
<1>1. CASE StopCheck(c)
  BY <1>1 DEF StopCheck, Return, After
<1>2. CASE StopLoad(c)
  BY <1>2 DEF StopLoad, Named
<1>3. CASE Signal(c)
  BY <1>3 DEF Signal, AliveRefs, SigTerm
<1>4. CASE GraceWait(c)
  BY <1>4 DEF GraceWait, AliveRefs
<1>5. CASE GraceExpired(c)
  BY <1>5 DEF GraceExpired, SigKill
<1>6. CASE KillNow(c)
  BY <1>6 DEF KillNow, AliveRefs, SigKill
<1>7. CASE Unlink(c)
  BY <1>7 DEF Unlink, Return, After
<1>8. CASE StartCheck(c)
  BY <1>8 DEF StartCheck
<1>9. CASE StartLoad(c)
  BY <1>9 DEF StartLoad, Healthy, MayLookUnhealthy
<1>10. CASE Validate(c)
  BY <1>10 DEF Validate
<1>11. CASE SpawnXvfb(c)
  BY <1>11 DEF SpawnXvfb, Fork
<1>12. CASE XvfbReady(c)
  BY <1>12 DEF XvfbReady
<1>13. CASE XvfbFailed(c)
  BY <1>13 DEF XvfbFailed, Cleanup, SigKill
<1>14. CASE SpawnSim(c)
  BY <1>14 DEF SpawnSim, Fork
<1>15. CASE SimAssigned(c)
  BY <1>15 DEF SimAssigned
<1>16. CASE SimReady(c)
  BY <1>16 DEF SimReady
<1>17. CASE SimExited(c)
  BY <1>17 DEF SimExited, Cleanup
<1>18. CASE StartFailed(c)
  BY <1>18 DEF StartFailed, Cleanup
<1>19. CASE DumpOpen(c)
  BY <1>19 DEF DumpOpen
<1>20. CASE DumpWrite(c)
  BY <1>20 DEF DumpWrite
<1> QED
  BY <1>1, <1>2, <1>3, <1>4, <1>5, <1>6, <1>7, <1>8, <1>9, <1>10, <1>11, <1>12, <1>13, <1>14, <1>15, <1>16, <1>17, <1>18, <1>19, <1>20 DEF CallStep

\* A call begins.
LEMMA BeginInv ==
    ASSUME SimInv, NEW c \in Cmd, NEW op \in Uses \ {"cleanup"}, NEW hl \in BOOLEAN,
           Begin(c, op, hl)
    PROVE  SimInv'
  BY DEF Begin, SimInv, SimTypeOK, LocalsInv, StartSteps, Active, InTry, Ended, Uses, kernel, disk

\* A call is over: nothing is left of its locals.
LEMMA ForgetInv ==
    ASSUME SimInv, NEW c \in Cmd, NEW l \in Ended \cup {"idle"}, Goto(c, l), Forget(c),
           UNCHANGED <<kernel, file>>, linked' \subseteq linked
    PROVE  SimInv'
  BY DEF Goto, Forget, SimInv, SimTypeOK, LocalsInv, StartSteps, Active, InTry, Ended, Uses, kernel

\* A process ends.
LEMMA ProcessExitInv ==
    ASSUME SimInv, NEW p \in Pid, ProcessExit(p)
    PROVE  SimInv'
  BY DEF ProcessExit, SimInv, SimTypeOK, LocalsInv, disk, locals

=============================================================================
