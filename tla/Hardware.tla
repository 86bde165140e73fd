-------------------------------- MODULE Hardware --------------------------------
(***************************************************************************)
(* One run of a hardware command (cli._hardware_main): accept, soak or     *)
(* advertise.  All of them keep their result in a file that                 *)
(* write_hardware_result replaces, and no two of them run in one process.   *)
(***************************************************************************)
EXTENDS Acceptance

CONSTANT MaxWindows   \* bound: scan windows of an observation

ASSUME WindowsAssumption == MaxWindows \in Nat \ {0}

VARIABLES
    command,    \* args.hardware_command
    readings, samples, handled, cut   \* the observation's

Observed == INSTANCE Observation

observation == <<readings, samples, handled, cut>>
acceptance == <<watch, public, require, steps, capacity, history>>
hardwareVars == <<vars, command, observation>>

Accepts == command = "accept"

HardwareInit ==
    \/ /\ Accepts
       /\ Init
       /\ readings = 0 /\ samples = <<>> /\ handled = FALSE /\ cut = FALSE
    \/ /\ Observed!Init
       /\ retained = <<>> /\ cccd = {} /\ resets = 0
       /\ public = [count |-> 0, epoch |-> 0] /\ require = TRUE
       /\ steps = <<>> /\ capacity = "none"
       /\ gate = FALSE /\ raced = FALSE /\ lost = FALSE

Accept ==
    /\ Accepts
    /\ Next
    /\ UNCHANGED <<command, observation>>

Observe ==
    /\ ~Accepts
    /\ Observed!Next
    /\ UNCHANGED acceptance

HardwareNext == Accept \/ Observe

HardwareSpec == HardwareInit /\ [][HardwareNext]_hardwareVars

-----------------------------------------------------------------------------
(* Properties: those of the command that runs.                              *)

\* The state of either kind of run is well typed.
HardwareTypeOK == IF Accepts THEN TypeOK ELSE Observed!TypeOK

\* README: "atomically checkpointed after each completed step"; lessons.md: "Long
\* soaks must checkpoint before the final battery read."  See EvidenceKept of
\* Acceptance and of Observation.
AcceptanceEvidence == Accepts => EvidenceKept
ObservationEvidence == ~Accepts => Observed!EvidenceKept

\* A result on disk that says passed was earned by the run that wrote it: see
\* PassedEarned of Acceptance and of Observation.
ResultEarned == IF Accepts THEN PassedEarned ELSE Observed!PassedEarned

\* An observation that ends by an error of its own leaves a report that says so,
\* unless that report is what could not be written.  run_acceptance_plan has no
\* except clause: what it leaves then is AcceptanceEvidence's.
FailureRecorded == ~Accepts => Observed!FailureRecorded

=============================================================================
