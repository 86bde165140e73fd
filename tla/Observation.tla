------------------------------- MODULE Observation -------------------------------
(***************************************************************************)
(* The hardware commands that watch the air for days, each under a result  *)
(* that is checkpointed through write_hardware_result:                      *)
(*   soak       ptlab.hardware.run_soak: candidate and baseline watch side *)
(*              by side, battery readings at either end;                    *)
(*   advertise  cli._hardware_main with observe_advertising: one watch.     *)
(***************************************************************************)
EXTENDS Naturals, Sequences, SequencesExt

CONSTANT MaxWindows   \* bound: scan windows until the deadline has passed

VARIABLES
    command,   \* which of the two
    at,        \* where the run stands
    readings,  \* soak: battery readings so far, two at the start, two at the end
    samples,   \* per scan window, the watches that were visible
    status,    \* result["status"]
    handled,   \* the except clause has begun
    staged,    \* result.json.tmp
    disk,      \* result.json
    cut        \* history: Ctrl-C

vars == <<command, at, readings, samples, status, handled, staged, disk, cut>>

Watches == IF command = "soak" THEN {"candidate", "baseline"} ELSE {"endpoint"}
Readings == IF command = "soak" THEN 4 ELSE 0
Report == [status : {"running", "passed", "failed"}, readings : 0..4,
           samples : Seq(SUBSET Watches)]
Absent == [status |-> "absent", readings |-> 0, samples |-> <<>>]

TypeOK ==
    /\ command \in {"soak", "advertise"}
    /\ at \in {"new", "save", "opening", "window", "closing", "handler", "over"}
    /\ readings \in 0..4
    /\ samples \in Seq(SUBSET Watches) /\ Len(samples) <= MaxWindows
    /\ status \in {"running", "passed", "failed"}
    /\ handled \in BOOLEAN /\ cut \in BOOLEAN
    /\ staged \in Report \cup {Absent} /\ disk \in Report \cup {Absent}

Init ==
    /\ command \in {"soak", "advertise"}
    /\ at = "new" /\ readings = 0 /\ samples = <<>> /\ status = "running"
    /\ handled = FALSE /\ staged = Absent /\ disk = Absent /\ cut = FALSE

\* checkpoint: the result as it now is goes to the temporary sibling.
Stage ==
    /\ staged' = [status |-> status', readings |-> readings', samples |-> samples']
    /\ at' = "save"
    /\ UNCHANGED disk

\* Where the run goes on from a checkpoint; at least one window is scanned.
Resume ==
    IF status # "running" THEN {"over"}
    ELSE IF command = "soak" /\ readings = 0 THEN {"opening"}
    ELSE {label \in {"window", "closing"} :
             /\ label = "window" => Len(samples) < MaxWindows
             /\ label = "closing" => samples # <<>>}

Begin ==
    /\ at = "new"
    /\ UNCHANGED <<command, readings, samples, status, handled, cut>>
    /\ Stage

Save ==
    /\ at = "save"
    /\ disk' = staged
    /\ at' \in Resume
    /\ UNCHANGED <<command, readings, samples, status, handled, staged, cut>>

\* The first checkpoint and the last resort are outside the try block, and so is
\* the verdict of advertise.
Protected ==
    /\ ~handled
    /\ IF command = "soak" THEN readings > 0 ELSE samples # <<>> /\ status = "running"

SaveFails ==
    /\ at = "save"
    /\ at' = IF Protected THEN "handler" ELSE "over"
    /\ UNCHANGED <<command, readings, samples, status, handled, staged, disk, cut>>

\* read_battery of one watch after the other; the first pair is checkpointed.
OpeningReading ==
    /\ at = "opening"
    /\ readings' = readings + 1
    /\ UNCHANGED <<command, samples, status, handled, cut>>
    /\ \/ readings' = 1 /\ UNCHANGED <<at, staged, disk>>
       \/ readings' = 2 /\ Stage

\* Seeded fault: samples are only saved with the verdict.
Window_Unsaved(visible) ==
    /\ at = "window"
    /\ samples' = Append(samples, visible)
    /\ at' \in {"window", "closing"} /\ (Len(samples') = MaxWindows => at' = "closing")
    /\ UNCHANGED <<command, readings, status, handled, staged, disk, cut>>

\* observe_pair: one scan for both watches, appended to both series at once.
\* observe_advertising: a watch that is not found is not visible.
Window(visible) ==
    /\ at = "window"
    /\ samples' = Append(samples, visible)
    /\ UNCHANGED <<command, readings, status, handled, cut>>
    /\ Stage

ClosingReading ==
    /\ at = "closing" /\ readings < Readings
    /\ readings' = readings + 1
    /\ UNCHANGED <<command, at, samples, status, handled, staged, disk, cut>>

\* Seeded fault: the last window decides.
Verdict_Last == IF samples[Len(samples)] = Watches THEN "passed" ELSE "failed"

\* visibility_passed: every sample of both watches.
Verdict == IF \A i \in DOMAIN samples : samples[i] = Watches THEN "passed" ELSE "failed"

Conclude ==
    /\ at = "closing" /\ readings = Readings
    /\ status' = Verdict
    /\ UNCHANGED <<command, readings, samples, handled, cut>>
    /\ Stage

\* A watch does not answer, the scanner fails, Bleak raises.
Fails ==
    /\ at \in {"opening", "window"} \/ (at = "closing" /\ command = "soak")
    /\ at' = "handler"
    /\ UNCHANGED <<command, readings, samples, status, handled, staged, disk, cut>>

\* Seeded fault: the except clause only re-raises.
Handle_Reraise ==
    /\ at = "handler"
    /\ handled' = TRUE
    /\ status' = "failed"
    /\ at' = "over"
    /\ UNCHANGED <<command, readings, samples, staged, disk, cut>>

\* except Exception: the failure is checkpointed and raised again.
Handle ==
    /\ at = "handler"
    /\ handled' = TRUE
    /\ status' = "failed"
    /\ UNCHANGED <<command, readings, samples, cut>>
    /\ Stage

\* Ctrl-C cancels the task: no except clause runs.
Cancelled ==
    /\ at # "over"
    /\ at' = "over" /\ cut' = TRUE
    /\ UNCHANGED <<command, readings, samples, status, handled, staged, disk>>

Next ==
    \/ Begin \/ Save \/ SaveFails \/ OpeningReading
    \/ \E visible \in SUBSET Watches : Window(visible)
    \/ ClosingReading \/ Conclude \/ Fails \/ Handle \/ Cancelled

Spec == Init /\ [][Next]_vars

-----------------------------------------------------------------------------
(* Properties.                                                              *)

\* lessons.md: "Long soaks must checkpoint before the final battery read."  No
\* radio operation is begun before the samples of all earlier windows can be
\* read from the disk, and no later failure takes them away.
EvidenceKept ==
    /\ at \in {"window", "closing"} => disk.samples = samples
    /\ IsPrefix(disk.samples, samples) /\ Len(samples) <= Len(disk.samples) + 1

\* A report that says passed was earned: the watches were seen in every
\* window and, for a soak, all four battery readings were taken.
PassedEarned ==
    disk.status = "passed" =>
        /\ disk.readings = Readings /\ disk.samples # <<>>
        /\ \A i \in DOMAIN disk.samples : disk.samples[i] = Watches

\* No except clause covers these saves: the first, the except clause's own, and
\* the verdict of advertise.
Uncovered ==
    \/ disk = Absent
    \/ handled
    \/ command = "advertise" /\ status # "running"

\* A run that Ctrl-C does not end leaves its verdict, "failed" after an error of
\* its own, and every sample; one checkpoint that could not be written inside the
\* try block does not change that.  Where the save that fails is one that nothing
\* covers, the report still says "running", or is not there, and only the except
\* clause's own can have lost the last sample.
FailureRecorded ==
    at = "over" /\ ~cut =>
        \/ disk.status = status /\ status # "running" /\ disk.samples = samples
        \/ /\ Uncovered /\ staged # disk
           /\ disk.status \in {"absent", "running"}
           /\ ~handled => disk.samples = samples

=============================================================================
