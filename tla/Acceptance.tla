------------------------------- MODULE Acceptance -------------------------------
(***************************************************************************)
(* ptlab.hardware.run_acceptance_plan and BleakHardware.probe: a plan of   *)
(* peers is tried one after the other on a real watch, Linux adapters by a *)
(* probe (public read, pairing, verified read, CCCD readback over three     *)
(* connections), phones by an operator, with the result checkpointed after *)
(* every step.  Between the probe's connections other companions use the   *)
(* watch.                                                                  *)
(***************************************************************************)
EXTENDS Naturals, Sequences, FiniteSets, SequencesExt

CONSTANTS
    Linux, Phones,    \* labels of the plan's peers, by kind
    Others,           \* companions of the watch that the plan does not name
    Adapter,          \* the BlueZ adapter of each Linux peer
    NoAdapter,        \* a peer that names none
    DefaultAdapter,   \* the adapter BlueZ then takes
    Consent,          \* peers with allow_eviction
    Sequence,         \* the plan's sequence
    CapacityCheck,    \* whether the plan has a capacity_check
    Capacity,         \* peers the watch retains
    MaxResets         \* bound: how often somebody forgets all peers on the watch

Peers == Linux \cup Phones

\* AcceptancePlan.load tells peers apart by these.
PlanIdentity(p) == IF p \in Linux THEN <<"linux", Adapter[p]>> ELSE <<"android", p>>

\* The watch tells them apart by these.
Central(p) ==
    IF p \notin Linux THEN p
    ELSE IF Adapter[p] = NoAdapter THEN DefaultAdapter ELSE Adapter[p]

Centrals == {Central(p) : p \in Peers} \cup Others

\* What load has checked.  Its six peers are one more than the watch retains.
ASSUME PlanAssumption ==
    /\ Linux \cap Phones = {} /\ Consent \subseteq Peers
    /\ Cardinality(Peers) >= 2
    /\ \A p, q \in Peers : PlanIdentity(p) = PlanIdentity(q) => p = q
    /\ Sequence \in Seq(Peers) /\ Len(Sequence) >= 3
    /\ Cardinality(ToSet(Sequence)) >= 2
    /\ CapacityCheck => Cardinality(Peers) > Capacity

ASSUME WatchAssumption ==
    /\ Capacity \in Nat \ {0} /\ MaxResets \in Nat
    /\ CapacityCheck \in BOOLEAN
    /\ Others \cap {Central(p) : p \in Peers} = {}

VARIABLES
    retained,   \* watch: bonded centrals, least recently used first
    cccd,       \* watch: retained centrals with notifications enabled
    resets,     \* watch: reset_epoch
    at,         \* where the run stands
    public,     \* the probe's local: what the public status said
    require,    \* first_linux_probe
    steps,      \* statuses of the finished steps
    capacity,   \* the operator's answer to the capacity check
    status,     \* of the result last built
    staged,     \* result.json.tmp
    disk,       \* result.json
    gate,       \* history: an unpaired verify read was seen to be rejected
    raced,      \* history: a new central paired since the public read
    lost        \* history: the watch dropped the probed central since it paired

watch   == <<retained, cccd, resets>>
results == <<steps, capacity, status>>
files   == <<staged, disk>>
history == <<gate, raced, lost>>
vars == <<watch, at, public, require, results, files, history>>

Outcome == {"pass", "fail", "skip"}
Result  == [status : {"running", "passed", "failed", "incomplete"},
            steps : Seq(Outcome), capacity : Outcome \cup {"none"}]
Absent  == [status |-> "absent", steps |-> <<>>, capacity |-> "none"]

TypeOK ==
    /\ retained \in Seq(Centrals) /\ Len(retained) <= Capacity
    /\ cccd \subseteq ToSet(retained)
    /\ resets \in 0..MaxResets
    /\ at \in {"preflight", "step", "pair", "verify", "subscribe", "readback",
               "capacity", "verdict", "save", "over"}
    /\ public \in [count : 0..Capacity, epoch : 0..MaxResets]
    /\ require \in BOOLEAN
    /\ steps \in Seq(Outcome) /\ Len(steps) <= Len(Sequence)
    /\ capacity \in Outcome \cup {"none"}
    /\ status \in {"running", "passed", "failed", "incomplete"}
    /\ staged \in Result \cup {Absent} /\ disk \in Result \cup {Absent}
    /\ gate \in BOOLEAN /\ raced \in BOOLEAN /\ lost \in BOOLEAN

\* The watch may know some companions, Linux adapters too, from before.
Init ==
    /\ retained \in SeqOf(Centrals, Capacity) /\ IsInjective(retained)
    /\ cccd = {} /\ resets = 0
    /\ at = "preflight" /\ require = TRUE
    /\ public = [count |-> 0, epoch |-> 0]
    /\ steps = <<>> /\ capacity = "none" /\ status = "running"
    /\ staged = Absent /\ disk = Absent
    /\ gate = FALSE /\ raced = FALSE /\ lost = FALSE

-----------------------------------------------------------------------------
(* The watch (InfiniTime): a sixth companion replaces the least recently used. *)

Knows(c) == c \in ToSet(retained)
Full     == Len(retained) >= Capacity

Place(c) == CHOOSE i \in DOMAIN retained : retained[i] = c

Pairs(c) ==
    /\ retained' = Append(IF Knows(c) THEN RemoveAt(retained, Place(c))
                          ELSE IF Full THEN Tail(retained) ELSE retained, c)
    /\ cccd' = cccd \cap ToSet(retained')
    /\ UNCHANGED resets

\* The peer of the step in progress.
Peer == Sequence[Len(steps) + 1]
InStep == {"step", "pair", "verify", "subscribe", "readback"}
Drops == at \in InStep /\ Knows(Central(Peer)) /\ Central(Peer) \notin ToSet(retained')

\* A phone, of the plan or not, connects while the probe does not.
OtherConnects(c) ==
    /\ at \notin {"verify", "subscribe"}
    /\ Pairs(c)
    /\ raced' = (raced \/ ~Knows(c))
    /\ lost' = (lost \/ Drops)
    /\ UNCHANGED <<at, public, require, results, files, gate>>

ForgetAll ==
    /\ resets < MaxResets
    /\ resets' = resets + 1 /\ retained' = <<>> /\ cccd' = {}
    /\ lost' = (lost \/ Drops)
    /\ UNCHANGED <<at, public, require, results, files, gate, raced>>

-----------------------------------------------------------------------------
(* Checkpoints: write_hardware_result.                                      *)

Stage(state, done, answer) ==
    /\ status' = state /\ steps' = done /\ capacity' = answer
    /\ staged' = [status |-> state, steps |-> done, capacity |-> answer]
    /\ at' = "save"
    /\ UNCHANGED disk

Resume ==
    IF status # "running" THEN "over"
    ELSE IF Len(steps) < Len(Sequence) THEN "step"
    ELSE IF CapacityCheck /\ capacity = "none" THEN "capacity"
    ELSE "verdict"

\* os.replace is atomic; an OSError leaves the run and keeps the old result.
Save ==
    /\ at = "save"
    /\ \/ disk' = staged /\ at' = Resume
       \/ at' = "over" /\ UNCHANGED disk
    /\ UNCHANGED <<watch, public, require, results, staged, history>>

Preflight ==
    /\ at = "preflight"
    /\ Stage("running", <<>>, "none")
    /\ UNCHANGED <<watch, public, require, history>>

\* Seeded fault: steps are only saved with the verdict.
Record_Unsaved(outcome) ==
    /\ steps' = Append(steps, outcome)
    /\ at' = IF Len(steps') < Len(Sequence) THEN "step"
             ELSE IF CapacityCheck THEN "capacity" ELSE "verdict"
    /\ UNCHANGED <<capacity, status, files>>

\* A step's status is appended and checkpointed.
Record(outcome) == Stage("running", Append(steps, outcome), capacity)

-----------------------------------------------------------------------------
(* A Linux step: probe.                                                     *)

\* HardwareError, a Bleak error, OSError: the step has failed, the run goes on.
ProbeFails ==
    /\ at \in InStep /\ Peer \in Linux
    /\ Record("fail")
    /\ UNCHANGED <<watch, public, require, history>>

\* Seeded faults: a readable verify characteristic is accepted; the limit is off by one.
GateHolds_Lenient == TRUE
MayPair_OffByOne == Len(retained) > Capacity => Peer \in Consent

\* The unpaired read of companion_verify must be rejected, in the first probe
\* and until one has passed.
GateHolds == require => ~Knows(Central(Peer))

\* A full watch may evict: only with the plan's consent.
MayPair == Full => Peer \in Consent

\* First connection: _read_public, and the checks on what it returned.
ReadPublic ==
    /\ at = "step" /\ Peer \in Linux
    /\ GateHolds /\ MayPair
    /\ public' = [count |-> Len(retained), epoch |-> resets]
    /\ gate' = (gate \/ (require /\ ~Knows(Central(Peer))))
    /\ raced' = FALSE
    /\ at' = "pair"
    /\ UNCHANGED <<watch, require, results, files, lost>>

\* Second connection, pair=True.
Pair ==
    /\ at = "pair"
    /\ Pairs(Central(Peer))
    /\ lost' = FALSE
    /\ at' = "verify"
    /\ UNCHANGED <<public, require, results, files, gate, raced>>

\* Its authenticated status has to continue the public one.
Verify ==
    /\ at = "verify"
    /\ Knows(Central(Peer))
    /\ resets = public.epoch /\ Len(retained) >= public.count
    /\ at' = "subscribe"
    /\ UNCHANGED <<watch, public, require, results, files, history>>

\* start_notify; the watch keeps a CCCD of a retained peer only.
Subscribe ==
    /\ at = "subscribe"
    /\ cccd' = cccd \cup ({Central(Peer)} \cap ToSet(retained))
    /\ at' = "readback"
    /\ UNCHANGED <<retained, resets, public, require, results, files, history>>

\* Seeded fault: the descriptor's value is not compared.
Readback_Blind ==
    /\ at = "readback"
    /\ require' = FALSE
    /\ Record("pass")
    /\ UNCHANGED <<watch, public, history>>

\* Third connection: the CCCD must have been restored.
Readback ==
    /\ at = "readback"
    /\ Central(Peer) \in cccd
    /\ require' = FALSE
    /\ Record("pass")
    /\ UNCHANGED <<watch, public, history>>

-----------------------------------------------------------------------------
(* Phones, the capacity check, the verdict.                                 *)

\* launch_app and snapshot may fail; a PASS is given for a phone that paired.
PhoneStep(outcome) ==
    /\ at = "step" /\ Peer \in Phones
    /\ outcome = "pass" => Knows(Central(Peer))
    /\ Record(outcome)
    /\ UNCHANGED <<watch, public, require, history>>

\* Seeded fault: an answer outside the three is kept.
CheckCapacity_AsTyped(outcome) ==
    /\ at = "capacity"
    /\ Stage("running", steps, IF outcome = "skip" THEN "n/a" ELSE outcome)
    /\ UNCHANGED <<watch, public, require, history>>

CheckCapacity(outcome) ==
    /\ at = "capacity"
    /\ Stage("running", steps, outcome)
    /\ UNCHANGED <<watch, public, require, history>>

Answers == ToSet(steps) \cup ({capacity} \ {"none"})

\* One FAIL fails the run, one SKIP leaves it incomplete.
Overall ==
    IF "fail" \in Answers THEN "failed"
    ELSE IF "skip" \in Answers THEN "incomplete" ELSE "passed"

Decide ==
    /\ at = "verdict"
    /\ Stage(Overall, steps, capacity)
    /\ UNCHANGED <<watch, public, require, history>>

\* Ctrl-C, a rejected preflight, or an exception of no known kind.
Aborted ==
    /\ at # "over"
    /\ at' = "over"
    /\ UNCHANGED <<watch, public, require, results, files, history>>

-----------------------------------------------------------------------------

Run ==
    \/ Preflight \/ Save \/ ReadPublic \/ Pair \/ Verify \/ Subscribe \/ Readback
    \/ ProbeFails
    \/ \E outcome \in Outcome : PhoneStep(outcome) \/ CheckCapacity(outcome)
    \/ Decide \/ Aborted

Next ==
    \/ Run
    \/ \E c \in Phones \cup Others : OtherConnects(c)
    \/ ForgetAll

Spec == Init /\ [][Next]_vars

-----------------------------------------------------------------------------
(* Properties.                                                              *)

\* In this step the watch pairs the probe's central and forgets another one
\* for it, without the plan's consent.
UnaskedEviction ==
    /\ at = "pair" /\ Full /\ Peer \notin Consent
    /\ ~Knows(Central(Peer)) /\ Central(Peer) \in ToSet(retained')

\* context.md: "Full-watch pairing requires explicit eviction permission."
EvictionPermitted == [][~UnaskedEviction]_vars

\* What holds: probe evicts without consent only if another companion took the
\* last place between its two connections.
EvictionNeedsRace == [][UnaskedEviction => raced]_vars

\* README: "atomically checkpointed after each completed step".  While a peer
\* is being tried every earlier step can be read from the disk, and whatever
\* happens then, a crash in the middle of saving included, it stays there.
EvidenceKept ==
    /\ at \in InStep \cup {"capacity", "verdict"} => disk.steps = steps
    /\ disk = Absent => steps = <<>>
    /\ at = "save" => IsPrefix(disk.steps, steps) /\ Len(steps) <= Len(disk.steps) + 1

\* A result that says passed was earned: every step of the plan and the capacity
\* check passed, none was skipped, and if a Linux peer took part the watch was
\* seen to reject an unpaired read in this run.
PassedEarned ==
    disk.status = "passed" =>
        /\ Len(disk.steps) = Len(Sequence) /\ ToSet(disk.steps) = {"pass"}
        /\ CapacityCheck => disk.capacity = "pass"
        /\ ToSet(Sequence) \cap Linux # {} => gate

\* A probe passes only if the watch kept the bond it made from the pairing to
\* the CCCD readback: eviction by another companion or a reset between the
\* connections is noticed.
PassedKeptBond ==
    [][at = "readback" /\ steps' = Append(steps, "pass") => ~lost]_vars

\* "each acceptance peer must use an independent Android serial or BlueZ
\* adapter": a plan that passed has exercised at least two centrals.
PassedOnTwoCentrals ==
    disk.status = "passed" => Cardinality({Central(p) : p \in ToSet(Sequence)}) >= 2

=============================================================================
