----------------------------- MODULE HardwareProofs -----------------------------
(***************************************************************************)
(* What the result of a hardware command is worth, for any plan, any watch *)
(* and any number of scan windows and other companions: the inductive      *)
(* invariant of an acceptance run first, then that of the observations.    *)
(***************************************************************************)
EXTENDS Hardware, SequenceTheorems, TLAPS

-----------------------------------------------------------------------------
(* The acceptance run.                                                       *)

Probing == {"pair", "verify", "subscribe", "readback"}

\* Where the run stands says which steps are done and which answers are given.
RunInv ==
    /\ at = "preflight" => disk = Absent /\ steps = <<>>
    /\ at \in InStep => Len(steps) < Len(Sequence) /\ capacity = "none" /\ status = "running"
    /\ at \in Probing => Peer \in Linux
    /\ at = "capacity" => Len(steps) = Len(Sequence) /\ status = "running"
    /\ at = "verdict" =>
           Len(steps) = Len(Sequence) /\ status = "running" /\ (CapacityCheck => capacity # "none")
    /\ at = "save" /\ Len(steps) < Len(Sequence) => capacity = "none" /\ status = "running"

\* The temporary sibling holds the result that is about to be saved.
FilesInv ==
    /\ at = "save" => staged = [status |-> status, steps |-> steps, capacity |-> capacity]
    /\ at \notin {"preflight", "save", "over"} => disk # Absent

\* Once a probe has come past the gate, the gate was seen to hold.
GateInv ==
    /\ require \/ gate
    /\ at \in Probing => gate
    /\ \A i \in DOMAIN steps : steps[i] = "pass" /\ Sequence[i] \in Linux => gate

\* A verdict that says passed has every answer behind it.
EarnedInv ==
    status = "passed" =>
        /\ Len(steps) = Len(Sequence) /\ \A i \in DOMAIN steps : steps[i] = "pass"
        /\ CapacityCheck => capacity = "pass"

\* No place was lost between the public read and the pairing without a race.
RaceInv == at = "pair" /\ ~raced => MayPair

\* A bond that was lost is not there to be verified, nor its CCCD to be read.
BondInv ==
    /\ at \in {"verify", "subscribe"} /\ lost => ~Knows(Central(Peer))
    /\ at = "readback" /\ lost => Central(Peer) \notin cccd

IInv ==
    /\ TypeOK /\ RunInv /\ FilesInv /\ EvidenceKept
    /\ GateInv /\ EarnedInv /\ PassedEarned /\ RaceInv /\ BondInv

-----------------------------------------------------------------------------
(* Facts about sequences and about the watch.                               *)

\* Appending keeps what was there.
LEMMA AppendIsPrefix ==
    ASSUME NEW S, NEW s \in Seq(S), NEW x \in S
    PROVE  IsPrefix(s, s) /\ IsPrefix(s, Append(s, x))
  BY DEF IsPrefix

\* Taking one element out leaves one less.
LEMMA RemoveAtOne ==
    ASSUME NEW S, NEW s \in Seq(S), NEW i \in DOMAIN s
    PROVE  RemoveAt(s, i) \in Seq(S) /\ Len(RemoveAt(s, i)) = Len(s) - 1
<1> DEFINE a == SubSeq(s, 1, i - 1)
           b == SubSeq(s, i + 1, Len(s))
<1>1. i \in 1..Len(s) /\ Len(s) \in Nat
  OBVIOUS
<1>2. a \in Seq(S) /\ Len(a) = i - 1
  BY <1>1
<1>3. b \in Seq(S) /\ Len(b) = Len(s) - i
  BY <1>1
<1>4. RemoveAt(s, i) = a \o b
  BY DEF RemoveAt
<1> HIDE DEF a, b
<1>5. a \o b \in Seq(S) /\ Len(a \o b) = Len(a) + Len(b)
  BY <1>2, <1>3, ConcatProperties
<1> QED
  BY <1>1, <1>2, <1>3, <1>4, <1>5

\* The plan's peers are known to the watch by a name of its own.
LEMMA PeerTyped ==
    ASSUME TypeOK, RunInv, at \in InStep
    PROVE  Peer \in Peers /\ Central(Peer) \in Centrals
<1>1. Len(steps) + 1 \in 1..Len(Sequence)
  BY PlanAssumption DEF TypeOK, RunInv
<1> QED
  BY <1>1, PlanAssumption DEF Peer, Centrals

\* The watch knows whom it paired with last, has no more bonds than it has room
\* for, and makes no room when it meets a companion it knows.
LEMMA PairsKeeps ==
    ASSUME TypeOK, NEW c \in Centrals, Pairs(c)
    PROVE  /\ retained' \in Seq(Centrals) /\ Len(retained') <= Capacity
           /\ cccd' = cccd \cap ToSet(retained')
           /\ resets' = resets
           /\ Knows(c) => Len(retained') = Len(retained)
<1> USE WatchAssumption DEF TypeOK
<1> DEFINE base == IF Knows(c) THEN RemoveAt(retained, Place(c))
                   ELSE IF Full THEN Tail(retained) ELSE retained
<1>1. base \in Seq(Centrals) /\ Len(base) < Capacity /\ (Knows(c) => Len(base) = Len(retained) - 1)
  <2>1. CASE Knows(c)
    <3>1. Place(c) \in DOMAIN retained
      BY <2>1 DEF Knows, ToSet, Place
    <3> QED
      BY <2>1, <3>1, RemoveAtOne
  <2>2. CASE ~Knows(c) /\ Full
    BY <2>2 DEF Full
  <2>3. CASE ~Knows(c) /\ ~Full
    BY <2>3 DEF Full
  <2> QED
    BY <2>1, <2>2, <2>3
<1>2. retained' = Append(base, c)
  BY DEF Pairs
<1> HIDE DEF base
<1>3. retained' \in Seq(Centrals) /\ Len(retained') = Len(base) + 1
  BY <1>1, <1>2
<1> QED
  BY <1>1, <1>3 DEF Pairs

-----------------------------------------------------------------------------
(* Every step keeps the inductive invariant.                                *)

\* Nothing is recorded and nothing is lost yet.
LEMMA InitIInv == Init => IInv
<1> SUFFICES ASSUME Init PROVE IInv
  OBVIOUS
<1> USE PlanAssumption, WatchAssumption DEF Init
<1>1. retained \in Seq(Centrals) /\ Len(retained) <= Capacity
  BY DEF SeqOf
<1>2. TypeOK
  <2>1. /\ cccd \subseteq ToSet(retained) /\ resets \in 0..MaxResets
        /\ public \in [count : 0..Capacity, epoch : 0..MaxResets]
    OBVIOUS
  <2>2. steps \in Seq(Outcome) /\ Len(steps) <= Len(Sequence)
    OBVIOUS
  <2> QED
    BY <1>1, <2>1, <2>2 DEF TypeOK
<1>3. EvidenceKept
  BY DEF EvidenceKept, InStep, Absent
<1> QED
  BY <1>2, <1>3
  DEF IInv, RunInv, InStep, Probing, FilesInv, GateInv, EarnedInv, PassedEarned, RaceInv, BondInv, Absent

\* Another companion or a forgetful user: the run's own state stays, a bond may go.
LEMMA WatchStep ==
    ASSUME IInv, (\E c \in Phones \cup Others : OtherConnects(c)) \/ ForgetAll
    PROVE  IInv'
<1> USE PlanAssumption, WatchAssumption DEF IInv
<1>1. /\ UNCHANGED <<at, public, require, results, files, gate>>
      /\ lost' = (lost \/ Drops)
      /\ Peer' = Peer
  BY DEF OtherConnects, ForgetAll, results, Peer
<1>2. /\ retained' \in Seq(Centrals) /\ Len(retained') <= Capacity
      /\ cccd' \subseteq cccd \cap ToSet(retained')
      /\ resets' \in 0..MaxResets
      /\ raced' \in BOOLEAN /\ (~raced' => ~raced /\ Len(retained') <= Len(retained))
  <2>1. ASSUME NEW c \in Phones \cup Others, OtherConnects(c) PROVE <1>2
    <3>1. c \in Centrals
      BY <2>1 DEF Centrals, Central, Peers
    <3>2. Pairs(c) /\ raced' = (raced \/ ~Knows(c))
      BY <2>1 DEF OtherConnects
    <3>3. /\ retained' \in Seq(Centrals) /\ Len(retained') <= Capacity
          /\ cccd' = cccd \cap ToSet(retained') /\ resets' = resets
          /\ Knows(c) => Len(retained') = Len(retained)
      BY <3>1, <3>2, PairsKeeps
    <3>4. raced \in BOOLEAN /\ resets \in 0..MaxResets /\ Len(retained) \in Nat
      BY DEF TypeOK
    <3>5. raced' \in BOOLEAN /\ (~raced' => ~raced /\ Knows(c))
      BY <3>2, <3>4
    <3> QED
      BY <3>3, <3>4, <3>5
  <2>2. CASE ForgetAll
    BY <2>2 DEF ForgetAll, TypeOK, history
  <2> QED
    BY <2>1, <2>2
<1>3. TypeOK'
  BY <1>1, <1>2 DEF TypeOK, results, files, Drops, InStep
<1>4. RunInv' /\ FilesInv' /\ EvidenceKept' /\ GateInv' /\ EarnedInv' /\ PassedEarned'
  BY <1>1 DEF results, files, RunInv, FilesInv, EvidenceKept, GateInv, EarnedInv, PassedEarned
<1>5. RaceInv'
  BY <1>1, <1>2 DEF TypeOK, RaceInv, MayPair, Full
<1>6. BondInv'
  <2>1. CASE at \in {"verify", "subscribe"}
    <3>1. retained' = <<>>
      BY <2>1 DEF OtherConnects, ForgetAll
    <3> QED
      BY <1>1, <2>1, <3>1 DEF BondInv, Knows, ToSet
  <2>2. CASE at = "readback"
    <3>1. Central(Peer)' = Central(Peer)
      BY <1>1 DEF Central
    <3> QED
      BY <1>1, <1>2, <2>2, <3>1 DEF BondInv, Drops, TypeOK
  <2>3. CASE at \notin {"verify", "subscribe", "readback"}
    BY <1>1, <2>3 DEF BondInv
  <2> QED
    BY <2>1, <2>2, <2>3
<1> QED
  BY <1>3, <1>4, <1>5, <1>6

\* The probe's own steps, up to the readback.
LEMMA ProbeStep ==
    ASSUME IInv, ReadPublic \/ Pair \/ Verify \/ Subscribe
    PROVE  IInv'
<1> USE PlanAssumption, WatchAssumption DEF IInv
<1>1. /\ UNCHANGED <<require, results, files>>
      /\ at \in InStep \ {"readback"} /\ at' \in Probing
      /\ Peer' = Peer /\ Peer \in Linux
      /\ gate' \in BOOLEAN /\ gate' /\ (gate => gate')
  BY DEF ReadPublic, Pair, Verify, Subscribe, results, history, Peer, InStep, Probing,
         RunInv, GateInv, GateHolds, TypeOK
<1>2. Central(Peer)' = Central(Peer) /\ Central(Peer) \in Centrals
  BY <1>1, PeerTyped DEF Central
<1>3. TypeOK'
  <2>1. CASE ReadPublic
    <3>1. public' \in [count : 0..Capacity, epoch : 0..MaxResets]
      BY <2>1 DEF ReadPublic, TypeOK
    <3> QED
      BY <1>1, <2>1, <3>1 DEF ReadPublic, TypeOK, watch, results, files
  <2>2. CASE Pair
    BY <1>1, <1>2, <2>2, PairsKeeps DEF Pair, TypeOK, results, files
  <2>3. CASE Verify
    BY <1>1, <2>3 DEF Verify, TypeOK, watch, results, files, history
  <2>4. CASE Subscribe
    BY <1>1, <2>4 DEF Subscribe, TypeOK, results, files, history
  <2> QED
    BY <2>1, <2>2, <2>3, <2>4
<1>4. RunInv' /\ FilesInv' /\ EvidenceKept' /\ GateInv' /\ EarnedInv' /\ PassedEarned'
  BY <1>1 DEF results, files, InStep, Probing, RunInv, FilesInv, EvidenceKept, GateInv, EarnedInv, PassedEarned
<1>5. RaceInv'
  BY <1>1 DEF RaceInv, ReadPublic, Pair, Verify, Subscribe, MayPair, Full, watch
<1>6. BondInv'
  <2>1. CASE ReadPublic \/ Pair
    BY <2>1 DEF ReadPublic, Pair, BondInv
  <2>2. CASE Verify
    BY <1>1, <1>2, <2>2 DEF Verify, BondInv, Knows, watch, history
  <2>3. CASE Subscribe
    BY <1>1, <1>2, <2>3 DEF Subscribe, BondInv, Knows, history, TypeOK
  <2> QED
    BY <2>1, <2>2, <2>3
<1> QED
  BY <1>3, <1>4, <1>5, <1>6

\* A checkpoint is begun: what it says has to continue what is on the disk.
LEMMA StageStep ==
    ASSUME IInv, NEW state, NEW done, NEW answer, Stage(state, done, answer),
           UNCHANGED <<watch, public, history>>, require' \in BOOLEAN, require' \/ gate,
           state \in {"running", "passed", "failed", "incomplete"},
           done \in Seq(Outcome), Len(done) <= Len(Sequence), answer \in Outcome \cup {"none"},
           Len(done) < Len(Sequence) => answer = "none" /\ state = "running",
           IsPrefix(disk.steps, done), Len(done) <= Len(disk.steps) + 1,
           disk = Absent => done = <<>>,
           \A i \in DOMAIN done : done[i] = "pass" /\ Sequence[i] \in Linux => gate,
           state = "passed" =>
               /\ Len(done) = Len(Sequence) /\ \A i \in DOMAIN done : done[i] = "pass"
               /\ CapacityCheck => answer = "pass"
    PROVE  IInv'
<1> USE DEF IInv, Stage, watch, history
<1>1. staged' \in Result
  BY DEF Result
<1>2. TypeOK'
  BY <1>1 DEF TypeOK
<1>3. RunInv' /\ FilesInv' /\ EvidenceKept'
  BY DEF RunInv, InStep, Probing, FilesInv, EvidenceKept
<1>4. GateInv' /\ EarnedInv' /\ PassedEarned'
  BY DEF GateInv, Probing, EarnedInv, PassedEarned
<1>5. RaceInv' /\ BondInv'
  BY DEF RaceInv, BondInv
<1> QED
  BY <1>2, <1>3, <1>4, <1>5

\* A step's outcome is added and checkpointed.
LEMMA RecordStep ==
    ASSUME IInv, NEW outcome \in Outcome, Record(outcome), at \in InStep,
           UNCHANGED <<watch, public, history>>, require' \in BOOLEAN, require' \/ gate,
           outcome = "pass" /\ Peer \in Linux => gate
    PROVE  IInv'
<1> DEFINE done == Append(steps, outcome)
<1> USE PlanAssumption DEF IInv
<1>1. /\ Stage("running", done, capacity)
      /\ capacity = "none"
      /\ Len(steps) < Len(Sequence) /\ steps \in Seq(Outcome)
      /\ disk # Absent /\ disk.steps = steps
  BY DEF Record, RunInv, FilesInv, EvidenceKept, InStep, TypeOK
<1>2. done \in Seq(Outcome) /\ Len(done) <= Len(Sequence) /\ Len(done) <= Len(disk.steps) + 1
  BY <1>1
<1>3. IsPrefix(disk.steps, done)
  BY <1>1, AppendIsPrefix
<1>4. ASSUME NEW i \in DOMAIN done, done[i] = "pass", Sequence[i] \in Linux PROVE gate
  <2>1. CASE i = Len(steps) + 1
    BY <1>1, <1>4, <2>1 DEF Peer
  <2>2. CASE i # Len(steps) + 1
    <3>1. i \in DOMAIN steps /\ done[i] = steps[i]
      BY <1>1, <1>4, <2>2
    <3> QED
      BY <1>4, <3>1 DEF GateInv
  <2> QED
    BY <2>1, <2>2
<1> HIDE DEF done
<1> QED
  BY <1>1, <1>2, <1>3, <1>4, StageStep

\* Every way a step of the plan ends.
LEMMA StepEnds ==
    ASSUME IInv, ProbeFails \/ Readback \/ \E outcome \in Outcome : PhoneStep(outcome)
    PROVE  IInv'
<1> USE DEF IInv
<1>1. require \in BOOLEAN /\ (require \/ gate)
  BY DEF TypeOK, GateInv
<1>2. CASE ProbeFails
  <2>1. "fail" \in Outcome /\ Record("fail") /\ at \in InStep
    BY <1>2 DEF ProbeFails, Outcome
  <2> QED
    BY <1>1, <1>2, <2>1, RecordStep DEF ProbeFails
<1>3. CASE Readback
  <2>1. "pass" \in Outcome /\ Record("pass") /\ at \in InStep /\ gate
    BY <1>3 DEF Readback, Outcome, InStep, Probing, GateInv
  <2> QED
    BY <1>3, <2>1, RecordStep DEF Readback
<1>4. ASSUME NEW outcome \in Outcome, PhoneStep(outcome) PROVE IInv'
  <2>1. Record(outcome) /\ at \in InStep /\ Peer \notin Linux
    BY <1>4, PlanAssumption DEF PhoneStep, InStep
  <2> QED
    BY <1>1, <1>4, <2>1, RecordStep DEF PhoneStep
<1> QED
  BY <1>2, <1>3, <1>4

\* The first checkpoint, the operator's answer and the verdict.
LEMMA VerdictStep ==
    ASSUME IInv, Preflight \/ Decide \/ \E outcome \in Outcome : CheckCapacity(outcome)
    PROVE  IInv'
<1> USE PlanAssumption, WatchAssumption DEF IInv
<1>1. require \in BOOLEAN /\ (require \/ gate)
  BY DEF TypeOK, GateInv
<1>2. CASE Preflight
  <2>1. /\ Stage("running", <<>>, "none") /\ UNCHANGED <<watch, public, require, history>>
        /\ disk = Absent
    BY <1>2 DEF Preflight, RunInv
  <2>2. IsPrefix(disk.steps, <<>>) /\ Len(<<>>) <= Len(disk.steps) + 1
    BY <2>1, AppendIsPrefix DEF Absent, IsPrefix
  <2>3. <<>> \in Seq(Outcome) /\ Len(<<>>) <= Len(Sequence) /\ DOMAIN <<>> = {}
    OBVIOUS
  <2> QED
    BY <1>1, <2>1, <2>2, <2>3, StageStep
<1>3. ASSUME at \in {"capacity", "verdict"}
      PROVE  /\ Len(steps) = Len(Sequence) /\ steps \in Seq(Outcome)
             /\ IsPrefix(disk.steps, steps) /\ Len(steps) <= Len(disk.steps) + 1
             /\ disk # Absent
             /\ \A i \in DOMAIN steps : steps[i] = "pass" /\ Sequence[i] \in Linux => gate
  BY <1>3, AppendIsPrefix DEF RunInv, FilesInv, EvidenceKept, GateInv, TypeOK, IsPrefix
<1>4. ASSUME NEW outcome \in Outcome, CheckCapacity(outcome) PROVE IInv'
  <2>1. /\ at = "capacity" /\ Stage("running", steps, outcome)
        /\ UNCHANGED <<watch, public, require, history>>
    BY <1>4 DEF CheckCapacity
  <2> QED
    BY <1>1, <1>3, <2>1, StageStep
<1>5. CASE Decide
  <2>1. /\ at = "verdict" /\ Stage(Overall, steps, capacity)
        /\ UNCHANGED <<watch, public, require, history>>
    BY <1>5 DEF Decide
  <2>2. Overall \in {"passed", "failed", "incomplete"}
    BY DEF Overall
  <2>3. capacity \in Outcome \cup {"none"} /\ (CapacityCheck => capacity # "none")
    BY <2>1 DEF TypeOK, RunInv
  <2>4. ASSUME Overall = "passed"
        PROVE  (\A i \in DOMAIN steps : steps[i] = "pass") /\ (CapacityCheck => capacity = "pass")
    <3>1. "fail" \notin Answers /\ "skip" \notin Answers
      BY <2>4 DEF Overall
    <3>2. \A i \in DOMAIN steps : steps[i] \in Outcome /\ steps[i] \in Answers
      BY DEF Answers, ToSet, TypeOK
    <3>3. CapacityCheck => capacity \in Outcome /\ capacity \in Answers
      BY <2>3 DEF Answers
    <3> QED
      BY <3>1, <3>2, <3>3 DEF Outcome
  <2> QED
    BY <1>1, <1>3, <2>1, <2>2, <2>3, <2>4, StageStep
<1> QED
  BY <1>2, <1>4, <1>5

\* The result replaces the one on disk, or cannot, or the run is cut off.
LEMMA SaveStep ==
    ASSUME IInv, Save \/ Aborted
    PROVE  IInv'
<1> USE PlanAssumption DEF IInv
<1>1. /\ UNCHANGED <<watch, public, require, results, staged, history>>
      /\ at' = "over" \/ (at = "save" /\ at' = Resume)
      /\ disk' = disk \/ (at = "save" /\ disk' = staged)
      /\ at' # "over" => disk' = staged
      /\ Peer' = Peer
  <2>1. /\ UNCHANGED <<watch, public, require, results, staged, history>>
        /\ at' = "over" \/ (at = "save" /\ at' = Resume)
        /\ disk' = disk \/ (at = "save" /\ disk' = staged)
        /\ at' # "over" => disk' = staged
    BY DEF Save, Aborted, files
  <2> QED
    BY <2>1 DEF results, Peer
<1>2. at' \in {"over", "step", "capacity", "verdict"}
  BY <1>1 DEF Resume
<1>3. TypeOK'
  BY <1>1, <1>2 DEF TypeOK, watch, results, history
<1>4. RunInv'
  <2>1. CASE at' = "over"
    BY <2>1 DEF RunInv, InStep, Probing
  <2>2. CASE at' # "over"
    BY <1>1, <1>2, <2>2 DEF Resume, RunInv, InStep, Probing, TypeOK, results
  <2> QED
    BY <2>1, <2>2
<1>5. FilesInv' /\ EvidenceKept'
  <2>1. steps \in Seq(Outcome) /\ IsPrefix(steps, steps)
    BY AppendIsPrefix DEF TypeOK, Outcome
  <2>2. CASE at = "save" /\ disk' = staged
    BY <1>1, <1>2, <2>1, <2>2 DEF FilesInv, EvidenceKept, InStep, results, Absent, TypeOK
  <2>3. CASE disk' = disk /\ at' = "over"
    BY <1>1, <2>3 DEF FilesInv, EvidenceKept, InStep, results
  <2> QED
    BY <1>1, <2>2, <2>3
<1>6. GateInv' /\ EarnedInv' /\ RaceInv' /\ BondInv'
  BY <1>1, <1>2 DEF GateInv, EarnedInv, RaceInv, BondInv, Probing, results, history
<1>7. PassedEarned'
  <2>1. CASE disk' = disk
    BY <1>1, <2>1 DEF PassedEarned, history
  <2>2. CASE at = "save" /\ disk' = staged
    <3>1. SUFFICES ASSUME status = "passed"
                   PROVE  /\ Len(steps) = Len(Sequence) /\ ToSet(steps) = {"pass"}
                          /\ CapacityCheck => capacity = "pass"
                          /\ ToSet(Sequence) \cap Linux # {} => gate
      BY <1>1, <2>2 DEF FilesInv, PassedEarned, history
    <3>2. Len(steps) = Len(Sequence) /\ Len(Sequence) >= 3 /\ steps \in Seq(Outcome)
          /\ DOMAIN steps = DOMAIN Sequence
      BY <3>1 DEF EarnedInv, TypeOK
    <3>3. \A i \in DOMAIN steps : steps[i] = "pass"
      BY <3>1 DEF EarnedInv
    <3>4. 1 \in DOMAIN steps
      BY <3>2
    <3>5. ToSet(steps) = {"pass"}
      BY <3>3, <3>4 DEF ToSet
    <3>6. ASSUME NEW p \in ToSet(Sequence) \cap Linux PROVE gate
      BY <3>2, <3>3, <3>6 DEF ToSet, GateInv
    <3> QED
      BY <3>1, <3>2, <3>5, <3>6 DEF EarnedInv
  <2> QED
    BY <1>1, <2>1, <2>2
<1> QED
  BY <1>3, <1>4, <1>5, <1>6, <1>7

\* Every step of the run and of the watch.
LEMMA NextIInv ==
    ASSUME IInv, Next
    PROVE  IInv'
<1>1. CASE Run
  BY <1>1, ProbeStep, StepEnds, VerdictStep, SaveStep DEF Run
<1>2. CASE ~Run
  BY <1>2, WatchStep DEF Next
<1> QED
  BY <1>1, <1>2

\* A central is only evicted without consent behind the back of the probe.
LEMMA EvictionStep ==
    ASSUME IInv, UnaskedEviction
    PROVE  raced
  BY DEF IInv, RaceInv, UnaskedEviction, MayPair

\* A probe only passes on the bond it has made.
LEMMA BondStep ==
    ASSUME IInv, Next, at = "readback", steps' = Append(steps, "pass")
    PROVE  ~lost
<1> USE DEF IInv
<1>1. steps \in Seq(Outcome) /\ Append(steps, "pass") # steps
  <2>1. steps \in Seq(Outcome) /\ "pass" \in Outcome
    BY DEF TypeOK, Outcome
  <2>2. Len(Append(steps, "pass")) = Len(steps) + 1
    BY <2>1
  <2> QED
    BY <2>1, <2>2
<1>2. Append(steps, "fail")[Len(steps) + 1] = "fail" /\ Append(steps, "pass")[Len(steps) + 1] = "pass"
  BY <1>1
<1>3. Readback
  <2>1. steps' # steps /\ steps' # Append(steps, "fail")
    BY <1>1, <1>2
  <2> QED
    BY <2>1 DEF Next, Run, Preflight, Save, ReadPublic, Pair, Verify, Subscribe, ProbeFails, Record,
       Stage, PhoneStep, CheckCapacity, Decide, Aborted, OtherConnects, ForgetAll, results
<1> QED
  BY <1>3 DEF Readback, BondInv

-----------------------------------------------------------------------------
(* The observations.                                                         *)

\* An observation that is under way has not failed, and has its samples on disk.
UnderwayInv ==
    /\ at \in {"new", "opening", "window", "closing"} => status = "running"
    /\ at \in {"opening", "window", "closing"} => disk.samples = samples
    /\ at = "new" => samples = <<>> /\ readings = 0

\* A soak has read its batteries twice before it scans, the other command never.
ReadingsInv ==
    /\ readings <= Observed!Readings
    /\ at = "opening" => command = "soak" /\ readings <= 1
    /\ at = "window" => Len(samples) < MaxWindows
    /\ at = "closing" => samples # <<>>
    /\ at \in {"window", "closing"} /\ command = "soak" => readings # 0

\* The temporary sibling holds the report that is about to be saved.
StagedInv ==
    at = "save" => staged = [status |-> status, readings |-> readings, samples |-> samples]

\* A verdict that says passed has every window and reading behind it.
VerdictInv ==
    status = "passed" =>
        /\ readings = Observed!Readings /\ samples # <<>>
        /\ \A i \in DOMAIN samples : samples[i] = Observed!Watches

\* Until the run is over the disk holds no verdict, and the except clause has one.
NoVerdictInv ==
    /\ at # "over" => disk.status \in {"absent", "running"}
    /\ handled => status = "failed"
    /\ at = "new" => disk = Observed!Absent

\* A save outside the try block is one of three kinds, and only the except clause's
\* can carry a sample that is not on the disk yet.
UncoveredInv ==
    at = "save" /\ ~Observed!Protected =>
        Observed!Uncovered /\ (~handled => disk.samples = samples)

ObservationInv ==
    /\ Observed!TypeOK /\ UnderwayInv /\ ReadingsInv /\ StagedInv /\ VerdictInv
    /\ NoVerdictInv /\ UncoveredInv
    /\ Observed!EvidenceKept /\ Observed!PassedEarned /\ Observed!FailureRecorded

HardwareInv == IF Accepts THEN IInv ELSE ObservationInv

-----------------------------------------------------------------------------
(* Every step of an observation keeps its invariant.                        *)

LEMMA SamePrefix ==
    ASSUME NEW s, NEW t
    PROVE  Observed!IsPrefix(s, t) <=> IsPrefix(s, t)
  BY DEF Observed!IsPrefix, IsPrefix

LEMMA ObservationInit == Observed!Init => ObservationInv
<1> SUFFICES ASSUME Observed!Init PROVE ObservationInv
  OBVIOUS
<1> USE WindowsAssumption DEF Observed!Init, Observed!Absent
<1>1. samples \in Seq(SUBSET Observed!Watches) /\ Len(samples) = 0
  OBVIOUS
<1>2. Observed!TypeOK
  <2>1. /\ command \in {"soak", "advertise"} /\ at = "new" /\ status = "running"
        /\ staged = Observed!Absent /\ disk = Observed!Absent
    OBVIOUS
  <2>3. readings \in 0..4
    OBVIOUS
  <2>4. handled \in BOOLEAN /\ cut \in BOOLEAN
    OBVIOUS
  <2>2. Len(samples) <= MaxWindows
    BY <1>1
  <2> QED
    BY <1>1, <2>1, <2>2, <2>3, <2>4 DEF Observed!TypeOK
<1>3. Observed!EvidenceKept
  <2>1. disk.samples = samples /\ Len(samples) = 0
    BY <1>1
  <2>2. IsPrefix(samples, samples)
    BY <1>1 DEF IsPrefix
  <2> QED
    BY <2>1, <2>2, SamePrefix DEF Observed!EvidenceKept
<1> QED
  BY <1>1, <1>2, <1>3
  DEF ObservationInv, UnderwayInv, ReadingsInv, StagedInv, VerdictInv, NoVerdictInv, UncoveredInv,
      Observed!Readings, Observed!PassedEarned, Observed!FailureRecorded

\* A checkpoint is begun, with what was read or scanned since the last one.
LEMMA ObservationStage ==
    ASSUME ObservationInv, Observed!Stage, UNCHANGED <<command, cut>>, handled' \in BOOLEAN,
           at # "over",
           status' \in {"running", "passed", "failed"},
           readings' \in 0..4, readings' <= Observed!Readings,
           samples' \in Seq(SUBSET Observed!Watches), Len(samples') <= MaxWindows,
           IsPrefix(disk.samples, samples'), Len(samples') <= Len(disk.samples) + 1,
           handled' => status' = "failed", UncoveredInv', VerdictInv'
    PROVE  ObservationInv'
<1> USE DEF ObservationInv, Observed!Stage
<1>1. staged' = [status |-> status', readings |-> readings', samples |-> samples']
      /\ at' = "save" /\ disk' = disk
      /\ Observed!Watches' = Observed!Watches /\ Observed!Readings' = Observed!Readings
      /\ Observed!Report' = Observed!Report
  BY DEF Observed!Watches, Observed!Readings, Observed!Report
<1>2. staged' \in Observed!Report
  BY <1>1 DEF Observed!Report
<1>3. Observed!TypeOK'
  BY <1>1, <1>2 DEF Observed!TypeOK
<1>4. UnderwayInv' /\ ReadingsInv' /\ StagedInv' /\ NoVerdictInv'
  BY <1>1 DEF UnderwayInv, ReadingsInv, StagedInv, NoVerdictInv
<1>5. Observed!EvidenceKept' /\ Observed!PassedEarned' /\ Observed!FailureRecorded'
  BY <1>1, SamePrefix DEF Observed!EvidenceKept, Observed!PassedEarned, Observed!FailureRecorded
<1> QED
  BY <1>3, <1>4, <1>5

\* What a checkpoint begun now has to continue.
LEMMA ObservationFacts ==
    ASSUME ObservationInv
    PROVE  /\ samples \in Seq(SUBSET Observed!Watches) /\ Len(samples) <= MaxWindows
           /\ readings \in 0..4 /\ readings <= Observed!Readings
           /\ Observed!Readings = (IF command = "soak" THEN 4 ELSE 0)
           /\ handled \in BOOLEAN /\ status \in {"running", "passed", "failed"}
           /\ IsPrefix(disk.samples, samples) /\ Len(samples) <= Len(disk.samples) + 1
           /\ handled => status = "failed"
  BY SamePrefix
  DEF ObservationInv, Observed!TypeOK, ReadingsInv, Observed!EvidenceKept, Observed!Readings, NoVerdictInv

\* The first checkpoint, the readings, the windows, the verdict and the except
\* clause each end in a checkpoint, or in another reading.
LEMMA ObservationWorks ==
    ASSUME ObservationInv,
           \/ Observed!Begin \/ Observed!OpeningReading \/ Observed!ClosingReading
           \/ \E visible \in SUBSET Observed!Watches : Observed!Window(visible)
           \/ Observed!Conclude \/ Observed!Handle
    PROVE  ObservationInv'
<1> USE ObservationFacts, WindowsAssumption DEF ObservationInv
<1>1. CASE Observed!Begin
  <2>1. /\ Observed!Stage /\ UNCHANGED <<command, readings, samples, status, handled, cut>>
        /\ at # "over" /\ status = "running"
        /\ disk = Observed!Absent /\ samples = <<>>
    BY <1>1 DEF Observed!Begin, UnderwayInv, NoVerdictInv
  <2>2. VerdictInv'
    BY <2>1 DEF VerdictInv
  <2>3. UncoveredInv'
    BY <2>1 DEF UncoveredInv, Observed!Stage, Observed!Uncovered, Observed!Absent
  <2> QED
    BY <2>1, <2>2, <2>3, ObservationStage
<1>2. CASE Observed!OpeningReading
  <2>1. /\ at = "opening" /\ command = "soak" /\ readings <= 1 /\ status = "running"
        /\ UNCHANGED <<command, samples, status, handled, cut>>
        /\ readings' = readings + 1
    BY <1>2 DEF Observed!OpeningReading, ReadingsInv, UnderwayInv
  <2>2. VerdictInv'
    BY <2>1 DEF VerdictInv
  <2>3. CASE Observed!Stage
    <3>1. UncoveredInv'
      BY <2>1, <2>3 DEF UncoveredInv, Observed!Stage, Observed!Protected, Observed!Uncovered
    <3> QED
      BY <2>1, <2>2, <2>3, <3>1, ObservationStage
  <2>4. CASE readings' = 1 /\ UNCHANGED <<at, staged, disk>>
    <3>1. Observed!TypeOK'
      BY <2>1, <2>4 DEF Observed!TypeOK, Observed!Report, Observed!Watches
    <3>2. UnderwayInv' /\ ReadingsInv' /\ StagedInv' /\ NoVerdictInv' /\ UncoveredInv'
      BY <2>1, <2>4
      DEF UnderwayInv, ReadingsInv, StagedInv, NoVerdictInv, UncoveredInv, Observed!Readings
    <3>3. Observed!EvidenceKept' /\ Observed!PassedEarned' /\ Observed!FailureRecorded'
      BY <2>1, <2>4, SamePrefix
      DEF Observed!EvidenceKept, Observed!PassedEarned, Observed!FailureRecorded,
          Observed!Readings, Observed!Watches
    <3> QED
      BY <2>2, <3>1, <3>2, <3>3
  <2> QED
    BY <1>2, <2>3, <2>4 DEF Observed!OpeningReading
<1>3. CASE Observed!ClosingReading
  <2>1. /\ at = "closing" /\ readings < Observed!Readings /\ status = "running"
        /\ UNCHANGED <<command, at, samples, status, handled, staged, disk, cut>>
        /\ readings' = readings + 1
    BY <1>3 DEF Observed!ClosingReading, UnderwayInv
  <2>2. VerdictInv'
    BY <2>1 DEF VerdictInv
  <2>3. Observed!TypeOK'
    BY <2>1 DEF Observed!TypeOK, Observed!Report, Observed!Watches
  <2>4. UnderwayInv' /\ ReadingsInv' /\ StagedInv' /\ NoVerdictInv' /\ UncoveredInv'
    BY <2>1 DEF UnderwayInv, ReadingsInv, StagedInv, NoVerdictInv, UncoveredInv, Observed!Readings
  <2>5. Observed!EvidenceKept' /\ Observed!PassedEarned' /\ Observed!FailureRecorded'
    BY <2>1, SamePrefix
    DEF Observed!EvidenceKept, Observed!PassedEarned, Observed!FailureRecorded,
        Observed!Readings, Observed!Watches
  <2> QED
    BY <2>2, <2>3, <2>4, <2>5
<1>4. ASSUME NEW visible \in SUBSET Observed!Watches, Observed!Window(visible)
      PROVE  ObservationInv'
  <2>1. /\ Observed!Stage /\ UNCHANGED <<command, readings, status, handled, cut>>
        /\ samples' = Append(samples, visible)
        /\ at # "over" /\ status = "running" /\ Len(samples) < MaxWindows
        /\ disk.samples = samples /\ (command = "soak" => readings # 0)
    BY <1>4 DEF Observed!Window, UnderwayInv, ReadingsInv
  <2>2. /\ samples' \in Seq(SUBSET Observed!Watches) /\ Len(samples') = Len(samples) + 1
        /\ IsPrefix(disk.samples, samples')
    BY <2>1, AppendIsPrefix
  <2>3. VerdictInv'
    BY <2>1 DEF VerdictInv
  <2>5. samples' # <<>> /\ (~Observed!Protected' => handled')
    BY <2>1, <2>2 DEF Observed!Protected
  <2>4. UncoveredInv'
    BY <2>5 DEF UncoveredInv, Observed!Uncovered
  <2> QED
    BY <2>1, <2>2, <2>3, <2>4, ObservationStage
<1>5. CASE Observed!Conclude
  <2>1. /\ Observed!Stage /\ UNCHANGED <<command, readings, samples, handled, cut>>
        /\ at = "closing" /\ readings = Observed!Readings /\ samples # <<>>
        /\ status' = Observed!Verdict
        /\ status = "running" /\ disk.samples = samples
    BY <1>5 DEF Observed!Conclude, ReadingsInv, UnderwayInv
  <2>2. status' \in {"passed", "failed"}
    BY <2>1 DEF Observed!Verdict
  <2>3. VerdictInv'
    BY <2>1 DEF VerdictInv, Observed!Verdict, Observed!Readings, Observed!Watches
  <2>4. command \in {"soak", "advertise"}
    BY DEF Observed!TypeOK
  <2>5. UncoveredInv'
    BY <2>1, <2>2, <2>4
    DEF UncoveredInv, Observed!Stage, Observed!Protected, Observed!Uncovered, Observed!Readings
  <2> QED
    BY <2>1, <2>2, <2>3, <2>5, ObservationStage
<1>6. CASE Observed!Handle
  <2>1. /\ Observed!Stage /\ UNCHANGED <<command, readings, samples, cut>>
        /\ at # "over" /\ status' = "failed" /\ handled' = TRUE
    BY <1>6 DEF Observed!Handle
  <2>2. VerdictInv'
    BY <2>1 DEF VerdictInv
  <2>3. UncoveredInv'
    BY <2>1 DEF UncoveredInv, Observed!Uncovered
  <2> QED
    BY <2>1, <2>2, <2>3, ObservationStage
<1> QED
  BY <1>1, <1>2, <1>3, <1>4, <1>5, <1>6

\* A checkpoint is done or fails, a radio operation fails, the run is cancelled.
LEMMA ObservationSaves ==
    ASSUME ObservationInv,
           Observed!Save \/ Observed!SaveFails \/ Observed!Fails \/ Observed!Cancelled
    PROVE  ObservationInv'
<1> USE DEF ObservationInv
<1>1. /\ UNCHANGED <<command, readings, samples, status, handled, staged>>
      /\ Observed!Watches' = Observed!Watches /\ Observed!Readings' = Observed!Readings
      /\ Observed!Report' = Observed!Report
  BY DEF Observed!Save, Observed!SaveFails, Observed!Fails, Observed!Cancelled, Observed!Watches,
         Observed!Readings, Observed!Report
<1>2. VerdictInv'
  BY <1>1 DEF VerdictInv
<1>3. CASE Observed!Save
  <2>1. at = "save" /\ disk' = staged /\ at' \in Observed!Resume /\ cut' = cut
    BY <1>3 DEF Observed!Save
  <2>2. /\ disk'.status = status /\ disk'.readings = readings /\ disk'.samples = samples
        /\ disk' \in Observed!Report \cup {Observed!Absent}
    BY <2>1 DEF StagedInv, Observed!TypeOK
  <2>3. /\ at' \in {"over", "opening", "window", "closing"}
        /\ at' = "over" => status # "running"
        /\ at' # "over" => status = "running"
        /\ at' = "opening" => command = "soak" /\ readings = 0
        /\ at' = "window" => Len(samples) < MaxWindows
        /\ at' = "closing" => samples # <<>>
        /\ at' \in {"window", "closing"} /\ command = "soak" => readings # 0
    BY <2>1 DEF Observed!Resume
  <2>4. Observed!TypeOK'
    BY <1>1, <2>1, <2>2, <2>3 DEF Observed!TypeOK
  <2>5. UnderwayInv' /\ ReadingsInv' /\ StagedInv' /\ NoVerdictInv' /\ UncoveredInv'
    BY <1>1, <2>2, <2>3 DEF UnderwayInv, ReadingsInv, StagedInv, NoVerdictInv, UncoveredInv
  <2>6. samples \in Seq(SUBSET Observed!Watches) /\ IsPrefix(samples, samples)
    BY DEF Observed!TypeOK, IsPrefix
  <2>7. Observed!EvidenceKept' /\ Observed!FailureRecorded'
    BY <1>1, <2>2, <2>3, <2>6, SamePrefix DEF Observed!EvidenceKept, Observed!FailureRecorded
  <2>8. Observed!PassedEarned'
    BY <1>1, <2>2 DEF Observed!PassedEarned, VerdictInv
  <2> QED
    BY <1>2, <2>4, <2>5, <2>7, <2>8
<1>4. CASE Observed!SaveFails \/ Observed!Fails \/ Observed!Cancelled
  <2>1. /\ disk' = disk /\ at' \in {"handler", "over"} /\ cut' \in BOOLEAN /\ at # "over"
        /\ at' = "over" => cut' \/ (at = "save" /\ ~Observed!Protected)
    BY <1>4 DEF Observed!SaveFails, Observed!Fails, Observed!Cancelled, Observed!TypeOK
  <2>2. Observed!TypeOK'
    BY <1>1, <2>1 DEF Observed!TypeOK
  <2>3. UnderwayInv' /\ ReadingsInv' /\ StagedInv' /\ NoVerdictInv' /\ UncoveredInv'
    BY <1>1, <2>1 DEF UnderwayInv, ReadingsInv, StagedInv, NoVerdictInv, UncoveredInv
  <2>5. ASSUME at = "save" /\ ~Observed!Protected PROVE Observed!FailureRecorded'
    <3>1. /\ Observed!Uncovered /\ (~handled => disk.samples = samples)
          /\ staged.status = status /\ disk.status \in {"absent", "running"}
          /\ handled => status = "failed"
      BY <2>1, <2>5 DEF UncoveredInv, StagedInv, NoVerdictInv
    <3>2. status # disk.status
      BY <3>1 DEF Observed!Uncovered, Observed!Absent, Observed!TypeOK
    <3>3. staged # disk
      BY <3>1, <3>2
    <3>4. Observed!Uncovered'
      BY <1>1, <2>1, <3>1 DEF Observed!Uncovered, Observed!Absent
    <3> QED
      BY <1>1, <2>1, <3>1, <3>3, <3>4 DEF Observed!FailureRecorded
  <2>6. ASSUME ~(at = "save" /\ ~Observed!Protected) PROVE Observed!FailureRecorded'
    BY <2>1, <2>6 DEF Observed!FailureRecorded
  <2>4. Observed!EvidenceKept' /\ Observed!FailureRecorded' /\ Observed!PassedEarned'
    BY <1>1, <2>1, <2>5, <2>6, SamePrefix DEF Observed!EvidenceKept, Observed!PassedEarned
  <2> QED
    BY <1>2, <2>2, <2>3, <2>4
<1> QED
  BY <1>3, <1>4

-----------------------------------------------------------------------------
(* Theorems.                                                                *)

LEMMA HardwareInitInv == HardwareInit => HardwareInv
<1>1. CASE Accepts /\ Init
  BY <1>1, InitIInv DEF HardwareInv
<1>2. CASE Observed!Init
  BY <1>2, ObservationInit DEF HardwareInv, Accepts, Observed!Init
<1> QED
  BY <1>1, <1>2 DEF HardwareInit

LEMMA HardwareStep == HardwareInv /\ [HardwareNext]_hardwareVars => HardwareInv'
<1> SUFFICES ASSUME HardwareInv, [HardwareNext]_hardwareVars PROVE HardwareInv'
  OBVIOUS
<1>1. CASE Accept
  <2>1. IInv /\ Next /\ Accepts' /\ Accepts
    BY <1>1 DEF Accept, Accepts, HardwareInv
  <2> QED
    BY <2>1, NextIInv DEF HardwareInv
<1>2. CASE Observe
  <2>1. ObservationInv /\ Observed!Next /\ ~Accepts
    BY <1>2 DEF Observe, HardwareInv
  <2>2. ObservationInv'
    BY <2>1, ObservationWorks, ObservationSaves DEF Observed!Next
  <2>3. ~Accepts'
    BY <2>2 DEF ObservationInv, Observed!TypeOK, Accepts
  <2> QED
    BY <2>2, <2>3 DEF HardwareInv
<1>3. CASE UNCHANGED hardwareVars
  <2>1. CASE Accepts
    BY <1>3, <2>1
    DEF hardwareVars, vars, watch, results, files, history, HardwareInv, Accepts, IInv, TypeOK, RunInv,
        FilesInv, EvidenceKept, GateInv, EarnedInv, PassedEarned, RaceInv, BondInv, InStep, Peer,
        MayPair, Full, Knows, Central
  <2>2. CASE ~Accepts
    BY <1>3, <2>2
    DEF hardwareVars, vars, results, files, observation, HardwareInv, Accepts, ObservationInv, Observed!TypeOK,
        UnderwayInv, ReadingsInv, StagedInv, VerdictInv, NoVerdictInv, UncoveredInv, Observed!Protected,
        Observed!Uncovered, Observed!Absent, Observed!EvidenceKept, Observed!PassedEarned, Observed!FailureRecorded, Observed!Report, Observed!Watches, Observed!Readings
  <2> QED
    BY <2>1, <2>2
<1> QED
  BY <1>1, <1>2, <1>3 DEF HardwareNext

THEOREM HardwareInvariant == HardwareSpec => []HardwareInv
  BY HardwareInitInv, HardwareStep, PTL DEF HardwareSpec

\* Whatever the command, its state is well typed; the watch never retains more
\* companions than it has room for.
THEOREM HardwareTyped == HardwareSpec => []HardwareTypeOK
<1>1. HardwareInv => HardwareTypeOK
  BY DEF HardwareInv, HardwareTypeOK, IInv, ObservationInv
<1> QED
  BY <1>1, HardwareInvariant, PTL

\* run_acceptance_plan: while a peer is tried, every earlier step can be read from
\* the disk, and a crash at any point, in the middle of saving too, loses at most the last.
THEOREM StepsStayOnDisk == HardwareSpec => []AcceptanceEvidence
<1>1. HardwareInv => AcceptanceEvidence
  BY DEF HardwareInv, AcceptanceEvidence, IInv
<1> QED
  BY <1>1, HardwareInvariant, PTL

\* run_soak, observe_advertising: before a window is scanned or the last battery
\* read, the samples of all earlier windows can be read from the disk.
THEOREM SamplesStayOnDisk == HardwareSpec => []ObservationEvidence
<1>1. HardwareInv => ObservationEvidence
  BY DEF HardwareInv, ObservationEvidence, ObservationInv
<1> QED
  BY <1>1, HardwareInvariant, PTL

\* A result that says passed was earned: every step and the capacity check passed
\* and an unpaired read was rejected; every window saw the watches, and the
\* batteries were read.
THEOREM PassedIsEarned == HardwareSpec => []ResultEarned
<1>1. HardwareInv => ResultEarned
  BY DEF HardwareInv, ResultEarned, IInv, ObservationInv
<1> QED
  BY <1>1, HardwareInvariant, PTL

\* A soak or an advertise that Ctrl-C does not end leaves its verdict, "failed"
\* after an error, with every sample, though a checkpoint inside the try block
\* could not be written; if it is the first save, the except clause's own or the
\* verdict of advertise that fails, the report says "running", never more.
THEOREM FailuresAreRecorded == HardwareSpec => []FailureRecorded
<1>1. HardwareInv => FailureRecorded
  BY DEF HardwareInv, FailureRecorded, ObservationInv
<1> QED
  BY <1>1, HardwareInvariant, PTL

\* probe evicts without the plan's consent only if another companion took the last
\* place between its public read and its pairing.
THEOREM EvictionIsARace == HardwareSpec => EvictionNeedsRace
<1>1. HardwareInv /\ [HardwareNext]_hardwareVars => [UnaskedEviction => raced]_vars
  <2> SUFFICES ASSUME HardwareInv, UnaskedEviction PROVE raced
    OBVIOUS
  <2>1. Accepts
    BY DEF HardwareInv, ObservationInv, Observed!TypeOK, UnaskedEviction
  <2> QED
    BY <2>1, EvictionStep DEF HardwareInv
<1> QED
  BY <1>1, HardwareInvariant, PTL DEF HardwareSpec, EvictionNeedsRace

\* probe passes only if the watch kept the bond it made up to the CCCD readback.
THEOREM ProbePassesOnItsBond == HardwareSpec => PassedKeptBond
<1>1. HardwareInv /\ [HardwareNext]_hardwareVars
        => [at = "readback" /\ steps' = Append(steps, "pass") => ~lost]_vars
  <2> SUFFICES ASSUME HardwareInv, HardwareNext \/ UNCHANGED hardwareVars, ~ UNCHANGED vars,
                      at = "readback", steps' = Append(steps, "pass")
               PROVE  ~lost
    OBVIOUS
  <2>1. Accepts
    BY DEF HardwareInv, ObservationInv, Observed!TypeOK
  <2>2. Next
    BY <2>1 DEF HardwareNext, Accept, Observe, hardwareVars
  <2> QED
    BY <2>1, <2>2, BondStep DEF HardwareInv
<1> QED
  BY <1>1, HardwareInvariant, PTL DEF HardwareSpec, PassedKeptBond

=============================================================================
