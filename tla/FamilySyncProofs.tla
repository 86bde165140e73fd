---------------------------- MODULE FamilySyncProofs ----------------------------
(***************************************************************************)
(* What a family of companions may rely on, for any number of sessions, of *)
(* records and of edits, any set of sessions that leave early and any      *)
(* capacity of the watch.                                                   *)
(***************************************************************************)
EXTENDS FamilySync, WellFoundedInduction, TLAPS

\* The records of p come first in q.
Extends(p, q) == Len(p) <= Len(q) /\ \A i \in 1..Len(p) : q[i] = p[i]

Ends(p, x) == p # <<>> /\ p[Len(p)] = x

-----------------------------------------------------------------------------
(* The inductive invariant.                                                 *)

\* What is staged is the serving connection's, and the beginning of its list.
StagedInv ==
    /\ staged \in SUBSET [count : 0..Capacity, list : Seq(Record)]
    /\ \A t, u \in staged : t = u
    /\ \A s \in Session : pc[s] = "push" /\ owner = s =>
           /\ Len(list[s]) <= Capacity
           /\ \E t \in staged : t.count = Len(list[s]) /\ Extends(t.list, list[s])

\* A session that is served has begun; a list is empty until it is pulled, and an
\* added record is its last.
SessionInv ==
    /\ \A s \in Session : pc[s] = "start" => owner # s
    /\ \A s \in Session : pc[s] \in {"start", "digest"} => list[s] = <<>>
    /\ \A s \in Session : edit[s].op = "add" /\ pc[s] \in {"push", "wait", "verify", "ok"} =>
           Ends(list[s], s)

Committed(s) == pc[s] \in {"wait", "verify", "ok", "raised"}

\* A session commits once; what it committed is its list, and becomes live once.
CommitInv ==
    /\ \A i \in 1..Len(pending) :
           /\ Committed(pending[i].by) /\ pending[i].by \notin merged
           /\ pending[i].list = list[pending[i].by]
    /\ \A i, j \in 1..Len(pending) : pending[i].by = pending[j].by => i = j
    /\ \A s \in merged : Committed(s)
    /\ version # NoSession => version \in merged /\ live = list[version]

\* A status tells the truth about the commit that it names.
StatusInv ==
    /\ status.state = "idle" => status.by = NoSession
    /\ status.by # NoSession => Committed(status.by)
    /\ status.state = "succeeded" =>
           status.by \in merged \/ (durable /\ Head(pending).by = status.by)
    /\ status.state = "failed" =>
           status.by \in Session /\ \A i \in 1..Len(pending) : pending[i].by # status.by

\* While a session waits nothing is committed after it.
WaitInv ==
    \A s \in Session : owner = s /\ pc[s] \in {"wait", "verify"} =>
        /\ s \in merged => pending = <<>>
        /\ \A i \in 1..Len(pending) : pending[i].by = s => i = Len(pending)

OkInv == \A s \in Session : pc[s] = "ok" => edit[s].op = "list" \/ s \in merged

\* A list that was confirmed stays the beginning of whatever the watch holds, is
\* about to hold, or is read record by record.
Told(s) == pc[s] = "ok" /\ edit[s].op = "add"

\* What r has pulled so far, or has made of it, does not miss a record of p.
Respects(r, p) ==
    /\ pc[r] \in {"select", "read"} =>
           /\ Len(p) <= left[r]
           /\ \A i \in 1..Len(list[r]) : i <= Len(p) => list[r][i] = p[i]
    /\ pc[r] = "read" => selected = Len(list[r]) \/ Len(p) <= Len(list[r])
    /\ pc[r] \in {"edit", "push"} => Extends(p, list[r])

KeepsRecordsOf(s) ==
    /\ Extends(list[s], live)
    /\ \A i \in 1..Len(pending) : Extends(list[s], pending[i].list)
    /\ \A r \in Session : owner = r => Respects(r, list[s])

OnlyAdds == \A s \in Session : edit[s].op # "delete"

KeptInv == OnlyAdds => \A s \in Session : Told(s) => KeepsRecordsOf(s)

\* Without impatience a session has the watch to itself from the digest to the
\* end of its commit.
Mirrors(s) ==
    /\ pc[s] \in {"select", "read"} => left[s] = Len(live) /\ Extends(list[s], live)
    /\ pc[s] = "read" => selected = Len(list[s])
    /\ pc[s] = "edit" => list[s] = live
    /\ pc[s] = "push" => list[s] = Store!Apply(edit[s], live)
    /\ pc[s] \in {"wait", "verify"} /\ pending # <<>> => list[s] = Store!Apply(edit[s], live)

PatientInv ==
    impatient = {} =>
        /\ pending # <<>> =>
               owner \in Session /\ Len(pending) = 1 /\ pending[1].by = owner
                 /\ pc[owner] \in {"wait", "verify"}
        /\ \A s \in Session : owner = s => Mirrors(s)

IInv ==
    /\ TypeOK /\ StagedInv /\ SessionInv /\ CommitInv /\ StatusInv /\ WaitInv /\ OkInv
    /\ DurableWhenTold /\ KeptInv /\ PatientInv

-----------------------------------------------------------------------------
(* Induction over data: what the filter of `delete` returns.                *)

\* A non-empty set of natural numbers has a least element.
LEMMA LeastNumber ==
    ASSUME NEW T \in SUBSET Nat, T # {}
    PROVE  \E n \in T : \A m \in T : ~ (m < n)
<1>1. \E n \in T : \A m \in T : <<m, n>> \notin OpToRel(<, Nat)
  BY NatLessThanWellFounded, WFMin
<1> QED
  BY <1>1 DEF OpToRel

\* Induction, over a set of numbers rather than a predicate of them.
LEMMA SetInduction ==
    ASSUME NEW T \in SUBSET Nat, 0 \in T, \A n \in T : n + 1 \in T
    PROVE  T = Nat
<1> SUFFICES ASSUME Nat \ T # {} PROVE FALSE
  OBVIOUS
<1>1. PICK n \in Nat \ T : \A m \in Nat \ T : ~ (m < n)
  BY LeastNumber
<1>2. n # 0 /\ n - 1 \in Nat /\ n - 1 < n
  BY <1>1
<1>3. (n - 1) + 1 \in T
  BY <1>1, <1>2
<1> QED
  BY <1>2, <1>3

\* One step of the filter, and the first n of them.
Keeps(f, i, r, l) ==
    IF i = 0 THEN <<>> ELSE IF l[i] = r THEN f[i - 1] ELSE Append(f[i - 1], l[i])
Filters(f, n, r, l) == f = [i \in 0..n |-> Keeps(f, i, r, l)]

\* The recursion of Without defines a function.
LEMMA FilterExists == \A r, l : \A n \in Nat : \E f : Filters(f, n, r, l)
<1> SUFFICES ASSUME NEW r, NEW l PROVE \A n \in Nat : \E f : Filters(f, n, r, l)
  OBVIOUS
<1> DEFINE T == {n \in Nat : \E f : Filters(f, n, r, l)}
<1>1. 0 \in T
  <2> DEFINE f == [i \in 0..0 |-> <<>>]
  <2>1. Filters(f, 0, r, l)
    BY DEF Filters, Keeps
  <2> QED
    BY <2>1
<1>2. ASSUME NEW n \in T PROVE n + 1 \in T
  <2>1. n \in Nat /\ \E f : Filters(f, n, r, l)
    OBVIOUS
  <2>2. PICK f : Filters(f, n, r, l)
    BY <2>1
  <2> HIDE DEF T
  <2> DEFINE g == [i \in 0..(n + 1) |-> Keeps(f, i, r, l)]
             h == [i \in 0..(n + 1) |-> Keeps(g, i, r, l)]
  <2>3. f = [i \in 0..n |-> Keeps(f, i, r, l)]
    BY <2>2 DEF Filters
  <2>4. \A i \in 0..n : f[i] = Keeps(f, i, r, l)
    BY <2>3
  <2>5. \A i \in 0..n : g[i] = f[i]
    BY <2>1, <2>4
  <2>6. \A i \in 0..(n + 1) : Keeps(g, i, r, l) = Keeps(f, i, r, l)
    <3> SUFFICES ASSUME NEW i \in 0..(n + 1), i # 0 PROVE g[i - 1] = f[i - 1]
      BY DEF Keeps
    <3>1. i - 1 \in 0..n
      BY <2>1
    <3> QED
      BY <3>1, <2>5
  <2>7. h = g
    BY <2>6
  <2>8. Filters(g, n + 1, r, l)
    BY <2>7 DEF Filters
  <2> QED
    BY <2>1, <2>8 DEF T
<1> QED
  BY SetInduction, <1>1, <1>2

\* What is left of a list is a list.
LEMMA WithoutTyped ==
    ASSUME NEW S, NEW l \in Seq(S), NEW r
    PROVE  Store!Without(r, l) \in Seq(S)
<1> DEFINE kept[n \in 0..Len(l)] ==
            IF n = 0 THEN <<>>
            ELSE IF l[n] = r THEN kept[n - 1] ELSE Append(kept[n - 1], l[n])
<1>1. kept = [n \in 0..Len(l) |->
            IF n = 0 THEN <<>>
            ELSE IF l[n] = r THEN kept[n - 1] ELSE Append(kept[n - 1], l[n])]
  <2>1. \E f : Filters(f, Len(l), r, l)
    <3>1. Len(l) \in Nat
      OBVIOUS
    <3> QED
      BY <3>1, FilterExists
  <2>2. \E f : f = [n \in 0..Len(l) |->
            IF n = 0 THEN <<>>
            ELSE IF l[n] = r THEN f[n - 1] ELSE Append(f[n - 1], l[n])]
    BY <2>1, Zenon DEF Filters, Keeps
  <2> QED
    BY <2>2
<1>2. Store!Without(r, l) = kept[Len(l)]
  BY DEF Store!Without
<1> HIDE DEF kept
<1> DEFINE T == {n \in Nat : n <= Len(l) => kept[n] \in Seq(S)}
<1>3. 0 \in T
  BY <1>1
<1>4. ASSUME NEW n \in T PROVE n + 1 \in T
  <2> SUFFICES ASSUME n \in Nat, n + 1 <= Len(l), kept[n] \in Seq(S) PROVE kept[n + 1] \in Seq(S)
    OBVIOUS
  <2>1. n + 1 \in 0..Len(l) /\ n + 1 # 0 /\ (n + 1) - 1 = n /\ l[n + 1] \in S
    OBVIOUS
  <2> HIDE DEF T
  <2>2. kept[n + 1] = IF l[n + 1] = r THEN kept[n] ELSE Append(kept[n], l[n + 1])
    BY <1>1, <2>1
  <2> QED
    BY <2>1, <2>2
<1>5. T = Nat
  BY SetInduction, <1>3, <1>4
<1> QED
  BY <1>2, <1>5

-----------------------------------------------------------------------------
(* Facts about lists and edits.                                             *)

\* An addition adds the session's own record.
LEMMA EditTyped ==
    ASSUME TypeOK, NEW s \in Session
    PROVE  /\ edit[s].op \in {"add", "delete", "list"} /\ edit[s].record \in Record
           /\ edit[s].op = "add" => edit[s].record = s
  BY SyncAssumption DEF TypeOK, Edits

LEMMA ApplyTyped ==
    ASSUME TypeOK, NEW s \in Session, NEW l \in Seq(Record)
    PROVE  /\ Store!Apply(edit[s], l) \in Seq(Record)
           /\ edit[s].op = "add" => Store!Apply(edit[s], l) = Append(l, s)
  BY EditTyped, WithoutTyped DEF Store!Apply

\* Lists that extend each other.
LEMMA ExtendsFacts ==
    ASSUME NEW S, NEW p \in Seq(S), NEW x \in S
    PROVE  /\ Extends(p, p) /\ Extends(p, Append(p, x)) /\ Extends(<<>>, p)
           /\ \A q \in Seq(S) : Extends(q, p) => Extends(q, Append(p, x))
           /\ \A q \in Seq(S) : Extends(p, q) /\ Len(p) = Len(q) => p = q
           /\ \A q \in Seq(S) : Extends(p, q) /\ Len(p) < Len(q) => Extends(Append(p, q[Len(p) + 1]), q)
  BY DEF Extends

-----------------------------------------------------------------------------
(* Every step keeps the inductive invariant.                                *)

LEMMA InitIInv == Init => IInv
<1> SUFFICES ASSUME Init PROVE IInv
  OBVIOUS
<1> USE SyncAssumption, WatchAssumption DEF Init, WatchInit, PC
<1>1. TypeOK
  <2>1. live \in Seq(Record) /\ Len(live) <= Capacity
    BY DEF Record
  <2>2. status \in Status /\ pending \in Seq([by : Session, list : Seq(Record)])
    BY DEF Status
  <2>4. WatchTypeOK(Record)
    BY <2>1, <2>2 DEF WatchTypeOK
  <2>3. /\ pc \in [Session -> PC] /\ list \in [Session -> Seq(Record)]
        /\ left \in [Session -> 0..Capacity]
    OBVIOUS
  <2> QED
    BY <2>3, <2>4 DEF TypeOK
<1>2. StagedInv /\ SessionInv /\ CommitInv /\ StatusInv /\ WaitInv /\ OkInv
  BY DEF StagedInv, SessionInv, CommitInv, StatusInv, WaitInv, OkInv
<1>3. DurableWhenTold /\ KeptInv /\ PatientInv
  BY DEF DurableWhenTold, KeptInv, Told, PatientInv, Mirrors
<1> QED
  BY <1>1, <1>2, <1>3 DEF IInv

\* A commit is somebody's.
LEMMA PendingTyped ==
    ASSUME TypeOK
    PROVE  \A i \in 1..Len(pending) : pending[i].by \in Session /\ pending[i].list \in Seq(Record)
<1> DEFINE Entry == [by : Session, list : Seq(Record)]
<1>1. pending \in Seq(Entry)
  BY DEF TypeOK, WatchTypeOK
<1> HIDE DEF Entry
<1>2. \A i \in 1..Len(pending) : pending[i] \in Entry
  BY <1>1
<1> QED
  BY <1>2 DEF Entry

\* The commit that becomes live, by publication or by a power cut.
LEMMA HeadFacts ==
    ASSUME IInv, pending # <<>>
    PROVE  /\ Head(pending).by \in Session /\ Head(pending).by \notin merged
           /\ Head(pending).list = list[Head(pending).by] /\ Committed(Head(pending).by)
           /\ Head(pending).list \in Seq(Record) /\ Len(Head(pending).list) <= Capacity
           /\ Head(pending) = pending[1] /\ 1 \in 1..Len(pending)
           /\ Tail(pending) \in Seq([by : Session, list : Seq(Record)])
           /\ Len(Tail(pending)) = Len(pending) - 1
           /\ \A i \in 1..Len(Tail(pending)) : Tail(pending)[i] = pending[i + 1] /\ i + 1 \in 1..Len(pending)
           /\ \A i \in 1..Len(Tail(pending)) : Tail(pending)[i].by # Head(pending).by
<1>1. pending \in Seq([by : Session, list : Seq(Record)]) /\ Head(pending) = pending[1]
      /\ 1 \in 1..Len(pending)
  BY DEF IInv, TypeOK, WatchTypeOK
<1>2. /\ Tail(pending) \in Seq([by : Session, list : Seq(Record)])
      /\ Len(Tail(pending)) = Len(pending) - 1
      /\ \A i \in 1..Len(Tail(pending)) : Tail(pending)[i] = pending[i + 1] /\ i + 1 \in 1..Len(pending)
  BY <1>1
<1>3. \A i \in 1..Len(Tail(pending)) : Tail(pending)[i].by # Head(pending).by
  <2> SUFFICES ASSUME NEW i \in 1..Len(Tail(pending)), Tail(pending)[i].by = Head(pending).by PROVE FALSE
    OBVIOUS
  <2>1. i + 1 = 1
    BY <1>1, <1>2 DEF IInv, CommitInv
  <2> QED
    BY <2>1
<1>4. /\ pending[1].by \in Session /\ pending[1].by \notin merged
      /\ pending[1].list = list[pending[1].by] /\ Committed(pending[1].by)
      /\ pending[1].list \in Seq(Record) /\ Len(pending[1].list) <= Capacity
  <2>1. pending[1].by \in Session /\ pending[1].list \in Seq(Record)
    BY <1>1, PendingTyped DEF IInv
  <2>2. Len(pending[1].list) <= Capacity
    BY <1>1 DEF IInv, TypeOK
  <2>3. /\ pending[1].by \notin merged /\ Committed(pending[1].by)
        /\ pending[1].list = list[pending[1].by]
    BY <1>1 DEF IInv, CommitInv
  <2> QED
    BY <2>1, <2>2, <2>3
<1> QED
  BY <1>1, <1>2, <1>3, <1>4

\* The oldest commit becomes durable.
LEMMA DurableStep ==
    ASSUME IInv, pending # <<>>, durable' = TRUE,
           status' = [state |-> "succeeded", by |-> Head(pending).by],
           UNCHANGED <<pending, owner, live, version, staged, selected, session, merged>>
    PROVE  IInv'
<1> USE DEF IInv, session
<1>1. Head(pending).by \in Session /\ Committed(Head(pending).by)
  BY HeadFacts
<1>2. TypeOK'
  BY <1>1 DEF TypeOK, WatchTypeOK, Status
<1>3. StagedInv' /\ SessionInv' /\ OkInv' /\ CommitInv' /\ WaitInv'
  BY DEF StagedInv, SessionInv, OkInv, CommitInv, Committed, WaitInv
<1>4. StatusInv'
  BY <1>1, WatchAssumption DEF StatusInv, Committed
<1>5. DurableWhenTold' /\ PatientInv'
  BY DEF DurableWhenTold, PatientInv, Mirrors
<1>6. KeptInv'
  BY DEF KeptInv, OnlyAdds, Told, KeepsRecordsOf, Respects
<1> QED
  BY <1>2, <1>3, <1>4, <1>5, <1>6

\* The oldest commit leaves the queue: it has failed, or is live from now on.
LEMMA HeadLeaves ==
    ASSUME IInv, pending # <<>>, pending' = Tail(pending), ~durable',
           UNCHANGED <<owner, staged, selected, session>>,
           \/ /\ merged' = merged \cup {Head(pending).by}
              /\ live' = Head(pending).list /\ version' = Head(pending).by
              /\ durable /\ status' = status
           \/ /\ status' = [state |-> "failed", by |-> Head(pending).by]
              /\ ~durable /\ UNCHANGED <<live, version, merged>>,
           durable' \in BOOLEAN
    PROVE  IInv'
<1> USE DEF IInv, session
<1> DEFINE first == Head(pending)
           rest  == Tail(pending)
<1>1. /\ first.by \in Session /\ first.by \notin merged
      /\ first.list = list[first.by] /\ Committed(first.by)
      /\ first.list \in Seq(Record) /\ Len(first.list) <= Capacity
      /\ first = pending[1] /\ 1 \in 1..Len(pending)
  BY HeadFacts
<1>2. /\ rest \in Seq([by : Session, list : Seq(Record)]) /\ Len(rest) = Len(pending) - 1
      /\ \A i \in 1..Len(rest) : rest[i] = pending[i + 1] /\ i + 1 \in 1..Len(pending)
      /\ \A i \in 1..Len(rest) : rest[i].by # first.by
  BY HeadFacts
<1>3. /\ Len(pending) \in Nat /\ Len(rest) \in Nat
      /\ pending' = rest
      /\ merged \subseteq merged' /\ merged' \subseteq merged \cup {first.by}
      /\ first.by \in merged' => live' = first.list /\ version' = first.by
  BY <1>1, <1>2
<1> HIDE DEF first, rest
<1>4. TypeOK'
  BY <1>1, <1>2, <1>3 DEF TypeOK, WatchTypeOK, Status, first, rest
<1>5. StagedInv' /\ SessionInv' /\ OkInv'
  BY <1>3 DEF StagedInv, SessionInv, OkInv
<1>6. CommitInv'
  BY <1>1, <1>2, <1>3 DEF CommitInv, Committed, first
<1>7. StatusInv'
  BY <1>1, <1>2, <1>3, WatchAssumption DEF StatusInv, Committed, first
<1>8. WaitInv'
  BY <1>1, <1>2, <1>3 DEF WaitInv
<1>9. DurableWhenTold'
  BY <1>1, <1>3 DEF DurableWhenTold, first
<1>10. KeptInv'
  BY <1>1, <1>2, <1>3 DEF KeptInv, OnlyAdds, Told, KeepsRecordsOf, Respects, first
<1>11. PatientInv'
  BY <1>1, <1>2, <1>3 DEF PatientInv, Mirrors
<1> QED
  BY <1>4, <1>5, <1>6, <1>7, <1>8, <1>9, <1>10, <1>11

\* The watch's own steps.
LEMMA WatchStep == ASSUME IInv, Watch PROVE IInv'
<1> USE DEF IInv
<1>1. CASE Saves
  <2>1. /\ pending # <<>> /\ ~durable
        /\ UNCHANGED <<owner, live, version, staged, selected, session, merged>>
        /\ \/ /\ durable' = TRUE /\ pending' = pending
              /\ status' = [state |-> "succeeded", by |-> Head(pending).by]
           \/ /\ pending' = Tail(pending) /\ durable' = durable
              /\ status' = [state |-> "failed", by |-> Head(pending).by]
    BY <1>1 DEF Saves, Persist
  <2>2. durable \in BOOLEAN
    BY DEF TypeOK, WatchTypeOK
  <2>3. CASE durable' = TRUE /\ pending' = pending
    BY <2>1, <2>3, DurableStep
  <2>4. CASE pending' = Tail(pending) /\ durable' = durable
    BY <2>1, <2>2, <2>4, HeadLeaves
  <2> QED
    BY <2>1, <2>3, <2>4
<1>2. CASE Lands
  <2>1. /\ durable /\ pending # <<>> /\ pending' = Tail(pending) /\ durable' = FALSE
        /\ live' = Head(pending).list /\ version' = Head(pending).by
        /\ merged' = merged \cup {Head(pending).by}
        /\ UNCHANGED <<owner, staged, status, selected, session>>
    BY <1>2 DEF Lands, Publish, TypeOK, WatchTypeOK
  <2> QED
    BY <2>1, HeadLeaves
<1>3. CASE Disconnected
  <2>1. /\ owner \in Session /\ pc[owner] \notin {"wait", "verify"}
        /\ owner' = NoSession /\ staged' = {}
        /\ UNCHANGED <<live, version, pending, durable, status, selected, session, merged>>
    BY <1>3 DEF Disconnected, Release, lists, Connected, PC, TypeOK, WatchTypeOK
  <2>2. TypeOK'
    BY <2>1 DEF TypeOK, WatchTypeOK, session
  <2>3. StagedInv' /\ SessionInv' /\ OkInv' /\ CommitInv' /\ WaitInv' /\ StatusInv'
    BY <2>1, WatchAssumption
    DEF StagedInv, SessionInv, OkInv, CommitInv, Committed, WaitInv, StatusInv, session
  <2>4. DurableWhenTold' /\ PatientInv'
    BY <2>1, WatchAssumption DEF DurableWhenTold, PatientInv, Mirrors, session
  <2>5. KeptInv'
    BY <2>1, WatchAssumption DEF KeptInv, OnlyAdds, Told, KeepsRecordsOf, Respects, session
  <2> QED
    BY <2>2, <2>3, <2>4, <2>5
<1>4. CASE Restarts
  <2>1. /\ owner' = NoSession /\ staged' = {} /\ pending' = <<>> /\ durable' = FALSE
        /\ status' = [state |-> "idle", by |-> NoSession] /\ selected' = 0
        /\ UNCHANGED session
        /\ \/ /\ pending # <<>>
              /\ live' = Head(pending).list /\ version' = Head(pending).by
              /\ merged' = merged \cup {Head(pending).by}
           \/ UNCHANGED <<live, version, merged>>
    BY <1>4 DEF Restarts, PowerCut, TypeOK, WatchTypeOK
  <2>2. TypeOK'
    <3>1. /\ live' \in Seq(Record) /\ Len(live') <= Capacity /\ merged' \subseteq Session
          /\ version' \in Session \cup {NoSession}
      BY <2>1, HeadFacts DEF TypeOK, WatchTypeOK
    <3>2. status' \in Status /\ pending' \in Seq([by : Session, list : Seq(Record)])
      BY <2>1 DEF Status
    <3>3. WatchTypeOK(Record)'
      BY <2>1, <3>1, <3>2 DEF WatchTypeOK
    <3> QED
      BY <2>1, <3>1, <3>3 DEF TypeOK, session
  <2>3. CommitInv'
    BY <2>1, HeadFacts DEF CommitInv, Committed, session
  <2>4. OkInv'
    BY <2>1 DEF OkInv, session
  <2>5. StagedInv' /\ SessionInv' /\ WaitInv' /\ StatusInv' /\ DurableWhenTold' /\ PatientInv'
    BY <2>1, WatchAssumption
    DEF StagedInv, SessionInv, WaitInv, StatusInv, DurableWhenTold, PatientInv, Mirrors, session
  <2>6. KeptInv'
    BY <2>1, HeadFacts, WatchAssumption DEF KeptInv, OnlyAdds, Told, KeepsRecordsOf, Respects, session
  <2> QED
    BY <2>2, <2>3, <2>4, <2>5, <2>6
<1> QED
  BY <1>1, <1>2, <1>3, <1>4 DEF Watch

\* A companion ends, and is told nothing that is not so.
LEMMA EndsStep ==
    ASSUME IInv, NEW s \in Session, NEW l \in {"ok", "raised"}, Goto(s, l),
           UNCHANGED <<watch, impatient, edit, list, left, merged>>,
           l = "ok" => \/ edit[s].op = "list"
                       \/ version = s /\ owner = s /\ pc[s] \in {"wait", "verify"},
           impatient = {} /\ owner = s => pending = <<>>
    PROVE  IInv'
<1> USE DEF IInv, watch
<1>1. pc' \in [Session -> PC] /\ pc'[s] = l /\ \A r \in Session : r # s => pc'[r] = pc[r]
  BY DEF Goto, PC, TypeOK
<1>2. l = "ok" /\ edit[s].op # "list" =>
         /\ s \in merged /\ live = list[s] /\ pending = <<>> /\ owner = s
         /\ edit[s].op = "add" => Ends(list[s], s)
  BY WatchAssumption DEF CommitInv, WaitInv, SessionInv
<1>3. TypeOK'
  BY <1>1 DEF TypeOK, WatchTypeOK
<1>4. StagedInv' /\ SessionInv' /\ OkInv'
  BY <1>1, <1>2 DEF StagedInv, SessionInv, OkInv
<1>5. CommitInv' /\ StatusInv' /\ WaitInv' /\ DurableWhenTold'
  <2>1. \A r : Committed(r) /\ r \in Session => Committed(r)'
    BY <1>1 DEF Committed
  <2>2. CommitInv'
    BY <1>1, PendingTyped DEF CommitInv, Committed, TypeOK
  <2>3. StatusInv'
    BY <2>1 DEF StatusInv, TypeOK, WatchTypeOK, Status
  <2> QED
    BY <1>1, <2>2, <2>3 DEF WaitInv, DurableWhenTold
<1>6. KeptInv'
  <2>1. ASSUME OnlyAdds', NEW r \in Session, Told(r)'
        PROVE  KeepsRecordsOf(r)'
    <3>1. CASE Told(r)
      BY <1>1, <2>1, <3>1 DEF KeptInv, OnlyAdds, KeepsRecordsOf, Respects
    <3>2. CASE ~Told(r)
      <4>1. r = s /\ l = "ok" /\ edit[s].op # "list"
        BY <1>1, <2>1, <3>2 DEF Told
      <4>2. Extends(list[s], live)
        BY <1>2, <4>1 DEF Extends, TypeOK
      <4> QED
        BY <1>1, <1>2, <4>1, <4>2 DEF KeepsRecordsOf, Respects
    <3> QED
      BY <3>1, <3>2
  <2> QED
    BY <2>1 DEF KeptInv
<1>7. PatientInv'
  BY <1>1 DEF PatientInv, Mirrors
<1> QED
  BY <1>3, <1>4, <1>5, <1>6, <1>7

\* A companion that is served goes on with its pull.
LEMMA PullStep ==
    ASSUME IInv, NEW s \in Session, owner = s, pc[s] \in {"digest", "select", "read"},
           NEW l \in {"select", "read", "edit"}, Goto(s, l),
           UNCHANGED <<owner, lists, staged, impatient, edit, merged>>, selected' \in Nat,
           NEW x \in Seq(Record), list' = [list EXCEPT ![s] = x],
           NEW n \in 0..Capacity, left' = [left EXCEPT ![s] = n],
           l \in {"select", "read"} => Len(x) < n,
           OnlyAdds => \A t \in Session : Told(t) => Respects(s, list[t])',
           impatient = {} => Mirrors(s)'
    PROVE  IInv'
<1> USE DEF IInv, lists
<1>1. /\ pc' \in [Session -> PC] /\ pc'[s] = l /\ \A r \in Session : r # s => pc'[r] = pc[r]
      /\ list' \in [Session -> Seq(Record)] /\ \A r \in Session : r # s => list'[r] = list[r]
      /\ left' \in [Session -> 0..Capacity] /\ \A r \in Session : r # s => left'[r] = left[r]
      /\ list'[s] = x /\ left'[s] = n
  BY DEF Goto, PC, TypeOK
<1>2. ~Committed(s) /\ ~Committed(s)'
  BY <1>1 DEF Committed
<1>3. TypeOK'
  BY <1>1 DEF TypeOK, WatchTypeOK
<1>4. StagedInv' /\ SessionInv' /\ OkInv'
  BY <1>1 DEF StagedInv, SessionInv, OkInv
<1>5. CommitInv'
  <2>1. \A r \in Session : Committed(r) => Committed(r)' /\ list'[r] = list[r]
    BY <1>1, <1>2 DEF Committed
  <2>2. \A i \in 1..Len(pending) :
           /\ Committed(pending[i].by)' /\ pending[i].by \notin merged
           /\ pending[i].list = list'[pending[i].by]
    BY <1>1, <2>1, PendingTyped DEF CommitInv, Committed
  <2>3. \A r \in merged : Committed(r)'
    BY <2>1 DEF CommitInv, TypeOK
  <2>4. version # NoSession => version \in merged /\ live = list'[version]
    BY <2>1 DEF CommitInv, TypeOK
  <2> QED
    BY <2>2, <2>3, <2>4 DEF CommitInv, Committed
<1>6. StatusInv'
  BY <1>1 DEF StatusInv, Committed, TypeOK, WatchTypeOK, Status
<1>7. WaitInv' /\ DurableWhenTold'
  BY <1>1 DEF WaitInv, DurableWhenTold
<1>8. KeptInv'
  <2> SUFFICES ASSUME OnlyAdds', NEW t \in Session, Told(t)' PROVE KeepsRecordsOf(t)'
    BY DEF KeptInv
  <2>1. OnlyAdds /\ Told(t) /\ t # s /\ list'[t] = list[t]
    BY <1>1 DEF OnlyAdds, Told
  <2>2. Respects(s, list[t])'
    BY <2>1
  <2> QED
    BY <2>1, <2>2 DEF KeptInv, KeepsRecordsOf
<1>9. PatientInv'
  BY <1>1 DEF PatientInv
<1> QED
  BY <1>3, <1>4, <1>5, <1>6, <1>7, <1>8, <1>9

\* pull_records and the pull of companion-cli.mjs: digest, select, read.
LEMMA PullsStep ==
    ASSUME IInv, NEW s \in Session, ReadDigest(s) \/ Select(s) \/ ReadRecord(s)
    PROVE  IInv'
<1> USE DEF IInv
<1>1. /\ owner = s /\ list[s] \in Seq(Record) /\ left[s] \in 0..Capacity
      /\ live \in Seq(Record) /\ Len(live) <= Capacity /\ selected \in Nat /\ Capacity \in Nat
      /\ list = [list EXCEPT ![s] = list[s]] /\ left = [left EXCEPT ![s] = left[s]]
      /\ pc \in [Session -> PC] /\ list \in [Session -> Seq(Record)]
  BY WatchAssumption DEF ReadDigest, Select, ReadRecord, TypeOK, WatchTypeOK
<1>2. ASSUME OnlyAdds, NEW t \in Session, Told(t)
      PROVE  /\ Extends(list[t], live) /\ Respects(s, list[t])
             /\ list[t] \in Seq(Record) /\ list[t] # <<>>
  BY <1>1, <1>2 DEF KeptInv, KeepsRecordsOf, Told, SessionInv, Ends, TypeOK
<1>3. CASE ReadDigest(s)
  <2> DEFINE l == IF live = <<>> THEN "edit" ELSE "select"
  <2>1. /\ pc[s] = "digest" /\ list[s] = <<>> /\ Goto(s, l)
        /\ left' = [left EXCEPT ![s] = Len(live)]
        /\ UNCHANGED <<watch, impatient, edit, list, merged>>
    BY <1>3 DEF ReadDigest, SessionInv
  <2>2. pc'[s] = l /\ list'[s] = <<>> /\ left'[s] = Len(live) /\ live' = live
    BY <1>1, <2>1 DEF Goto, TypeOK, watch
  <2>3. OnlyAdds => \A t \in Session : Told(t) => Respects(s, list[t])'
    <3> SUFFICES ASSUME OnlyAdds, NEW t \in Session, Told(t) PROVE Respects(s, list[t])'
      OBVIOUS
    <3> QED
      BY <1>1, <1>2, <2>1, <2>2 DEF Respects, Extends
  <2>4. Mirrors(s)'
    BY <1>1, <2>1, <2>2 DEF Mirrors, Extends
  <2>5. l \in {"select", "edit"} /\ (l = "select" => Len(list[s]) < Len(live))
    BY <1>1, <2>1
  <2> HIDE DEF l
  <2>6. /\ UNCHANGED <<owner, lists, staged, impatient, edit, merged>> /\ selected' \in Nat
        /\ list' = [list EXCEPT ![s] = list[s]] /\ Len(live) \in 0..Capacity
    BY <1>1, <2>1 DEF watch, lists
  <2> QED
    BY <1>1, <2>1, <2>3, <2>4, <2>5, <2>6, PullStep
<1>4. CASE Select(s) /\ pc'[s] = "read"
  <2>1. /\ pc[s] = "select" /\ Goto(s, "read") /\ SelectIndex(Len(list[s]))
        /\ UNCHANGED <<impatient, edit, list, left, merged>>
    BY <1>1, <1>4 DEF Select, Goto
  <2>2. /\ selected' = IF Len(list[s]) < Len(live) THEN Len(list[s]) ELSE selected
        /\ UNCHANGED <<owner, lists, staged>> /\ live' = live
        /\ pc'[s] = "read" /\ list'[s] = list[s] /\ left'[s] = left[s]
        /\ Len(list[s]) < left[s]
    BY <1>4, <2>1 DEF SelectIndex, lists, TypeOK
  <2>3. selected' \in Nat
    BY <1>1, <2>2
  <2>4. OnlyAdds => \A t \in Session : Told(t) => Respects(s, list[t])'
    <3> SUFFICES ASSUME OnlyAdds, NEW t \in Session, Told(t) PROVE Respects(s, list[t])'
      OBVIOUS
    <3> QED
      BY <1>1, <1>2, <2>1, <2>2 DEF Respects, Extends
  <2>5. impatient = {} => Mirrors(s)'
    BY <1>1, <2>1, <2>2 DEF PatientInv, Mirrors, Extends
  <2> QED
    BY <1>1, <2>1, <2>2, <2>3, <2>4, <2>5, PullStep
<1>5. CASE Select(s) /\ pc'[s] # "read"
  <2>1. /\ pc[s] = "select" /\ Goto(s, "raised") /\ Len(list[s]) >= Len(live)
        /\ SelectIndex(Len(list[s])) /\ UNCHANGED <<impatient, edit, list, left, merged>>
    BY <1>1, <1>5 DEF Select, Goto
  <2>2. UNCHANGED watch
    BY <1>1, <2>1 DEF SelectIndex, watch, lists
  <2>3. impatient = {} => pending = <<>>
    BY <1>1, <2>1 DEF PatientInv
  <2> QED
    BY <2>1, <2>2, <2>3, EndsStep
<1>6. CASE ReadRecord(s) /\ selected < Len(live)
  <2> DEFINE x == Append(list[s], live[selected + 1])
             l == IF Len(list[s]) + 1 < left[s] THEN "select" ELSE "edit"
  <2>1. /\ pc[s] = "read" /\ Goto(s, l) /\ list' = [list EXCEPT ![s] = x]
        /\ UNCHANGED <<watch, impatient, edit, left, merged>>
    BY <1>6 DEF ReadRecord
  <2>2. /\ pc'[s] = l /\ list'[s] = x /\ left'[s] = left[s] /\ live' = live /\ selected' = selected
        /\ Len(list[s]) < left[s] /\ live[selected + 1] \in Record
    BY <1>1, <1>6, <2>1 DEF Goto, TypeOK, watch
  <2>3. /\ x \in Seq(Record) /\ Len(x) = Len(list[s]) + 1 /\ x[Len(list[s]) + 1] = live[selected + 1]
        /\ \A i \in 1..Len(list[s]) : x[i] = list[s][i]
    BY <1>1, <2>2
  <2>4. l \in {"select", "edit"} /\ (l = "select" => Len(x) < left[s]) /\ (l = "edit" => Len(x) = left[s])
    BY <1>1, <2>2, <2>3
  <2> HIDE DEF x, l
  <2>5. OnlyAdds => \A t \in Session : Told(t) => Respects(s, list[t])'
    <3> SUFFICES ASSUME OnlyAdds, NEW t \in Session, Told(t) PROVE Respects(s, list[t])'
      OBVIOUS
    <3>1. list[t] \in Seq(Record) /\ list'[t] = list[t] /\ Len(list[t]) <= left[s]
          /\ Extends(list[t], live)
      BY <1>1, <1>2, <2>1 DEF Respects, Told
    <3>2. \A i \in 1..Len(x) : i <= Len(list[t]) => x[i] = list[t][i]
      <4> SUFFICES ASSUME NEW i \in 1..Len(x), i <= Len(list[t]) PROVE x[i] = list[t][i]
        OBVIOUS
      <4>1. CASE i \in 1..Len(list[s])
        BY <1>2, <2>1, <2>3, <4>1 DEF Respects
      <4>2. CASE i = Len(list[s]) + 1
        <5>1. selected = Len(list[s])
          BY <1>1, <1>2, <2>1, <3>1, <4>2 DEF Respects
        <5> QED
          BY <1>1, <2>3, <3>1, <4>2, <5>1 DEF Extends
      <4> QED
        BY <1>1, <2>3, <4>1, <4>2
    <3> QED
      BY <1>1, <2>2, <2>3, <2>4, <3>1, <3>2 DEF Respects, Extends
  <2>6. impatient = {} => Mirrors(s)'
    <3> SUFFICES ASSUME impatient = {} PROVE Mirrors(s)'
      OBVIOUS
    <3>1. selected = Len(list[s]) /\ left[s] = Len(live) /\ Extends(list[s], live)
      BY <1>1, <2>1 DEF PatientInv, Mirrors
    <3>2. Extends(x, live)
      BY <1>1, <2>3, <3>1, <1>6 DEF Extends
    <3>3. Len(x) = Len(live) => x = live
      BY <1>1, <2>3, <3>2 DEF Extends
    <3> QED
      BY <1>1, <2>2, <2>3, <2>4, <3>1, <3>2, <3>3 DEF Mirrors
  <2> QED
    BY <1>1, <2>1, <2>2, <2>3, <2>4, <2>5, <2>6, PullStep DEF watch, lists
<1>7. CASE ReadRecord(s) /\ ~(selected < Len(live))
  <2>1. /\ pc[s] = "read" /\ Goto(s, "raised")
        /\ UNCHANGED <<watch, impatient, edit, list, left, merged>>
    BY <1>7 DEF ReadRecord
  <2>2. impatient = {} => pending = <<>>
    BY <1>1, <2>1 DEF PatientInv
  <2> QED
    BY <2>1, <2>2, EndsStep
<1> QED
  BY <1>3, <1>4, <1>5, <1>6, <1>7

\* A companion connects: it is served if nobody else is.
LEMMA ConnectStep == ASSUME IInv, NEW s \in Session, Connect(s) PROVE IInv'
<1> USE DEF IInv, Accept, lists
<1>1. /\ pc[s] = "start" /\ owner # s
      /\ owner' = IF owner = NoSession THEN s ELSE owner
      /\ UNCHANGED <<live, version, pending, durable, status, staged, selected>>
      /\ UNCHANGED <<impatient, edit, list, left, merged>>
      /\ pc' \in [Session -> PC] /\ pc'[s] = "digest" /\ \A r \in Session : r # s => pc'[r] = pc[r]
  BY DEF Connect, Goto, PC, TypeOK, SessionInv
<1>2. TypeOK'
  BY <1>1 DEF TypeOK, WatchTypeOK
<1>3. StagedInv' /\ SessionInv' /\ OkInv'
  BY <1>1, WatchAssumption DEF StagedInv, SessionInv, OkInv
<1>4. CommitInv' /\ StatusInv'
  <2>1. \A r \in Session : Committed(r) => r # s /\ Committed(r)'
    BY <1>1 DEF Committed
  <2> QED
    BY <1>1, <2>1, PendingTyped DEF CommitInv, Committed, StatusInv, TypeOK, WatchTypeOK, Status
<1>5. WaitInv' /\ DurableWhenTold'
  BY <1>1 DEF WaitInv, DurableWhenTold
<1>6. KeptInv'
  BY <1>1 DEF KeptInv, OnlyAdds, Told, KeepsRecordsOf, Respects
<1>7. PatientInv'
  BY <1>1, WatchAssumption DEF PatientInv, Mirrors
<1> QED
  BY <1>2, <1>3, <1>4, <1>5, <1>6, <1>7

\* Every way a companion ends.
LEMMA EndingsStep ==
    ASSUME IInv, NEW s \in Session,
           \/ Raise(s) \/ NothingToPush(s) \/ WaitDigest(s) \/ GiveUp(s)
           \/ WaitStatus(s) /\ status.state # "succeeded"
    PROVE  IInv'
<1> USE DEF IInv
<1>1. CASE Raise(s)
  BY <1>1, EndsStep DEF Raise, Lost, TimesOut, Requesting, Connected, PC, PatientInv
<1>2. CASE NothingToPush(s)
  BY <1>2, EndsStep DEF NothingToPush, PatientInv
<1>3. CASE WaitDigest(s)
  <2>1. version = s /\ owner = s /\ pc[s] \in {"wait", "verify"} /\ pending = <<>>
    BY <1>3, WatchAssumption DEF WaitDigest, DigestConfirms, CommitInv, WaitInv
  <2> QED
    BY <1>3, <2>1, EndsStep DEF WaitDigest
<1>4. CASE GiveUp(s)
  <2>1. impatient = {} /\ owner = s => pending = <<>>
    BY <1>4 DEF GiveUp, Unsettled, PatientInv
  <2> QED
    BY <1>4, <2>1, EndsStep DEF GiveUp
<1>5. CASE WaitStatus(s) /\ status.state # "succeeded"
  <2>1. /\ owner = s /\ status.by = s /\ Goto(s, "raised")
        /\ UNCHANGED <<watch, impatient, edit, list, left, merged>>
    BY <1>5 DEF WaitStatus, StatusSettled
  <2>2. status.state = "failed"
    BY <1>5, <2>1, WatchAssumption DEF StatusInv, TypeOK, WatchTypeOK, Status
  <2>3. impatient = {} => pending = <<>>
    BY <2>1, <2>2 DEF StatusInv, PatientInv
  <2> QED
    BY <2>1, <2>3, EndsStep
<1> QED
  BY <1>1, <1>2, <1>3, <1>4, <1>5

\* wait_family_commit has seen the durable status.
LEMMA VerifyStep ==
    ASSUME IInv, NEW s \in Session, WaitStatus(s), status.state = "succeeded"
    PROVE  IInv'
<1> USE DEF IInv, watch
<1>1. /\ pc[s] = "wait" /\ owner = s /\ status.by = s
      /\ UNCHANGED <<watch, impatient, edit, list, left, merged>>
      /\ pc' \in [Session -> PC] /\ pc'[s] = "verify" /\ \A r \in Session : r # s => pc'[r] = pc[r]
  BY DEF WaitStatus, StatusSettled, Goto, PC, TypeOK
<1>2. TypeOK'
  BY <1>1 DEF TypeOK, WatchTypeOK
<1>3. StagedInv' /\ SessionInv' /\ OkInv'
  BY <1>1 DEF StagedInv, SessionInv, OkInv
<1>4. CommitInv' /\ StatusInv'
  <2>1. \A r \in Session : Committed(r) => Committed(r)'
    BY <1>1 DEF Committed
  <2> QED
    BY <1>1, <2>1, PendingTyped DEF CommitInv, Committed, StatusInv, TypeOK, WatchTypeOK, Status
<1>5. WaitInv' /\ DurableWhenTold'
  BY <1>1 DEF WaitInv, DurableWhenTold, StatusInv
<1>6. KeptInv'
  BY <1>1 DEF KeptInv, OnlyAdds, Told, KeepsRecordsOf, Respects
<1>7. PatientInv'
  BY <1>1 DEF PatientInv, Mirrors
<1> QED
  BY <1>2, <1>3, <1>4, <1>5, <1>6, <1>7

\* The edit is made and a sync begun, if the watch has room for it.
LEMMA BeginStep == ASSUME IInv, NEW s \in Session, Begin(s) PROVE IInv'
<1> USE DEF IInv
<1> DEFINE edited == Store!Apply(edit[s], list[s])
           l == IF Len(edited) <= Capacity THEN "push" ELSE "raised"
<1>1. /\ pc[s] = "edit" /\ owner = s /\ edit[s].op # "list" /\ Goto(s, l)
      /\ list' = [list EXCEPT ![s] = edited]
      /\ staged' = IF Len(edited) <= Capacity THEN {[count |-> Len(edited), list |-> <<>>]} ELSE {}
      /\ UNCHANGED <<owner, lists, selected, impatient, edit, left, merged>>
  BY DEF Begin, BeginSync
<1>2. /\ edited \in Seq(Record) /\ edit[s].op \in {"add", "delete", "list"}
      /\ edit[s].op = "add" => edited = Append(list[s], s)
  BY EditTyped, ApplyTyped DEF TypeOK
<1>3. edit[s].op = "add" => Ends(edited, s) /\ \A p \in Seq(Record) : Extends(p, list[s]) => Extends(p, edited)
  <2> SUFFICES ASSUME edit[s].op = "add"
               PROVE  Ends(edited, s) /\ \A p \in Seq(Record) : Extends(p, list[s]) => Extends(p, edited)
    OBVIOUS
  <2>1. list[s] \in Seq(Record) /\ s \in Record
    BY DEF TypeOK, Record
  <2>2. edited = Append(list[s], s)
    BY <1>2
  <2> HIDE DEF edited
  <2> QED
    BY <2>1, <2>2, ExtendsFacts DEF Ends
<1>4. l \in {"push", "raised"} /\ (l = "push" <=> Len(edited) <= Capacity) /\ Capacity \in Nat
  BY WatchAssumption
<1> HIDE DEF edited, l
<1>5. /\ pc' \in [Session -> PC] /\ pc'[s] = l /\ \A r \in Session : r # s => pc'[r] = pc[r]
      /\ list' \in [Session -> Seq(Record)] /\ list'[s] = edited
      /\ \A r \in Session : r # s => list'[r] = list[r]
  BY <1>1, <1>2, <1>4 DEF Goto, PC, TypeOK
<1>6. \A r \in Session : Committed(r) => r # s /\ Committed(r)' /\ list'[r] = list[r]
  BY <1>1, <1>5 DEF Committed
<1>7. staged' \in SUBSET [count : 0..Capacity, list : Seq(Record)] /\ \A t, u \in staged' : t = u
  <2>1. Len(edited) <= Capacity => Len(edited) \in 0..Capacity
    BY <1>2, <1>4
  <2> QED
    BY <1>1, <2>1
<1>8. TypeOK'
  BY <1>1, <1>4, <1>5, <1>7 DEF TypeOK, WatchTypeOK, lists
<1>9. StagedInv'
  <2> DEFINE t == [count |-> Len(edited), list |-> <<>>]
  <2>1. l = "push" => t \in staged' /\ t.count = Len(edited) /\ Extends(t.list, edited)
    BY <1>1, <1>2, <1>4 DEF Extends
  <2> HIDE DEF t
  <2> QED
    BY <1>1, <1>4, <1>5, <1>7, <2>1 DEF StagedInv
<1>10. SessionInv' /\ OkInv'
  BY <1>1, <1>3, <1>4, <1>5 DEF SessionInv, OkInv
<1>11. CommitInv' /\ StatusInv'
  <2>1. \A i \in 1..Len(pending) :
           /\ Committed(pending[i].by)' /\ pending[i].by \notin merged
           /\ pending[i].list = list'[pending[i].by]
    <3> SUFFICES ASSUME NEW i \in 1..Len(pending)
                 PROVE  /\ Committed(pending[i].by)' /\ pending[i].by \notin merged
                        /\ pending[i].list = list'[pending[i].by]
      OBVIOUS
    <3>1. pending[i].by \in Session
      BY PendingTyped
    <3>2. /\ Committed(pending[i].by) /\ pending[i].by \notin merged
          /\ pending[i].list = list[pending[i].by]
      BY DEF CommitInv
    <3>3. UNCHANGED pending
      BY <1>1 DEF lists
    <3> QED
      BY <1>6, <3>1, <3>2, <3>3 DEF Committed
  <2>2. \A r \in merged : Committed(r)'
    BY <1>6 DEF CommitInv, TypeOK
  <2>3. version # NoSession => version \in merged /\ live = list'[version]
    BY <1>6 DEF CommitInv, TypeOK
  <2>4. status.by # NoSession => Committed(status.by)'
    <3>1. status.by \in Session \cup {NoSession} /\ UNCHANGED status
      BY <1>1 DEF TypeOK, WatchTypeOK, Status, lists
    <3>2. status.by # NoSession => Committed(status.by)
      BY DEF StatusInv
    <3> QED
      BY <1>6, <3>1, <3>2 DEF Committed
  <2> QED
    BY <1>1, <2>1, <2>2, <2>3, <2>4 DEF CommitInv, StatusInv, Committed, lists
<1>12. WaitInv' /\ DurableWhenTold'
  BY <1>1, <1>4, <1>5 DEF WaitInv, DurableWhenTold, lists
<1>13. KeptInv'
  <2> SUFFICES ASSUME OnlyAdds', NEW t \in Session, Told(t)' PROVE KeepsRecordsOf(t)'
    BY DEF KeptInv
  <2>1. OnlyAdds /\ Told(t) /\ t # s /\ list'[t] = list[t] /\ list[t] \in Seq(Record)
    BY <1>1, <1>4, <1>5 DEF OnlyAdds, Told, TypeOK
  <2>2. KeepsRecordsOf(t) /\ Extends(list[t], list[s])
    BY <1>1, <2>1 DEF KeptInv, KeepsRecordsOf, Respects
  <2>3. Extends(list[t], edited)
    BY <1>1, <1>2, <1>3, <2>1, <2>2 DEF OnlyAdds
  <2> QED
    BY <1>1, <1>4, <1>5, <2>1, <2>2, <2>3 DEF KeepsRecordsOf, Respects, lists
<1>14. PatientInv'
  <2> SUFFICES ASSUME impatient = {} PROVE PatientInv'
    BY <1>1 DEF PatientInv
  <2>1. pending = <<>> /\ edited = Store!Apply(edit[s], live)
    BY <1>1 DEF PatientInv, Mirrors, edited
  <2> QED
    BY <1>1, <1>4, <1>5, <2>1 DEF PatientInv, Mirrors, lists
<1> QED
  BY <1>8, <1>9, <1>10, <1>11, <1>12, <1>13, <1>14

\* Another record is staged.
LEMMA PushStep == ASSUME IInv, NEW s \in Session, Push(s) PROVE IInv'
<1> USE DEF IInv, session
<1>1. /\ pc[s] = "push" /\ owner = s /\ Sent < Len(list[s])
      /\ StageRecord(list[s][Sent + 1]) /\ UNCHANGED <<session, merged>>
      /\ list[s] \in Seq(Record)
  BY DEF Push, TypeOK
<1>2. PICK t \in staged : t.count = Len(list[s]) /\ Extends(t.list, list[s])
  BY <1>1 DEF StagedInv
<1>3. staged = {t} /\ t \in [count : 0..Capacity, list : Seq(Record)]
  BY <1>2 DEF StagedInv
<1>4. Sent = Len(t.list) /\ t.list \in Seq(Record)
  BY <1>3 DEF Sent
<1> DEFINE r == list[s][Sent + 1]
           u == [t EXCEPT !.list = Append(@, r)]
<1>5. r \in Record
  BY <1>1, <1>4
<1>6. staged' = {u}
  BY <1>1, <1>3 DEF StageRecord
<1>7. u \in [count : 0..Capacity, list : Seq(Record)] /\ u.count = t.count /\ u.list = Append(t.list, r)
  <2> HIDE DEF r
  <2> QED
    BY <1>3, <1>4, <1>5
<1>8. Extends(u.list, list[s])
  BY <1>1, <1>2, <1>4, <1>7, ExtendsFacts
<1> HIDE DEF r, u
<1>9. UNCHANGED <<owner, live, version, pending, durable, status, selected, session, merged>>
  BY <1>1 DEF StageRecord, lists
<1>10. TypeOK'
  BY <1>6, <1>7, <1>9 DEF TypeOK, WatchTypeOK
<1>11. StagedInv'
  BY <1>1, <1>2, <1>6, <1>7, <1>8, <1>9 DEF StagedInv
<1>12. SessionInv' /\ CommitInv' /\ StatusInv' /\ WaitInv' /\ OkInv'
  BY <1>9 DEF SessionInv, CommitInv, Committed, StatusInv, WaitInv, OkInv
<1>13. DurableWhenTold' /\ KeptInv' /\ PatientInv'
  BY <1>9 DEF DurableWhenTold, KeptInv, OnlyAdds, Told, KeepsRecordsOf, Respects, PatientInv, Mirrors
<1> QED
  BY <1>10, <1>11, <1>12, <1>13

\* The whole list has been staged and is committed.
LEMMA CommitStep == ASSUME IInv, NEW s \in Session, Commit(s) PROVE IInv'
<1> USE DEF IInv
<1> DEFINE mine == [by |-> s, list |-> list[s]]
<1>1. /\ pc[s] = "push" /\ owner = s /\ Sent = Len(list[s]) /\ CommitSync(s, Len(list[s]))
      /\ Goto(s, "wait") /\ UNCHANGED <<impatient, edit, list, left, merged>>
      /\ list[s] \in Seq(Record) /\ Len(list[s]) <= Capacity
  BY DEF Commit, TypeOK, StagedInv
<1>2. PICK t \in staged : t.count = Len(list[s]) /\ Extends(t.list, list[s])
  BY <1>1 DEF StagedInv
<1>3. staged = {t} /\ t.list \in Seq(Record)
  BY <1>2 DEF StagedInv
<1>4. t.list = list[s]
  BY <1>1, <1>2, <1>3, ExtendsFacts DEF Sent
<1>5. /\ pending' = Append(pending, mine) /\ staged' = {}
      /\ UNCHANGED <<owner, live, version, durable, status, selected>>
  BY <1>1, <1>2, <1>3, <1>4 DEF CommitSync, Complete
<1>6. /\ pc' \in [Session -> PC] /\ pc'[s] = "wait" /\ \A r \in Session : r # s => pc'[r] = pc[r]
  BY <1>1 DEF Goto, PC, TypeOK
<1>7. ~Committed(s) /\ Committed(s)' /\ \A r \in Session : Committed(r) => Committed(r)'
  BY <1>1, <1>6 DEF Committed
<1>8. /\ pending' \in Seq([by : Session, list : Seq(Record)])
      /\ Len(pending') = Len(pending) + 1 /\ Len(pending) \in Nat
      /\ pending'[Len(pending) + 1] = mine
      /\ \A i \in 1..Len(pending) : pending'[i] = pending[i]
      /\ pending # <<>> => Head(pending') = Head(pending)
  <2> DEFINE Entry == [by : Session, list : Seq(Record)]
  <2>1. mine \in Entry /\ pending \in Seq(Entry)
    BY <1>1 DEF TypeOK, WatchTypeOK
  <2> HIDE DEF Entry, mine
  <2>2. /\ pending' \in Seq(Entry)
        /\ Len(pending') = Len(pending) + 1 /\ Len(pending) \in Nat
        /\ pending'[Len(pending) + 1] = mine
        /\ \A i \in 1..Len(pending) : pending'[i] = pending[i]
        /\ pending # <<>> => Head(pending') = Head(pending)
    BY <1>5, <2>1
  <2> QED
    BY <2>2 DEF Entry
<1>9. /\ mine.by = s /\ mine.list = list[s]
      /\ \A i \in 1..Len(pending) : pending[i].by \in Session /\ Committed(pending[i].by)
                                    /\ pending[i].by # s
  BY <1>7, PendingTyped DEF CommitInv
<1>10. \A i \in 1..Len(pending') : i \in 1..Len(pending) \/ i = Len(pending) + 1
  BY <1>8
<1>11. s \notin merged
  BY <1>7 DEF CommitInv
<1> HIDE DEF mine
<1>12. TypeOK'
  <2>1. \A i \in 1..Len(pending') : Len(pending'[i].list) <= Capacity
    BY <1>1, <1>8, <1>9, <1>10 DEF TypeOK
  <2>2. durable => pending' # <<>>
    BY <1>8
  <2> QED
    BY <1>1, <1>5, <1>6, <1>8, <2>1, <2>2 DEF TypeOK, WatchTypeOK
<1>13. StagedInv' /\ SessionInv' /\ OkInv'
  BY <1>1, <1>5, <1>6 DEF StagedInv, SessionInv, OkInv
<1>14. CommitInv'
  <2>1. \A i \in 1..Len(pending') :
           /\ Committed(pending[i].by)' /\ pending'[i].by \notin merged
           /\ pending'[i].list = list[pending'[i].by]
    <3> SUFFICES ASSUME NEW i \in 1..Len(pending')
                 PROVE  /\ Committed(pending[i].by)' /\ pending'[i].by \notin merged
                        /\ pending'[i].list = list[pending'[i].by]
      OBVIOUS
    <3>1. CASE i \in 1..Len(pending)
      <4>1. pending[i].by \notin merged /\ pending[i].list = list[pending[i].by]
        BY <3>1 DEF CommitInv
      <4> QED
        BY <1>7, <1>8, <1>9, <3>1, <4>1 DEF Committed
    <3>2. CASE i = Len(pending) + 1
      BY <1>7, <1>8, <1>9, <1>11, <3>2 DEF Committed
    <3> QED
      BY <1>10, <3>1, <3>2
  <2>2. \A i, j \in 1..Len(pending') : pending'[i].by = pending'[j].by => i = j
    BY <1>8, <1>9, <1>10 DEF CommitInv
  <2>3. \A r \in merged : Committed(r)'
    BY <1>7 DEF CommitInv, TypeOK
  <2> QED
    BY <1>1, <1>5, <2>1, <2>2, <2>3 DEF CommitInv, Committed
<1>15. StatusInv'
  <2>1. status.by \in Session \cup {NoSession} /\ (status.by # NoSession => Committed(status.by))
    BY DEF TypeOK, WatchTypeOK, Status, StatusInv
  <2>2. durable => pending # <<>>
    BY DEF TypeOK, WatchTypeOK
  <2>3. status.state = "failed" => \A i \in 1..Len(pending') : pending'[i].by # status.by
    BY <1>7, <1>8, <1>9, <1>10, <2>1, WatchAssumption DEF StatusInv
  <2> QED
    BY <1>1, <1>5, <1>7, <1>8, <2>1, <2>2, <2>3 DEF StatusInv, Committed
<1>16. WaitInv'
  BY <1>1, <1>5, <1>6, <1>8, <1>9, <1>10, <1>11 DEF WaitInv
<1>17. DurableWhenTold'
  <2>1. durable => pending # <<>>
    BY DEF TypeOK, WatchTypeOK
  <2> QED
    BY <1>1, <1>5, <1>6, <1>8, <2>1 DEF DurableWhenTold
<1>18. KeptInv'
  <2> SUFFICES ASSUME OnlyAdds', NEW r \in Session, Told(r)' PROVE KeepsRecordsOf(r)'
    BY DEF KeptInv
  <2>1. OnlyAdds /\ Told(r)
    BY <1>1, <1>6 DEF OnlyAdds, Told
  <2>2. KeepsRecordsOf(r) /\ Extends(list[r], list[s])
    BY <1>1, <2>1 DEF KeptInv, KeepsRecordsOf, Respects
  <2>3. \A i \in 1..Len(pending') : Extends(list[r], pending'[i].list)
    BY <1>8, <1>9, <1>10, <2>2 DEF KeepsRecordsOf
  <2> QED
    BY <1>1, <1>5, <1>6, <2>2, <2>3 DEF KeepsRecordsOf, Respects
<1>19. PatientInv'
  <2> SUFFICES ASSUME impatient = {} PROVE PatientInv'
    BY <1>1 DEF PatientInv
  <2>1. pending = <<>> /\ list[s] = Store!Apply(edit[s], live)
    BY <1>1 DEF PatientInv, Mirrors
  <2>2. Len(pending') = 1 /\ pending'[1].by = s
    BY <1>8, <1>9, <2>1
  <2> QED
    BY <1>1, <1>5, <1>6, <2>1, <2>2 DEF PatientInv, Mirrors
<1> QED
  BY <1>12, <1>13, <1>14, <1>15, <1>16, <1>17, <1>18, <1>19

LEMMA NextIInv == ASSUME IInv, [Next]_vars PROVE IInv'
<1>1. CASE Watch
  BY <1>1, WatchStep
<1>2. ASSUME NEW s \in Session, Companion(s) PROVE IInv'
  <2>1. CASE Connect(s)
    BY <2>1, ConnectStep
  <2>2. CASE ReadDigest(s) \/ Select(s) \/ ReadRecord(s)
    BY <2>2, PullsStep
  <2>3. CASE Begin(s)
    BY <2>3, BeginStep
  <2>4. CASE Push(s)
    BY <2>4, PushStep
  <2>5. CASE Commit(s)
    BY <2>5, CommitStep
  <2>6. CASE WaitStatus(s)
    BY <2>6, VerifyStep, EndingsStep
  <2>7. CASE Raise(s) \/ NothingToPush(s) \/ WaitDigest(s) \/ GiveUp(s)
    BY <2>7, EndingsStep
  <2> QED
    BY <1>2, <2>1, <2>2, <2>3, <2>4, <2>5, <2>6, <2>7 DEF Companion
<1>3. CASE UNCHANGED vars
  <2>1. UNCHANGED <<owner, live, version, staged, pending, durable, status, selected>>
        /\ UNCHANGED <<impatient, edit, pc, list, left, merged>>
    BY <1>3 DEF vars, watch, session
  <2>2. TypeOK' /\ StagedInv' /\ SessionInv' /\ CommitInv' /\ StatusInv' /\ WaitInv' /\ OkInv'
    BY <2>1 DEF IInv, TypeOK, WatchTypeOK, StagedInv, SessionInv, CommitInv, Committed, StatusInv,
                WaitInv, OkInv
  <2>3. DurableWhenTold' /\ KeptInv' /\ PatientInv'
    BY <2>1 DEF IInv, DurableWhenTold, KeptInv, OnlyAdds, Told, KeepsRecordsOf, Respects,
                PatientInv, Mirrors
  <2> QED
    BY <2>2, <2>3 DEF IInv
<1> QED
  BY <1>1, <1>2, <1>3 DEF Next

-----------------------------------------------------------------------------
(* The refinement: what a patient family does are atomic edits of one list.  *)

\* The oldest commit becomes live: the edit of the session that waits for it is
\* merged.
LEMMA MergeStep ==
    ASSUME IInv, impatient = {}, pending # <<>>, UNCHANGED session,
           live' = Head(pending).list, merged' = merged \cup {Head(pending).by}
    PROVE  \E s \in Session : Store!Merge(s)
<1> USE DEF IInv
<1>1. /\ owner \in Session /\ Len(pending) = 1 /\ pending[1].by = owner
      /\ pc[owner] \in {"wait", "verify"} /\ Mirrors(owner)
  BY DEF PatientInv
<1>2. /\ Head(pending).by = owner /\ owner \notin merged
      /\ Head(pending).list = list[owner]
  BY <1>1, HeadFacts
<1>3. live' = Store!Apply(edit[owner], live)
  BY <1>1, <1>2 DEF Mirrors
<1>4. Store!Merge(owner)
  BY <1>1, <1>2, <1>3 DEF Store!Merge, session
<1> QED
  BY <1>1, <1>4

\* A companion that goes on is told nothing, one that ends is told the truth.
LEMMA TellStep ==
    ASSUME IInv, NEW s \in Session, NEW l \in PC, Goto(s, l),
           pc[s] \notin {"ok", "raised"}, UNCHANGED <<edit, live, merged>>,
           l = "ok" => s \in merged \/ edit[s].op = "list"
    PROVE  [Store!Next]_(Store!vars)
<1>1. /\ pc \in [Session -> PC] /\ pc' = [pc EXCEPT ![s] = l]
  BY DEF IInv, TypeOK, Goto
<1> DEFINE told == [r \in Session |-> IF pc[r] \in {"ok", "raised"} THEN pc[r] ELSE "nothing"]
<1>2. CASE l \in {"ok", "raised"}
  <2>1. told[s] = "nothing" /\ told' = [told EXCEPT ![s] = l]
    BY <1>1, <1>2
  <2>2. Store!Tell(s)
    BY <1>2, <2>1 DEF Store!Tell
  <2> QED
    BY <2>2 DEF Store!Next
<1>3. CASE l \notin {"ok", "raised"}
  <2>1. told' = told
    BY <1>1, <1>3
  <2> QED
    BY <2>1 DEF Store!vars
<1> QED
  BY <1>2, <1>3

\* The other steps do not show.
LEMMA HiddenStep ==
    ASSUME UNCHANGED <<edit, pc, live, merged>>
    PROVE  [Store!Next]_(Store!vars)
  BY DEF Store!vars

LEMMA StepRefines ==
    ASSUME IInv, [Next]_vars, impatient = {}
    PROVE  [Store!Next]_(Store!vars)
<1>1. CASE Watch
  <2>1. CASE Saves
    BY <2>1, HiddenStep DEF Saves, Persist, session
  <2>2. CASE Lands
    BY <2>2, MergeStep DEF Lands, Publish, IInv, TypeOK, WatchTypeOK, Store!Next
  <2>3. CASE Disconnected
    BY <2>3, HiddenStep DEF Disconnected, Release, lists, session
  <2>4. CASE Restarts
    <3>1. CASE durable
      BY <2>4, <3>1, MergeStep DEF Restarts, PowerCut, IInv, TypeOK, WatchTypeOK, Store!Next
    <3>2. CASE ~durable
      BY <2>4, <3>2, HiddenStep DEF Restarts, PowerCut, session
    <3> QED
      BY <3>1, <3>2
  <2> QED
    BY <1>1, <2>1, <2>2, <2>3, <2>4 DEF Watch
<1>2. ASSUME NEW s \in Session, Companion(s) PROVE [Store!Next]_(Store!vars)
  <2> USE DEF PC
  <2>1. CASE Connect(s)
    BY <2>1, TellStep DEF Connect, Accept, lists
  <2>2. CASE Raise(s)
    BY <2>2, TellStep DEF Raise, Lost, TimesOut, Requesting, Connected, watch
  <2>3. CASE ReadDigest(s)
    BY <2>3, TellStep DEF ReadDigest, watch
  <2>4. CASE Select(s)
    BY <2>4, TellStep DEF Select, SelectIndex, lists
  <2>5. CASE ReadRecord(s)
    BY <2>5, TellStep DEF ReadRecord, watch
  <2>6. CASE NothingToPush(s)
    BY <2>6, TellStep DEF NothingToPush, watch
  <2>7. CASE Begin(s)
    BY <2>7, TellStep DEF Begin, BeginSync, lists
  <2>8. CASE Push(s)
    BY <2>8, HiddenStep DEF Push, StageRecord, lists, session
  <2>9. CASE Commit(s)
    BY <2>9, TellStep DEF Commit, CommitSync
  <2>10. CASE WaitStatus(s)
    BY <2>10, TellStep DEF WaitStatus, watch
  <2>11. CASE WaitDigest(s)
    <3>1. s \in merged
      BY <2>11, WatchAssumption DEF WaitDigest, DigestConfirms, IInv, CommitInv
    <3> QED
      BY <2>11, <3>1, TellStep DEF WaitDigest, watch
  <2>12. CASE GiveUp(s)
    BY <2>12, TellStep DEF GiveUp, watch
  <2> QED
    BY <1>2, <2>1, <2>2, <2>3, <2>4, <2>5, <2>6, <2>7, <2>8, <2>9, <2>10, <2>11, <2>12 DEF Companion
<1>3. CASE UNCHANGED vars
  BY <1>3, HiddenStep DEF vars, watch, session
<1> QED
  BY <1>1, <1>2, <1>3 DEF Next

-----------------------------------------------------------------------------
(* The theorems.                                                            *)

\* The strengthening that everything below follows from.
THEOREM FamilyInvariant == Spec => []IInv
<1>1. Init => IInv
  BY InitIInv
<1>2. IInv /\ [Next]_vars => IInv'
  BY NextIInv
<1> QED
  BY <1>1, <1>2, PTL DEF Spec

\* pull_records, push_records, wait_family_commit and companion-cli.mjs keep their
\* data within its types, and lists on the watch within its capacity.
THEOREM FamilyTyped == Spec => []TypeOK
<1>1. IInv => TypeOK
  BY DEF IInv
<1> QED
  BY <1>1, FamilyInvariant, PTL

\* Of a family that only adds, no record is lost that a companion was told is on
\* the watch: not by a pull while a commit lands, a timeout whose commit lands
\* later, a failing commit or a power cut, for any number of companions.
THEOREM ConfirmedRecordsSurvive == Spec => []ConfirmedSurvives
<1>1. ASSUME IInv PROVE ConfirmedSurvives
  <2> SUFFICES ASSUME OnlyAdds, NEW s \in Session, Told(s)
               PROVE  \E i \in 1..Len(live) : live[i] = s
    BY DEF ConfirmedSurvives, OnlyAdds, Told
  <2>1. Ends(list[s], s) /\ list[s] \in Seq(Record) /\ live \in Seq(Record)
    BY <1>1 DEF IInv, SessionInv, Told, TypeOK, WatchTypeOK
  <2>2. Extends(list[s], live)
    BY <1>1 DEF IInv, KeptInv, KeepsRecordsOf
  <2>3. Len(list[s]) \in 1..Len(live) /\ live[Len(list[s])] = s
    BY <2>1, <2>2 DEF Extends, Ends
  <2> QED
    BY <2>3
<1> QED
  BY <1>1, FamilyInvariant, PTL

\* What family_handoff concludes from _wait_digest: the list it pushed became live,
\* and is what the watch holds as long as nothing else is committed.
THEOREM ConfirmedListsAreLive == Spec => []ConfirmedIsLive
<1>1. IInv => ConfirmedIsLive
  BY WatchAssumption DEF IInv, OkInv, CommitInv, ConfirmedIsLive
<1> QED
  BY <1>1, FamilyInvariant, PTL

\* No status that another commit left behind is taken by wait_family_commit for
\* the session's own.
THEOREM DurableIsTrue == Spec => []DurableWhenTold
<1>1. IInv => DurableWhenTold
  BY DEF IInv
<1> QED
  BY <1>1, FamilyInvariant, PTL

\* When all companions wait for their commits, pull_records returns the list the
\* watch holds, although it is read record by record.
THEOREM PullAdoptsTheWatch == Spec => []AdoptsTheWatch
<1>1. IInv => AdoptsTheWatch
  BY DEF IInv, PatientInv, Mirrors, AdoptsTheWatch
<1> QED
  BY <1>1, FamilyInvariant, PTL

\* The sessions of a family whose companions wait for their commits implement
\* FamilyStore: atomic edits of the watch's list, each at most once and none after
\* its companion has ended.
THEOREM SessionsAreAtomic == Spec => MergesAtomically
<1>1. Init => (impatient = {} => Store!Init)
  BY DEF Init, Store!Init
<1>2. IInv /\ [Next]_vars => [impatient = {} => [Store!Next]_(Store!vars)]_vars
  BY StepRefines
<1> QED
  BY <1>1, <1>2, FamilyInvariant, PTL DEF Spec, MergesAtomically

=============================================================================
