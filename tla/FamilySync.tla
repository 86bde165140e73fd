------------------------------- MODULE FamilySync -------------------------------
(***************************************************************************)
(* Companions that pull the family's list from the watch, edit it and push *)
(* it back: ptlab's pull_records, push_records and wait_family_commit as    *)
(* family_handoff uses them (sessions in Wire), and companion-cli.mjs (the *)
(* other sessions).  A request and its answer are one step; commits of the *)
(* watch and of former owners land in between.                             *)
(***************************************************************************)
EXTENDS FamilyWatch

CONSTANTS
    Wire,        \* sessions of ptlab; the others run companion-cli.mjs
    Impatience,  \* sets of sessions that may leave while their commit is pending
    Seeded,      \* the list on the watch at first
    Ops          \* the kinds of edits that each session may want

ASSUME SyncAssumption ==
    /\ Wire \subseteq Session /\ Impatience \subseteq SUBSET Session
    /\ Seeded \in Seq(STRING) /\ Len(Seeded) <= Capacity
    /\ Ops \in [Session -> SUBSET {"add", "delete", "list"}]

VARIABLES
    impatient, \* the sessions that may leave while their commit is pending
    edit,     \* the edit a session is for
    pc,       \* where it is
    list,     \* the records it has pulled, later those it pushes
    left,     \* the count that the digest announced
    merged    \* history: sessions whose commit became live

session == <<impatient, edit, pc, list, left>>
vars == <<watch, session, merged>>

Record == {Seeded[i] : i \in 1..Len(Seeded)} \cup Session
Edits(s) ==
    {e \in [op : Ops[s], record : Record] : e.op = "delete" <=> e.record # s}

PC == {"start", "digest", "select", "read", "edit", "push", "wait", "verify",
       "ok", "raised"}
Ended(s) == pc[s] \in {"ok", "raised"}
Connected == PC \ {"start", "ok", "raised"}

Store == INSTANCE FamilyStore WITH
    store <- live,
    told  <- [s \in Session |-> IF pc[s] \in {"ok", "raised"} THEN pc[s] ELSE "nothing"]

TypeOK ==
    /\ WatchTypeOK(Record)
    /\ impatient \in Impatience
    /\ \A s \in Session : edit[s] \in Edits(s)
    /\ pc \in [Session -> PC]
    /\ list \in [Session -> Seq(Record)]
    /\ left \in [Session -> 0..Capacity]
    /\ \A s \in Session : pc[s] \in {"select", "read"} => Len(list[s]) < left[s]
    /\ \A i \in 1..Len(pending) : Len(pending[i].list) <= Capacity
    /\ merged \subseteq Session

Init ==
    /\ WatchInit(Seeded)
    /\ impatient \in Impatience
    /\ edit \in [Session -> UNION {Edits(s) : s \in Session}]
    /\ \A s \in Session : edit[s] \in Edits(s)
    /\ pc = [s \in Session |-> "start"]
    /\ list = [s \in Session |-> <<>>]
    /\ left = [s \in Session |-> 0]
    /\ merged = {}

Goto(s, l) == pc' = [pc EXCEPT ![s] = l]

-----------------------------------------------------------------------------
(* The companion.                                                           *)

Connect(s) ==
    /\ pc[s] = "start"
    /\ Accept(s)
    /\ Goto(s, "digest")
    /\ UNCHANGED <<impatient, edit, list, left, merged>>

Requesting == {"digest", "select", "read", "edit", "push"}

\* BUSY, or a connection closed by a power cut: an exception in ptlab and on an
\* empty answer, or node ends because nothing is left that could resolve.
Lost(s) == pc[s] \in Connected /\ owner # s

\* A request of ptlab has a time limit; one of companion-cli.mjs has none.
TimesOut(s) == s \in Wire /\ pc[s] \in Requesting

\* A refused request or Ctrl-C, which may come or not, ends both programs too.
Raise(s) ==
    /\ Lost(s) \/ TimesOut(s) \/ pc[s] \in Requesting
    /\ Goto(s, "raised")
    /\ UNCHANGED <<watch, impatient, edit, list, left, merged>>

\* Seeded fault: the session begins its push without pulling first.
ReadDigest_Blind(s) ==
    /\ pc[s] = "digest" /\ owner = s
    /\ left' = [left EXCEPT ![s] = Len(live)]
    /\ Goto(s, "edit")
    /\ UNCHANGED <<watch, impatient, edit, list, merged>>

ReadDigest(s) ==
    /\ pc[s] = "digest" /\ owner = s
    /\ left' = [left EXCEPT ![s] = Len(live)]
    /\ Goto(s, IF live = <<>> THEN "edit" ELSE "select")
    /\ UNCHANGED <<watch, impatient, edit, list, merged>>

\* Seeded fault: records are counted from one.
Select_FromOne(s) ==
    /\ pc[s] = "select" /\ owner = s
    /\ SelectIndex(Len(list[s]) + 1)
    /\ Goto(s, IF Len(list[s]) >= Len(live) /\ s \in Wire THEN "raised" ELSE "read")
    /\ UNCHANGED <<impatient, edit, list, left, merged>>

\* The list may have become shorter since the digest was read: pull_records
\* checks the status, companion-cli.mjs goes on with the index selected before.
Select(s) ==
    /\ pc[s] = "select" /\ owner = s
    /\ SelectIndex(Len(list[s]))
    /\ Goto(s, IF Len(list[s]) >= Len(live) /\ s \in Wire THEN "raised" ELSE "read")
    /\ UNCHANGED <<impatient, edit, list, left, merged>>

\* Seeded fault: one record more than the digest announced.
ReadRecord_Again(s) ==
    /\ pc[s] = "read" /\ owner = s
    /\ IF selected < Len(live)
       THEN /\ list' = [list EXCEPT ![s] = Append(@, live[selected + 1])]
            /\ Goto(s, IF Len(list[s]) < left[s] THEN "select" ELSE "edit")
       ELSE /\ Goto(s, "raised")
            /\ UNCHANGED list
    /\ UNCHANGED <<watch, impatient, edit, left, merged>>

ReadRecord(s) ==
    /\ pc[s] = "read" /\ owner = s
    /\ IF selected < Len(live)
       THEN /\ list' = [list EXCEPT ![s] = Append(@, live[selected + 1])]
            /\ Goto(s, IF Len(list[s]) + 1 < left[s] THEN "select" ELSE "edit")
       ELSE /\ Goto(s, "raised")
            /\ UNCHANGED list
    /\ UNCHANGED <<watch, impatient, edit, left, merged>>

\* `list` prints what it pulled; `delete` of what is not there exits with 1.
NothingToPush(s) ==
    /\ pc[s] = "edit"
    /\ \/ edit[s].op = "list" /\ Goto(s, "ok")
       \/ /\ edit[s].op = "delete"
          /\ \A i \in 1..Len(list[s]) : list[s][i] # edit[s].record
          /\ Goto(s, "raised")
    /\ UNCHANGED <<watch, impatient, edit, list, left, merged>>

Begin(s) ==
    /\ pc[s] = "edit" /\ owner = s
    /\ edit[s].op # "list"
    /\ LET edited == Store!Apply(edit[s], list[s])
       IN  /\ edited # list[s]
           /\ list' = [list EXCEPT ![s] = edited]
           /\ BeginSync(Len(edited))
           /\ Goto(s, IF Len(edited) <= Capacity THEN "push" ELSE "raised")
    /\ UNCHANGED <<impatient, edit, left, merged>>

Sent == Len((CHOOSE t \in staged : TRUE).list)

Push(s) ==
    /\ pc[s] = "push" /\ owner = s
    /\ Sent < Len(list[s])
    /\ StageRecord(list[s][Sent + 1])
    /\ UNCHANGED <<session, merged>>

\* Seeded fault: an accepted commit is taken for a finished one.
Commit_NoWait(s) ==
    /\ pc[s] = "push" /\ owner = s
    /\ Sent = Len(list[s])
    /\ CommitSync(s, Len(list[s]))
    /\ Goto(s, "ok")
    /\ UNCHANGED <<impatient, edit, list, left, merged>>

Commit(s) ==
    /\ pc[s] = "push" /\ owner = s
    /\ Sent = Len(list[s])
    /\ CommitSync(s, Len(list[s]))
    /\ Goto(s, "wait")
    /\ UNCHANGED <<impatient, edit, list, left, merged>>

\* Seeded fault: any durable commit is taken for the session's own.
StatusSettled_AnyToken(s) == status.state # "idle"

\* The status is about this session's operation and token.
StatusSettled(s) == status.by = s

\* wait_family_commit; the polling turns that see something else change nothing.
WaitStatus(s) ==
    /\ pc[s] = "wait" /\ owner = s /\ s \in Wire
    /\ StatusSettled(s)
    /\ Goto(s, IF status.state = "succeeded" THEN "verify" ELSE "raised")
    /\ UNCHANGED <<watch, impatient, edit, list, left, merged>>

\* Seeded fault: the count alone is compared.
DigestConfirms_Count(s) == Len(live) = Len(list[s])

DigestConfirms(s) == version = s /\ Len(live) = Len(list[s])

\* _wait_digest after wait_family_commit; the only confirmation that
\* companion-cli.mjs waits for.
WaitDigest(s) ==
    /\ pc[s] = (IF s \in Wire THEN "verify" ELSE "wait") /\ owner = s
    /\ DigestConfirms(s)
    /\ Goto(s, "ok")
    /\ UNCHANGED <<watch, impatient, edit, list, left, merged>>

Unsettled(s) == \E i \in 1..Len(pending) : pending[i].by = s

\* Seeded fault: the waits have no limit.
GiveUp_Never(s) ==
    /\ pc[s] \in {"wait", "verify"}
    /\ ~Unsettled(s)
    /\ Goto(s, "raised")
    /\ UNCHANGED <<watch, impatient, edit, list, left, merged>>

\* The deadline of a wait passes, or the companion is interrupted.
GiveUp(s) ==
    /\ pc[s] \in {"wait", "verify"}
    /\ s \in impatient \/ ~Unsettled(s)
    /\ Goto(s, "raised")
    /\ UNCHANGED <<watch, impatient, edit, list, left, merged>>

Companion(s) ==
    \/ Connect(s) \/ Raise(s) \/ ReadDigest(s) \/ Select(s) \/ ReadRecord(s)
    \/ NothingToPush(s) \/ Begin(s) \/ Push(s) \/ Commit(s)
    \/ WaitStatus(s) \/ WaitDigest(s) \/ GiveUp(s)

-----------------------------------------------------------------------------
(* The watch.                                                               *)

Lands == /\ Publish
         /\ merged' = merged \cup {Head(pending).by}
         /\ UNCHANGED session

Saves == Persist /\ UNCHANGED <<session, merged>>

\* A companion that has ended has closed its connection.
Disconnected ==
    /\ owner # NoSession
    /\ pc[owner] \notin Connected
    /\ Release
    /\ UNCHANGED <<session, merged>>

Restarts ==
    /\ PowerCut
    /\ merged' = IF durable THEN merged \cup {Head(pending).by} ELSE merged
    /\ UNCHANGED session

Watch == Saves \/ Lands \/ Disconnected \/ Restarts

Next == Watch \/ \E s \in Session : Companion(s)

Spec == Init /\ [][Next]_vars

\* What a program does without an answer: it sees that the connection is gone, a
\* time limit of ptlab passes, or there is nothing to send.
Alone(s) ==
    \/ (Lost(s) \/ TimesOut(s)) /\ Raise(s)
    \/ NothingToPush(s)
    \/ s \in Wire /\ GiveUp(s)

\* Nothing is assumed of the watch and the bridge, which may never answer.
Fairness == \A s \in Session : WF_vars(Alone(s))

FairSpec == Spec /\ Fairness

-----------------------------------------------------------------------------
(* Properties.                                                              *)

\* Of a family that only adds, no companion loses what another one was told is
\* on the watch: not by pulling while a commit lands, by a timeout whose commit
\* lands later, by a failing commit or by a power cut.
ConfirmedSurvives ==
    (\A s \in Session : edit[s].op # "delete") =>
        \A s \in Session : pc[s] = "ok" /\ edit[s].op = "add" =>
            \E i \in 1..Len(live) : live[i] = s

\* A session that is told ok has pushed a list that became live, and as long as
\* nothing else is committed the watch holds exactly that list.
ConfirmedIsLive ==
    \A s \in Session :
        pc[s] = "ok" /\ edit[s].op # "list" =>
            s \in merged /\ (version = s => live = list[s])

\* What wait_family_commit reports as durable is the session's own commit, and
\* it is on flash: no status left by another commit is taken for it.
DurableWhenTold ==
    \A s \in Session :
        pc[s] = "verify" /\ owner = s =>
            s \in merged \/ (durable /\ Head(pending).by = s)

\* Companions that wait for their commits pull the list the watch holds, whole,
\* although they read it record by record.
AdoptsTheWatch ==
    impatient = {} =>
        \A s \in Session : pc[s] = "edit" /\ owner = s => list[s] = live

\* A companion adopts what is on the watch: no record of it twice, although a
\* commit of a session that has left may shorten the list meanwhile.
AdoptsEachRecordOnce ==
    \A s \in Session : pc[s] = "edit" =>
        \A i, j \in 1..Len(list[s]) : list[s][i] = list[s][j] => i = j

\* If companions wait for their commits, sessions are atomic edits of the watch's
\* list, in some order, and none takes effect after its companion has left.
MergesAtomically ==
    /\ impatient = {} => Store!Init
    /\ [][impatient = {} => [Store!Next]_(Store!vars)]_vars

\* Once its connection is gone, a session ends.  One of ptlab that may give up
\* ends whatever the watch and the bridge do; one of companion-cli.mjs, whose
\* requests have no limit, ends if the bridge goes on answering them.
SessionsEnd ==
    \A s \in Session :
        /\ Lost(s) ~> Ended(s)
        /\ s \in Wire \/ WF_vars(Companion(s)) =>
              (s \in impatient /\ pc[s] \in Connected) ~> Ended(s)

=============================================================================
