------------------------------- MODULE FamilyWatch -------------------------------
(***************************************************************************)
(* The watch as the companions of a family use it through the GATT bridge:  *)
(* one connection at a time, one staged list, commits that are accepted    *)
(* first and carried out later, first on flash and then in the live list.  *)
(* InfiniTime and the bridge are other repositories; everything here is    *)
(* what wire.py, scenarios.py and the companion scripts rely on.           *)
(***************************************************************************)
EXTENDS Naturals, Sequences

CONSTANTS
    Session,     \* one connection of a companion each
    NoSession,   \* no connection; also the version of the first list
    Capacity     \* records the watch can hold

ASSUME WatchAssumption == NoSession \notin Session /\ Capacity \in Nat

VARIABLES
    owner,     \* the connection the bridge serves
    live,      \* the active list
    version,   \* the session whose commit made it
    staged,    \* lists begun and not committed: at most one
    pending,   \* commits accepted and not yet live, oldest first
    durable,   \* the oldest of them is on flash
    status,    \* the characteristic family_state_status
    selected   \* the index that event_read reads

watch == <<owner, live, version, staged, pending, durable, status, selected>>
lists == <<live, version, pending, durable, status>>

\* A version in the protocol is a number of the companion's choice, distinct for
\* distinct pushes (scenarios.py numbers them, companion-cli.mjs draws 32 bits).
Status == [state : {"idle", "succeeded", "failed"}, by : Session \cup {NoSession}]

WatchTypeOK(Record) ==
    /\ owner \in Session \cup {NoSession}
    /\ live \in Seq(Record) /\ Len(live) <= Capacity
    /\ version \in Session \cup {NoSession}
    /\ \A t \in staged : t.count \in 0..Capacity /\ t.list \in Seq(Record)
    /\ pending \in Seq([by : Session, list : Seq(Record)])
    /\ durable \in BOOLEAN /\ (durable => pending # <<>>)
    /\ status \in Status
    /\ selected \in Nat

WatchInit(records) ==
    /\ owner = NoSession
    /\ live = records /\ version = NoSession
    /\ staged = {} /\ pending = <<>> /\ durable = FALSE
    /\ status = [state |-> "idle", by |-> NoSession]
    /\ selected = 0

-----------------------------------------------------------------------------
(* Requests of the connection being served.  Those that are refused change   *)
(* nothing, except that a Begin abandons what was staged before.             *)

\* The bridge keeps its incumbent; a second connection only hears BUSY.
Accept(s) ==
    /\ owner' = IF owner = NoSession THEN s ELSE owner
    /\ UNCHANGED <<lists, staged, selected>>

BeginSync(count) ==
    /\ staged' = IF count <= Capacity THEN {[count |-> count, list |-> <<>>]} ELSE {}
    /\ UNCHANGED <<owner, lists, selected>>

StageRecord(r) ==
    /\ staged' = {[t EXCEPT !.list = Append(@, r)] : t \in staged}
    /\ UNCHANGED <<owner, lists, selected>>

Complete(count) == \E t \in staged : t.count = count /\ Len(t.list) = count

CommitSync(s, count) ==
    /\ IF Complete(count)
       THEN /\ pending' = Append(pending,
                             [by |-> s, list |-> (CHOOSE t \in staged : TRUE).list])
            /\ staged' = {}
       ELSE UNCHANGED <<pending, staged>>
    /\ UNCHANGED <<owner, live, version, durable, status, selected>>

SelectIndex(i) ==
    /\ selected' = IF i < Len(live) THEN i ELSE selected
    /\ UNCHANGED <<owner, lists, staged>>

-----------------------------------------------------------------------------
(* What the watch and the bridge do on their own.                            *)

\* The oldest commit reaches the flash, or fails and is dropped.
Persist ==
    /\ pending # <<>> /\ ~durable
    /\ \/ /\ durable' = TRUE
          /\ status' = [state |-> "succeeded", by |-> Head(pending).by]
          /\ UNCHANGED pending
       \/ /\ pending' = Tail(pending)
          /\ status' = [state |-> "failed", by |-> Head(pending).by]
          /\ UNCHANGED durable
    /\ UNCHANGED <<owner, live, version, staged, selected>>

\* What is on flash becomes the active list.
Publish ==
    /\ durable
    /\ live' = Head(pending).list
    /\ version' = Head(pending).by
    /\ pending' = Tail(pending)
    /\ durable' = FALSE
    /\ UNCHANGED <<owner, staged, status, selected>>

\* The bridge notices that its incumbent is gone.
Release ==
    /\ owner' = NoSession
    /\ staged' = {}
    /\ UNCHANGED <<lists, selected>>

\* SIGKILL and a new start: flash survives, memory and connections do not.
PowerCut ==
    /\ owner' = NoSession
    /\ live' = IF durable THEN Head(pending).list ELSE live
    /\ version' = IF durable THEN Head(pending).by ELSE version
    /\ staged' = {} /\ pending' = <<>> /\ durable' = FALSE
    /\ status' = [state |-> "idle", by |-> NoSession]
    /\ selected' = 0

=============================================================================
