------------------------------- MODULE FamilyStore -------------------------------
(***************************************************************************)
(* What a family of companions may expect of the watch: each session's edit *)
(* is merged into whatever the watch holds at that moment, all at once, at *)
(* most once, never after the companion was told how its session ended; a  *)
(* session that is told "ok" was merged.                                    *)
(***************************************************************************)
EXTENDS Naturals, Sequences

CONSTANT Session   \* one run of a companion each

VARIABLES
    edit,     \* what each session wants: [op, record]
    store,    \* the records on the watch
    merged,   \* sessions whose edit has been merged
    told      \* what each session was told: nothing yet, ok or raised

vars == <<edit, store, merged, told>>

\* What a filter keeps: the records that are not this one.
Without(record, records) ==
    LET kept[n \in 0..Len(records)] ==
            IF n = 0 THEN <<>>
            ELSE IF records[n] = record THEN kept[n - 1] ELSE Append(kept[n - 1], records[n])
    IN  kept[Len(records)]

\* An edit of a list of records: append, remove, or leave alone.
Apply(e, records) ==
    CASE e.op = "add"    -> Append(records, e.record)
      [] e.op = "delete" -> Without(e.record, records)
      [] e.op = "list"   -> records

Init ==
    /\ merged = {}
    /\ told = [s \in Session |-> "nothing"]

Merge(s) ==
    /\ s \notin merged
    /\ told[s] = "nothing"
    /\ store' = Apply(edit[s], store)
    /\ merged' = merged \cup {s}
    /\ UNCHANGED <<edit, told>>

Tell(s) ==
    /\ told[s] = "nothing"
    /\ \E verdict \in {"ok", "raised"} :
          /\ verdict = "ok" => s \in merged \/ edit[s].op = "list"
          /\ told' = [told EXCEPT ![s] = verdict]
    /\ UNCHANGED <<edit, store, merged>>

Next == \E s \in Session : Merge(s) \/ Tell(s)

Spec == Init /\ [][Next]_vars

=============================================================================
