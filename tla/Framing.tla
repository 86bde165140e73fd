--------------------------------- MODULE Framing ---------------------------------
(***************************************************************************)
(* What a parser of a byte stream owes its caller, however recv cuts the   *)
(* stream: the items sent, whole, once each and in order, until one of them *)
(* is unacceptable.  The parser may then fail, and lose acceptable items   *)
(* that stand before it in the same chunk; after that nothing is promised. *)
(***************************************************************************)
EXTENDS Naturals, Sequences

VARIABLES
    sent,    \* items written by the peer: [id, good]
    got,     \* items handed to the caller: [id, whole]
    broken   \* the parser has raised

vars == <<sent, got, broken>>

Whole(items) == [i \in DOMAIN items |-> [id |-> items[i].id, whole |-> TRUE]]

Init == sent = <<>> /\ got = <<>> /\ ~broken

Write ==
    /\ Len(sent') = Len(sent) + 1
    /\ SubSeq(sent', 1, Len(sent)) = sent
    /\ UNCHANGED <<got, broken>>

Deliver ==
    /\ ~broken
    /\ \E n \in Len(got) + 1..Len(sent) :
          LET next == SubSeq(sent, Len(got) + 1, n)
          IN  /\ \A i \in DOMAIN next : next[i].good
              /\ got' = got \o Whole(next)
    /\ UNCHANGED <<sent, broken>>

Break ==
    /\ ~broken /\ broken'
    /\ \E i \in Len(got) + 1..Len(sent) : ~sent[i].good
    /\ UNCHANGED <<sent, got>>

Garbled == broken /\ broken' /\ UNCHANGED sent

\* A new connection, with a new parser.
Reopen == sent' = <<>> /\ got' = <<>> /\ ~broken'

Next == Reopen \/ Write \/ Deliver \/ Break \/ Garbled

Spec == Init /\ [][Next]_vars

=============================================================================
