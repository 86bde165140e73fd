------------------------------ MODULE AcceptanceMC ------------------------------
(* Acceptance on small plans.                                               *)
EXTENDS Acceptance, TLC

CONSTANTS l1, l2, f1, hci0, hci1

\* Two adapters and a phone; the first adapter is tried twice.
FamilyAdapters == (l1 :> hci0) @@ (l2 :> hci1)
FamilySequence == <<l1, f1, l2, l1>>

\* Two peers of one adapter, which one of them does not name.
AliasAdapters == (l1 :> NoAdapter) @@ (l2 :> hci0)
AliasSequence == <<l1, l2, l1>>

=============================================================================
