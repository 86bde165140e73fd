------------------------------ MODULE FamilySyncMC ------------------------------
(* Small instances of FamilySync: sessions a and b of ptlab, c of the CLI.   *)
EXTENDS FamilySync, TLC

CONSTANTS a, b, c

SessionMC == {a, b, c}
WireMC == {a, b}
OnlyA == {a}
Pair == {a, c}
SeededOne == <<"x">>
SeededTwo == <<"x", "y">>
AllOrNone == {{}, Session}
OnlyAMayLeave == {{a}}
EditOps == (a :> {"add"}) @@ (b :> {"add", "list"}) @@ (c :> {"add", "delete"})
PairOps == (a :> {"add", "delete"}) @@ (c :> {"add", "delete"})

=============================================================================
