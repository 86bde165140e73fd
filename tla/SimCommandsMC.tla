----------------------------- MODULE SimCommandsMC -----------------------------
(* SimCommands on a small instance.                                         *)
EXTENDS SimCommands, TLC

CONSTANTS c1, c2, p1, p2, p3

\* Commands differ in nothing but their name, and so do pids.
Symmetry == Permutations({c1, c2}) \cup Permutations({p1, p2, p3})

=============================================================================
