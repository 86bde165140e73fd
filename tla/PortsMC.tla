--------------------------------- MODULE PortsMC ---------------------------------
(* Two runs, and one port more than a run needs. *)
EXTENDS Ports, TLC

CONSTANTS r1, r2, p1, p2, p3

RunMC == {r1, r2}
PortMC == {p1, p2, p3}
Symmetry == Permutations(RunMC) \cup Permutations(PortMC)

=============================================================================
