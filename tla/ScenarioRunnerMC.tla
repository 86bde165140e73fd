---------------------------- MODULE ScenarioRunnerMC ----------------------------
(* ScenarioRunner on a small instance.                                      *)
EXTENDS ScenarioRunner

CONSTANTS r, p1, p2

=============================================================================
