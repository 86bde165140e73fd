------------------------------- MODULE HardwareMC -------------------------------
(* The hardware commands, acceptance on the small plans of AcceptanceMC.     *)
EXTENDS Hardware, AcceptanceMC

=============================================================================
