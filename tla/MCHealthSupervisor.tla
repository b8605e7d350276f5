------------------------- MODULE MCHealthSupervisor -------------------------
(***************************************************************************)
(* HealthSupervisor with finite constants: the configuration gives them.   *)
(***************************************************************************)
EXTENDS HealthSupervisor
=============================================================================
