-------------------------- MODULE MCEventDelivery --------------------------
(***************************************************************************)
(* EventDelivery with finite constants: the configurations give them all.  *)
(***************************************************************************)
EXTENDS EventDelivery
=============================================================================
