--------------------------- MODULE MCEventDelivery ---------------------------
(* Instance of EventDelivery for TLC. *)
EXTENDS EventDelivery
=============================================================================
