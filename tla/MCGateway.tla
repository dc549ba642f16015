------------------------------ MODULE MCGateway ------------------------------
(* Instance of Gateway for TLC. *)
EXTENDS Gateway
=============================================================================
