-------------------------- MODULE MCModerationDesk --------------------------
(* Instance of ModerationDesk for TLC; no symmetry, as liveness is checked. *)
EXTENDS ModerationDesk
=============================================================================
