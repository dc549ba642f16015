--------------------------- MODULE MCVerification ---------------------------
(* Verification for TLC; requests are interchangeable.                     *)
EXTENDS Verification, TLC

Symmetry == Permutations(Requests)

=============================================================================
