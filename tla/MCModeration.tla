---------------------------- MODULE MCModeration ----------------------------
(* Instance of Moderation for TLC: the requests are interchangeable.       *)
EXTENDS Moderation, TLC

Symmetry == Permutations(Requests)
=============================================================================
