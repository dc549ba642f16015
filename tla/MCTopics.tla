------------------------------ MODULE MCTopics ------------------------------
(* Small instance of Topics, with all of Discussion. *)
EXTENDS Topics, TLC

CONSTANTS r1, r2, u1, u2, t1, t2, d1

\* Requests, users and topics are interchangeable.
Symmetry == Permutations(Requests) \cup Permutations(Users) \cup Permutations(Topics)

=============================================================================
