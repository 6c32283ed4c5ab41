-------------------------- MODULE MC_Authentication --------------------------
(* A user, three requests, and time for an entry to be stored and expire.   *)
EXTENDS Authentication, TLC

CONSTANTS u1, q1, q2, q3

MC_Users == {u1}
MC_Reqs == {q1, q2, q3}
Symmetry == Permutations(Reqs)
=============================================================================
