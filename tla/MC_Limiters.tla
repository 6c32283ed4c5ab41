----------------------------- MODULE MC_Limiters ------------------------------
(* One client and two requests that overlap; the counters of clients are    *)
(* independent.                                                             *)
EXTENDS Limiters, TLC

CONSTANTS c1, q1, q2

MC_Clients == {c1}
MC_Reqs == {q1, q2}
Symmetry == Permutations(Reqs)
=============================================================================
