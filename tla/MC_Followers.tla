---------------------------- MODULE MC_Followers ----------------------------
(* Users, some of whom have no account yet.                                 *)
EXTENDS Followers, TLC

CONSTANTS u1, u2, u3

MC_Users == {u1, u2, u3}
MC_Symmetry == Permutations(Users)
=============================================================================
