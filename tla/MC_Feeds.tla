------------------------------- MODULE MC_Feeds -------------------------------
(* Three users, four posts on pages of two, and three runs of the seed.     *)
EXTENDS Feeds, TLC

CONSTANTS u1, u2, u3

MC_Users == {u1, u2, u3}
MC_Symmetry == Permutations(Users)

MC_Runs == 1..3

\* A limit that is left out, one too large, and one that is no number: Absent
\* is -1 and NotANumber is -2.
MC_Limits == {-1, -2, 3}
=============================================================================
