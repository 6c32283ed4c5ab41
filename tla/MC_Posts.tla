------------------------------ MODULE MC_Posts ------------------------------
(* A few requests to one or two posts, by a user, a moderator, an admin.    *)
EXTENDS Posts, TLC

CONSTANTS q1, q2, q3, q4, author, moderator, admin

MC_Reqs3 == {q1, q2, q3}
MC_Reqs4 == {q1, q2, q3, q4}
MC_Author == {author, moderator}
MC_Users == {author, moderator, admin}
MC_Level == [u \in {author, moderator, admin} |->
                IF u = author THEN 1 ELSE IF u = moderator THEN 2 ELSE 3]
MC_Level2 == [u \in {author, moderator} |-> IF u = author THEN 1 ELSE 2]
Symmetry == Permutations(Reqs)
=============================================================================
