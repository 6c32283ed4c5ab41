------------------------------ MODULE MC_Client -------------------------------
(* Small instances of the parts of the web client.                          *)
EXTENDS Client, TLC

CONSTANTS me, u1, u2, i1, i2, none,
          r1, r2       \* requests that overlap, two buttons, or two windows

MC_Requests == {r1, r2}
MC_Users == {u1, u2}
MC_Authors == {me, u1, u2}
MC_Items == {i1, i2}
Symmetry == Permutations(MC_Requests)

\* A query without a post, one whose last page is full, one whose last is not.
MC_Total == [empty |-> 0, full |-> 4, odd |-> 5]

\* The first query does not matter, and would only multiply the other parts, as
\* would the users followed in earlier sessions.
MC_Init ==
    /\ ClientInit /\ asked.query = "odd"
    /\ part = "follow" \/ following = {}
MC_Spec ==
    /\ MC_Init
    /\ [][ClientNext]_<<part, vars, follow, like, session, search, pages,
                        details>>
=============================================================================
