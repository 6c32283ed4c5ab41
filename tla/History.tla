------------------------------- MODULE History --------------------------------
(***************************************************************************)
(* What the models of the limiters remember of the requests they admitted: *)
(* h[t] is the number of those admitted at time t or later.                *)
(***************************************************************************)
EXTENDS Integers

\* One more request, at time t.
Recorded(h, t) == [s \in DOMAIN h |-> IF s <= t THEN h[s] + 1 ELSE h[s]]

\* The number of requests from s on; times begin with 0.
FromOn(h, s) == IF s < 0 THEN h[0] ELSE IF s \in DOMAIN h THEN h[s] ELSE 0

\* The number of requests in the n units of time from s on.
Within(h, s, n) == FromOn(h, s) - FromOn(h, s + n)
=============================================================================
