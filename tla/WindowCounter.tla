---------------------------- MODULE WindowCounter -----------------------------
(***************************************************************************)
(* FixedWindowCounter of internal/ratelimiter/fixed-window-counter.go.     *)
(* Allow is one step, under the mutex of the counter.  Nothing resets the  *)
(* window but the next call: windows start anywhere.                       *)
(***************************************************************************)
EXTENDS History

CONSTANTS Interval,    \* ticks of a window
          Rate,        \* requests per window
          MaxTime      \* bound on the time

\* What the constants are taken to be.
Parameters ==
    Interval \in Nat \ {0} /\ Rate \in Nat /\ MaxTime \in Nat

VARIABLES now, count, windowStart,
          allowed,     \* the answer of the last Allow
          since        \* history: since[s], requests admitted from s on

vars == <<now, count, windowStart, allowed, since>>

Times == 0..MaxTime

TypeOK ==
    /\ now \in Times /\ count \in 0..Rate /\ windowStart \in Times
    /\ allowed \in BOOLEAN /\ since \in [Times -> Nat]

\* NewFixedWindowCounter
Init ==
    /\ now = 0 /\ count = 0 /\ windowStart = 0
    /\ allowed = TRUE /\ since = [t \in Times |-> 0]

Over == now - windowStart >= Interval

Start == IF Over THEN now ELSE windowStart

\* Faulty variant: a window that is over still counts.
UnderRate_Stale == count < Rate

\* The count before the call, which starts a window when one is over.
UnderRate == (Over /\ Rate > 0) \/ count < Rate

Allow ==
    /\ windowStart' = Start
    /\ count' = (IF Over THEN 0 ELSE count) + (IF UnderRate THEN 1 ELSE 0)
    /\ allowed' = UnderRate
    /\ since' = IF UnderRate THEN Recorded(since, now) ELSE since
    /\ UNCHANGED now

Tick ==
    /\ now < MaxTime /\ now' = now + 1
    /\ UNCHANGED <<count, windowStart, allowed, since>>

Next == Allow \/ Tick

Spec == Init /\ [][Next]_vars
-----------------------------------------------------------------------------
\* Allow of FixedWindowCounter: a span of n ticks gets the requests of the
\* windows it can meet, wherever they started.
BurstBound ==
    \A s \in Times, n \in 1..(2 * Interval) :
        Within(since, s, n) <= Rate * (2 + (n - 1) \div Interval)

\* Allow of FixedWindowCounter refuses only for a whole quota that it admitted
\* within the last Interval ticks, never for a window long over.
RefusalIsOwed ==
    [][~allowed' /\ now' = now =>
           Within(since, now - Interval + 1, Interval) >= Rate]_vars
=============================================================================
