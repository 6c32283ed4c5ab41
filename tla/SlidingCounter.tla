---------------------------- MODULE SlidingCounter ----------------------------
(***************************************************************************)
(* The SlidingWindowCounter of internal/ratelimiter/sliding-window.go used *)
(* on its own, through its Allow.  All of Allow runs under the mutex of    *)
(* the counter and is one step.  Unlike the limiter of SlidingWindow it    *)
(* starts a window when it is called, adds to previousCount rather than    *)
(* replacing it, and weighs with the time elapsed in the window it left.   *)
(*                                                                         *)
(* Ticks, the rate and the units of a weighted count are those of          *)
(* SlidingWindow.                                                          *)
(***************************************************************************)
EXTENDS History

CONSTANTS Interval,    \* ticks of a window
          Rate,        \* requests per window, in parts of a request
          Grain,       \* parts of a request
          MaxTime      \* bound on the time

\* What the constants are taken to be; a negative rate refuses all, as 0 does.
Parameters ==
    /\ Interval \in Nat \ {0} /\ MaxTime \in Nat
    /\ Rate \in Nat /\ Grain \in Nat \ {0}

VARIABLES now, previousCount, currentCount, windowStart,
          allowed,     \* the answer of the last Allow
          since        \* history: since[s], requests admitted from s on

vars == <<now, previousCount, currentCount, windowStart, allowed, since>>

\* The requests one window admits: the rate, rounded up.
Quota == (Rate + Grain - 1) \div Grain

Times == 0..MaxTime

TypeOK ==
    /\ now \in Times
    /\ previousCount \in Nat
    /\ currentCount \in 0..Quota
    /\ windowStart \in Times
    /\ allowed \in BOOLEAN
    /\ since \in [Times -> Nat]

\* NewSlidingWindowCounter
Init ==
    /\ now = 0
    /\ previousCount = 0
    /\ currentCount = 0
    /\ windowStart = 0
    /\ allowed = TRUE
    /\ since = [t \in Times |-> 0]
-----------------------------------------------------------------------------
elapsed == now - windowStart

Shifts == elapsed >= Interval

\* The requests of this window before the call.
current == IF Shifts THEN 0 ELSE currentCount

\* Faulty variant: the time elapsed is read again after the shift.
Weighted_Fresh ==
    LET fresh == IF Shifts THEN 0 ELSE elapsed
        sum == (IF Shifts THEN previousCount + currentCount ELSE previousCount)
                   * (Interval - fresh) + current * Interval
    IN  IF sum > 0 THEN sum ELSE 0

\* elapsed is read before the shift and used after it.
Weighted ==
    LET sum == (IF Shifts THEN previousCount + currentCount ELSE previousCount)
                   * (Interval - elapsed) + current * Interval
    IN  IF sum > 0 THEN sum ELSE 0

UnderRate == Weighted * Grain < Rate * Interval

Allow ==
    /\ previousCount' = IF Shifts THEN previousCount + currentCount
                        ELSE previousCount
    /\ windowStart' = IF Shifts THEN now ELSE windowStart
    /\ currentCount' = IF UnderRate THEN current + 1 ELSE current
    /\ allowed' = UnderRate
    /\ since' = IF UnderRate THEN Recorded(since, now) ELSE since
    /\ UNCHANGED now

Tick ==
    /\ now < MaxTime
    /\ now' = now + 1
    /\ UNCHANGED <<previousCount, currentCount, windowStart, allowed, since>>

Next == Allow \/ Tick

Spec == Init /\ [][Next]_vars
-----------------------------------------------------------------------------
(* Properties                                                              *)

\* In any n ticks, wherever they start, the counter admits less than the rate,
\* its share of those ticks, and one request more, the rate being rounded up.
BurstBound ==
    \A s \in Times, n \in 1..Interval :
        Within(since, s, n) * Interval
            < (Quota + 1) * Interval + Quota * (n - 1)

\* However much previousCount has grown, the counter never refuses a request
\* when it has admitted none in the last Interval ticks: the time elapsed,
\* stale as it is when the window shifts, is what admits the first one.
NeverLockedOut ==
    [][Rate > 0 /\ ~allowed' /\ now' = now =>
           Within(since, now - Interval + 1, Interval) > 0]_vars
=============================================================================
