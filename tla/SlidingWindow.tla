---------------------------- MODULE SlidingWindow -----------------------------
(***************************************************************************)
(* The sliding-window limiter of internal/ratelimiter/                     *)
(* sliding-window-tester.go: for each client the requests admitted in the  *)
(* current window and in the one before, the latter weighted by the part   *)
(* of it that a window ending now would still cover.                       *)
(*                                                                         *)
(* Time is in ticks, Interval of them to a window.  The rate, a float64 of *)
(* the code, is Rate / Grain requests per window; a weighted count is in   *)
(* units of 1/Interval of a request.  So every fraction the code computes  *)
(* is exact here; its rounding to a float64 is left out.                   *)
(***************************************************************************)
EXTENDS History

CONSTANTS Clients,     \* keys of the map
          Reqs,        \* requests that may overlap
          Interval,    \* ticks of a window
          Rate,        \* requests per window, in parts of a request
          Grain,       \* parts of a request
          MaxTime      \* bound on the time

\* NewSlidingWindowCounterLimiter replaces a rate or an interval that is not
\* positive before anything uses it.
Parameters ==
    /\ Clients # {}
    /\ Interval \in Nat \ {0} /\ MaxTime \in Nat
    /\ Rate \in Nat \ {0} /\ Grain \in Nat \ {0}

VARIABLES now,
          made,        \* clients with a counter
          counter,     \* counter[c]: the SlidingWindowCounter of c
          pc,          \* pc[q]: "idle" or, between the two locks, "count"
          client,      \* client[q]: the counter q has looked up
          refused,     \* refused[c]: the last answer, if it was a refusal
          since        \* history: since[c][s], requests of c admitted from s on

vars == <<now, made, counter, pc, client, refused, since>>

\* The requests one window admits: the rate, rounded up.
Quota == (Rate + Grain - 1) \div Grain

Times == 0..MaxTime
Refusals == [at : Times, after : Nat]
Allowed == [at |-> 0, after |-> 0]
Counters == [previousCount : 0..Quota, currentCount : 0..Quota,
             windowStart : Times]

TypeOK ==
    /\ now \in Times
    /\ made \subseteq Clients
    /\ counter \in [Clients -> Counters]
    /\ pc \in [Reqs -> {"idle", "count"}]
    /\ client \in [Reqs -> Clients]
    /\ refused \in [Clients -> Refusals]
    /\ since \in [Clients -> [Times -> Nat]]

\* NewSlidingWindowCounter
Fresh(t) == [previousCount |-> 0, currentCount |-> 0, windowStart |-> t]

Init ==
    /\ now = 0
    /\ made = {}
    /\ counter = [c \in Clients |-> Fresh(0)]
    /\ pc = [q \in Reqs |-> "idle"]
    /\ client = [q \in Reqs |-> CHOOSE c \in Clients : TRUE]
    /\ refused = [c \in Clients |-> Allowed]
    /\ since = [c \in Clients |-> [t \in Times |-> 0]]
-----------------------------------------------------------------------------
LookUp(q, c) ==
    /\ pc[q] = "idle"
    /\ pc' = [pc EXCEPT ![q] = "count"]
    /\ client' = [client EXCEPT ![q] = c]
    /\ made' = made \cup {c}
    /\ counter' = [counter EXCEPT ![c] = IF c \in made THEN @ ELSE Fresh(now)]
    /\ UNCHANGED <<now, refused, since>>

\* Faulty variant: what was counted last becomes the previous count, whether
\* or not a whole window went by without a request.
Shifted_NoGap(c) ==
    LET old == counter[c]
        passed == (now - old.windowStart) \div Interval
    IN  IF passed = 0 THEN old
        ELSE [previousCount |-> old.currentCount,
              currentCount |-> 0,
              windowStart |-> old.windowStart + passed * Interval]

\* The counter of c, moved on to the window that now is in.
Shifted(c) ==
    LET old == counter[c]
        passed == (now - old.windowStart) \div Interval
    IN  IF passed = 0 THEN old
        ELSE [previousCount |-> IF passed = 1 THEN old.currentCount ELSE 0,
              currentCount |-> 0,
              windowStart |-> old.windowStart + passed * Interval]

\* Faulty variant: the window before does not count.
Weighted_CurrentOnly(k) == k.currentCount * Interval

Weighted(k) == k.previousCount * (Interval - (now - k.windowStart))
                   + k.currentCount * Interval

\* The window itself is full: no weight of the window before is in the way.
Full(k) == k.currentCount * Grain >= Rate

\* Faulty variant: the time until the window ends, whatever stands in the way.
RetryAfter_WindowEnd(k) == Interval - (now - k.windowStart)

\* The time until the previous count weighs little enough, if it is what
\* stands in the way, else until the window ends; never zero.
RetryAfter(k) ==
    LET elapsed == now - k.windowStart
        weight == k.previousCount * Grain
        needed == (weight - (Rate - k.currentCount * Grain)) * Interval
        ticks == IF k.previousCount > 0 /\ ~Full(k)
                 THEN (needed - elapsed * weight) \div weight
                 ELSE Interval - elapsed
    IN  IF ticks > 0 THEN ticks ELSE 1

UnderRate(k) == Weighted(k) * Grain < Rate * Interval

Allow(c, k) ==
    /\ UnderRate(k)
    /\ counter' = [counter EXCEPT ![c] =
           [k EXCEPT !.currentCount = @ + 1]]
    /\ refused' = [refused EXCEPT ![c] = Allowed]
    /\ since' = [since EXCEPT ![c] = Recorded(@, now)]

Refuse(c, k) ==
    /\ ~UnderRate(k)
    /\ counter' = [counter EXCEPT ![c] = k]
    /\ refused' = [refused EXCEPT ![c] = [at |-> now, after |-> RetryAfter(k)]]
    /\ UNCHANGED since

\* What happens under the lock of the counter, the clock being read there too.
Count(q) ==
    LET c == client[q] IN
    /\ pc[q] = "count"
    /\ pc' = [pc EXCEPT ![q] = "idle"]
    /\ Allow(c, Shifted(c)) \/ Refuse(c, Shifted(c))
    /\ UNCHANGED <<now, made, client>>

Tick ==
    /\ now < MaxTime
    /\ now' = now + 1
    /\ UNCHANGED <<made, counter, pc, client, refused, since>>

Next ==
    \/ \E q \in Reqs : Count(q) \/ \E c \in Clients : LookUp(q, c)
    \/ Tick

Spec == Init /\ [][Next]_vars
-----------------------------------------------------------------------------
(* Properties                                                              *)

\* The two counts are the requests really admitted in the window that starts
\* at windowStart and in the one before it, after idle windows too.
CountersAreTrue ==
    \A c \in Clients :
        LET k == counter[c] IN
        /\ k.currentCount = Within(since[c], k.windowStart, Interval)
        /\ k.previousCount =
               Within(since[c], k.windowStart - Interval, Interval)

\* What the weighting buys over a fixed window, which lets through twice the
\* rate at once: in any n ticks, wherever they start, a client is admitted
\* less than the rate, its share of those ticks, and one request more, the rate
\* being rounded up.
BurstBound ==
    \A c \in Clients, s \in Times, n \in 1..Interval :
        Within(since[c], s, n) * Interval
            < (Quota + 1) * Interval + Quota * (n - 1)

\* The ticks a full window stands in the way of the next one: it counts as the
\* previous window there, and is more than the rate by what was rounded up.
Overhang == ((Quota * Grain - Rate) * Interval) \div (Quota * Grain)

\* The time a refusal tells the client to wait is exact to a tick: an earlier
\* request is refused again, and a later one is admitted if no other request
\* of the client was answered in between.  Excepted is a rate that is not whole:
\* a client that is told to wait for the end of a full window is refused there
\* again, until the count of that window has come down to the rate.
RetryIsExact ==
    [][\A c \in Clients :
           refused[c].after > 0 /\ refused'[c] # refused[c] =>
               LET told == refused[c].at + refused[c].after IN
               IF refused'[c] = Allowed THEN now >= told
               ELSE now <= told + IF Full(counter[c]) THEN Overhang ELSE 0]_vars
=============================================================================
