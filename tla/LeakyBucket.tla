----------------------------- MODULE LeakyBucket ------------------------------
(***************************************************************************)
(* The leaky bucket of internal/ratelimiter/leaky-bucket.go, and the       *)
(* limiter of leaky-bucket-tester.go that keeps one for each client.       *)
(*                                                                         *)
(* Time and units are those of TokenBucket: a second has Second ticks, and *)
(* a tick drains as many units as the rate has parts per second.  Here a   *)
(* bucket starts empty, a request is admitted when there is any room at    *)
(* all, and it adds a whole request of water.                              *)
(***************************************************************************)
EXTENDS History

CONSTANTS Clients,     \* keys of the map
          Reqs,        \* requests that may overlap
          Second,
          Rate,        \* drained per second, as configured, in its parts
          Capacity,    \* as configured, in parts of a request
          Grain,       \* parts of a request
          MaxTime      \* bound on the time

\* What the constants are taken to be.
Parameters ==
    /\ Clients # {}
    /\ Second \in Nat \ {0} /\ MaxTime \in Nat
    /\ Rate \in Int /\ Capacity \in Int /\ Grain \in Nat \ {0}

VARIABLES now,
          water,       \* water[c]: units in the bucket of c at lastLeak[c]
          lastLeak,
          made,        \* clients with a bucket
          pc,          \* pc[q]: "idle" or, between the two locks, "pour"
          client,      \* client[q]: the bucket q has looked up
          refused,     \* refused[c]: the last answer, if it was a refusal
          since        \* history: since[c][s], requests of c admitted from s on

vars == <<now, water, lastLeak, made, pc, client, refused, since>>

\* NewLeakyBucketLimiter replaces values that make no sense, by one request.
OneIfNone(x) == IF x > 0 THEN x ELSE Grain

rate == OneIfNone(Rate)
Brim == OneIfNone(Capacity) * Second

\* The units of a request.
Whole == Grain * Second

Times == 0..MaxTime
Refusals == [at : Times, after : Nat]
Allowed == [at |-> 0, after |-> 0]

TypeOK ==
    /\ now \in Times
    /\ water \in [Clients -> 0..(Brim + Whole - 1)]
    /\ lastLeak \in [Clients -> Times]
    /\ made \subseteq Clients
    /\ pc \in [Reqs -> {"idle", "pour"}]
    /\ client \in [Reqs -> Clients]
    /\ refused \in [Clients -> Refusals]
    /\ since \in [Clients -> [Times -> Nat]]

Init ==
    /\ now = 0
    /\ water = [c \in Clients |-> 0]
    /\ lastLeak = [c \in Clients |-> 0]
    /\ made = {}
    /\ pc = [q \in Reqs |-> "idle"]
    /\ client = [q \in Reqs |-> CHOOSE c \in Clients : TRUE]
    /\ refused = [c \in Clients |-> Allowed]
    /\ since = [c \in Clients |-> [t \in Times |-> 0]]
-----------------------------------------------------------------------------
\* The first request of a client makes an empty bucket.
LookUp(q, c) ==
    /\ pc[q] = "idle"
    /\ pc' = [pc EXCEPT ![q] = "pour"]
    /\ client' = [client EXCEPT ![q] = c]
    /\ made' = made \cup {c}
    /\ lastLeak' = [lastLeak EXCEPT ![c] = IF c \in made THEN @ ELSE now]
    /\ UNCHANGED <<now, water, refused, since>>

\* The water left in the bucket of c.
Left(c) ==
    LET rest == water[c] - (now - lastLeak[c]) * rate
    IN  IF rest > 0 THEN rest ELSE 0

\* A time that is told is a tick at least.
PositiveOrOne(x) == IF x > 0 THEN x ELSE 1

\* Faulty variant: the time until the bucket is empty.
RetryAfter_Empty(c) == PositiveOrOne(Left(c) \div rate)

\* The time the water above the brim takes, cut to ticks and never zero.
RetryAfter(c) == PositiveOrOne((Left(c) - Brim) \div rate)

\* Faulty variant: the test of the room lets a full bucket take one more.
Allow_WhenFull(q, c) ==
    /\ Left(c) <= Brim
    /\ water' = [water EXCEPT ![c] = Left(c) + Whole]
    /\ refused' = [refused EXCEPT ![c] = Allowed]
    /\ since' = [since EXCEPT ![c] = Recorded(@, now)]

Allow(q, c) ==
    /\ Left(c) < Brim
    /\ water' = [water EXCEPT ![c] = Left(c) + Whole]
    /\ refused' = [refused EXCEPT ![c] = Allowed]
    /\ since' = [since EXCEPT ![c] = Recorded(@, now)]

Refuse(q, c) ==
    /\ Left(c) >= Brim
    /\ water' = [water EXCEPT ![c] = Left(c)]
    /\ refused' = [refused EXCEPT ![c] = [at |-> now, after |-> RetryAfter(c)]]
    /\ UNCHANGED since

\* What happens under the lock of the bucket, the clock being read there too.
Pour(q) ==
    /\ pc[q] = "pour"
    /\ pc' = [pc EXCEPT ![q] = "idle"]
    /\ lastLeak' = [lastLeak EXCEPT ![client[q]] = now]
    /\ Allow(q, client[q]) \/ Refuse(q, client[q])
    /\ UNCHANGED <<now, made, client>>

Tick ==
    /\ now < MaxTime
    /\ now' = now + 1
    /\ UNCHANGED <<water, lastLeak, made, pc, client, refused, since>>

Next ==
    \/ \E q \in Reqs : Pour(q) \/ \E c \in Clients : LookUp(q, c)
    \/ Tick

Spec == Init /\ [][Next]_vars
-----------------------------------------------------------------------------
(* Properties                                                              *)

\* Between any moment s and now a client is admitted no more than what fits
\* into an empty bucket, almost a request more than its capacity, and what has
\* drained since.
RateBound ==
    \A c \in Clients, s \in Times : s <= now =>
        since[c][s] * Whole <= Brim + (Whole - 1) + rate * (now - s)

\* The time a refusal tells the client to wait is exact to a tick: an earlier
\* request is refused again, and a later one is admitted if no other request
\* of the client was answered in between.
RetryIsExact ==
    [][\A c \in Clients :
           refused[c].after > 0 /\ refused'[c] # refused[c] =>
               IF refused'[c] = Allowed
               THEN now >= refused[c].at + refused[c].after
               ELSE now <= refused[c].at + refused[c].after]_vars
=============================================================================
