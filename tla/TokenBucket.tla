----------------------------- MODULE TokenBucket -----------------------------
(***************************************************************************)
(* The token bucket of internal/ratelimiter/token-bucket.go, and the       *)
(* limiter of token-bucket-tester.go that keeps one for each client.       *)
(*                                                                         *)
(* The limiter looks the bucket up under the lock of its map and uses it   *)
(* under the lock of the bucket: two steps, with other requests and time   *)
(* in between.  A second has Second ticks, the grain of time.Duration.  The *)
(* rate and the capacity, float64s of the code, are Rate / Grain tokens    *)
(* per second and Capacity / Grain tokens, and a token is Whole units: in  *)
(* a tick a bucket gains as many units as the rate has parts per second.   *)
(* So every fraction the code computes is exact here; its rounding to a    *)
(* float64 is left out.                                                    *)
(***************************************************************************)
EXTENDS History

CONSTANTS Clients,     \* keys of the map
          Reqs,        \* requests that may overlap
          Second,
          Rate,        \* per second, as configured, in parts of a token
          Capacity,    \* as configured, in parts of a token
          Grain,       \* parts of a token
          MaxTime      \* bound on the time

ASSUME TokenClientsAssumption == Clients # {}
ASSUME TokenBucketAssumption ==
    /\ Second \in Nat \ {0} /\ MaxTime \in Nat
    /\ Rate \in Int /\ Capacity \in Int /\ Grain \in Nat \ {0}

VARIABLES now,
          made,        \* clients with a bucket
          tokens,      \* tokens[c]: units in the bucket of c at lastRefill[c]
          lastRefill,
          pc,          \* pc[q]: "idle" or, between the two locks, "take"
          client,      \* client[q]: the bucket q has looked up
          refused,     \* refused[c]: the last answer, if it was a refusal
          since        \* history: since[c][s], requests of c admitted from s on

vars == <<now, made, tokens, lastRefill, pc, client, refused, since>>

\* NewTokenBucketLimiter replaces values that make no sense, by one token.
OneIfNone(x) == IF x > 0 THEN x ELSE Grain

rate == OneIfNone(Rate)
Full == OneIfNone(Capacity) * Second

\* The units of a token.
Whole == Grain * Second

Times == 0..MaxTime
Refusals == [at : Times, after : Nat]
Allowed == [at |-> 0, after |-> 0]

TypeOK ==
    /\ now \in Times
    /\ made \subseteq Clients
    /\ tokens \in [Clients -> 0..Full]
    /\ lastRefill \in [Clients -> Times]
    /\ pc \in [Reqs -> {"idle", "take"}]
    /\ client \in [Reqs -> Clients]
    /\ refused \in [Clients -> Refusals]
    /\ since \in [Clients -> [Times -> Nat]]

Init ==
    /\ now = 0
    /\ made = {}
    /\ tokens = [c \in Clients |-> 0]
    /\ lastRefill = [c \in Clients |-> 0]
    /\ pc = [q \in Reqs |-> "idle"]
    /\ client = [q \in Reqs |-> CHOOSE c \in Clients : TRUE]
    /\ refused = [c \in Clients |-> Allowed]
    /\ since = [c \in Clients |-> [t \in Times |-> 0]]
-----------------------------------------------------------------------------
\* Faulty variant: the bucket is replaced whenever it is looked up.
LookUp_AlwaysNew(q, c) ==
    /\ pc[q] = "idle"
    /\ pc' = [pc EXCEPT ![q] = "take"]
    /\ client' = [client EXCEPT ![q] = c]
    /\ made' = made \cup {c}
    /\ tokens' = [tokens EXCEPT ![c] = Full]
    /\ lastRefill' = [lastRefill EXCEPT ![c] = now]
    /\ UNCHANGED <<now, refused, since>>

\* The first request of a client makes a full bucket.
LookUp(q, c) ==
    /\ pc[q] = "idle"
    /\ pc' = [pc EXCEPT ![q] = "take"]
    /\ client' = [client EXCEPT ![q] = c]
    /\ made' = made \cup {c}
    /\ tokens' = [tokens EXCEPT ![c] = IF c \in made THEN @ ELSE Full]
    /\ lastRefill' = [lastRefill EXCEPT ![c] = IF c \in made THEN @ ELSE now]
    /\ UNCHANGED <<now, refused, since>>

\* Faulty variant: the bucket overflows.
Refilled_NoCapacity(c) == tokens[c] + (now - lastRefill[c]) * rate

Refilled(c) ==
    LET sum == tokens[c] + (now - lastRefill[c]) * rate
    IN  IF sum < Full THEN sum ELSE Full

\* A time that is told is a tick at least.
PositiveOrOne(x) == IF x > 0 THEN x ELSE 1

\* Faulty variant: the time until the bucket is full.
RetryAfter_Full(c) == PositiveOrOne((Full - Refilled(c)) \div rate)

\* The time the missing units take, cut to ticks and never zero.
RetryAfter(c) == PositiveOrOne((Whole - Refilled(c)) \div rate)

Allow(q, c) ==
    /\ Refilled(c) >= Whole
    /\ tokens' = [tokens EXCEPT ![c] = Refilled(c) - Whole]
    /\ refused' = [refused EXCEPT ![c] = Allowed]
    /\ since' = [since EXCEPT ![c] = Recorded(@, now)]

Refuse(q, c) ==
    /\ Refilled(c) < Whole
    /\ tokens' = [tokens EXCEPT ![c] = Refilled(c)]
    /\ refused' = [refused EXCEPT ![c] = [at |-> now, after |-> RetryAfter(c)]]
    /\ UNCHANGED since

\* What happens under the lock of the bucket, the clock being read there too.
Take(q) ==
    /\ pc[q] = "take"
    /\ pc' = [pc EXCEPT ![q] = "idle"]
    /\ lastRefill' = [lastRefill EXCEPT ![client[q]] = now]
    /\ Allow(q, client[q]) \/ Refuse(q, client[q])
    /\ UNCHANGED <<now, made, client>>

Tick ==
    /\ now < MaxTime
    /\ now' = now + 1
    /\ UNCHANGED <<made, tokens, lastRefill, pc, client, refused, since>>

Next ==
    \/ \E q \in Reqs : Take(q) \/ \E c \in Clients : LookUp(q, c)
    \/ Tick

Spec == Init /\ [][Next]_vars
-----------------------------------------------------------------------------
(* Properties                                                              *)

\* Between any moment s and now a client is admitted no more requests than a
\* full bucket holds and the rate has added since, however requests overlap.
RateBound ==
    \A c \in Clients, s \in Times : s <= now =>
        since[c][s] * Whole <= Full + rate * (now - s)

\* The time a refusal tells the client to wait is exact to a tick: an earlier
\* request is refused again, and a later one is admitted if no other request
\* of the client was answered in between.  Excepted is a capacity of less than a
\* token: NewTokenBucketLimiter takes it, and its clients are never admitted.
RetryIsExact ==
    [][\A c \in Clients :
           refused[c].after > 0 /\ refused'[c] # refused[c] =>
               IF refused'[c] = Allowed
               THEN now >= refused[c].at + refused[c].after
               ELSE Full < Whole
                        \/ now <= refused[c].at + refused[c].after]_vars
=============================================================================
