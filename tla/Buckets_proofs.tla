---------------------------- MODULE Buckets_proofs ----------------------------
(***************************************************************************)
(* The token bucket and the leaky bucket, for any clients, requests, rate, *)
(* capacity and grain of time.                                             *)
(***************************************************************************)
EXTENDS Limiters, TLAPS

(***************************************************************************)
(* TokenBucketAllow.                                                       *)
(***************************************************************************)

\* What is spent from any moment on was in the bucket or came in since, up to
\* the last time the bucket was used; nothing was spent after that.
Balance ==
    \A c \in Clients, s \in Times :
        IF s <= lastRefill[c]
        THEN since[c][s] * Whole + tokens[c]
                 <= Full + rate * (lastRefill[c] - s)
        ELSE since[c][s] = 0

\* A refusal is told the time that is missing in the bucket as it was left.
RefusalKnown ==
    \A c \in Clients :
        refused[c].after > 0 =>
            /\ refused[c].at = lastRefill[c] /\ tokens[c] < Whole
            /\ refused[c].after = PositiveOrOne((Whole - tokens[c]) \div rate)

\* A bucket that is in use was made, and one that was not made was never used.
Made ==
    /\ \A q \in Reqs : pc[q] = "take" => client[q] \in made
    /\ \A c \in Clients \ made :
           refused[c].after = 0 /\ \A s \in Times : since[c][s] = 0

IInv ==
    /\ TypeOK
    /\ \A c \in Clients : lastRefill[c] <= now
    /\ Made
    /\ Balance
    /\ RefusalKnown

\* A bucket holds something, though perhaps less than a token.
LEMMA ConstantsType ==
    /\ rate \in Nat \ {0} /\ Full \in Nat \ {0} /\ Whole \in Nat \ {0}
    /\ \A x \in Int : OneIfNone(x) \in Nat \ {0}
<1>1. \A x \in Int : OneIfNone(x) \in Nat \ {0}
  BY TokenBucketAssumption DEF OneIfNone
<1>2. \A n, s \in Nat \ {0} : n * s \in Nat \ {0}
  OBVIOUS
<1> QED
  BY <1>1, <1>2, TokenBucketAssumption DEF rate, Full, Whole

\* What the quotient of a waiting time, made positive, bounds in both
\* directions.
LEMMA Quotient ==
    ASSUME NEW a \in Nat, NEW r \in Nat \ {0}, NEW d \in Nat
    PROVE  /\ PositiveOrOne(a \div r) \in Nat \ {0}
           /\ d * r >= a /\ d > 0 => d >= PositiveOrOne(a \div r)
           /\ d * r <= a => d <= PositiveOrOne(a \div r)
<1> DEFINE n == a \div r
<1>1. n \in Int /\ n * r <= a /\ a < n * r + r
  OBVIOUS
<1> HIDE DEF n
<1>2. n >= 0
  <2>1. SUFFICES ASSUME n <= -1 PROVE FALSE
    BY <1>1
  <2>2. n * r <= (-1) * r
    BY <1>1, <2>1
  <2> QED
    BY <1>1, <2>2
<1>3. d * r >= a => d >= n
  <2>1. SUFFICES ASSUME d * r >= a, d < n PROVE FALSE
    BY <1>1
  <2>2. CASE n = d + 1
    <3>1. n * r = d * r + r
      BY <2>2
    <3> QED
      BY <1>1, <2>1, <3>1
  <2>3. CASE n > d + 1
    <3>1. (d + 1) * r < n * r
      BY <1>1, <2>3
    <3> QED
      BY <1>1, <2>1, <3>1
  <2> QED
    BY <1>1, <2>1, <2>2, <2>3
<1>4. d * r <= a => d <= n
  <2>1. SUFFICES ASSUME d * r <= a, n + 1 <= d PROVE FALSE
    BY <1>1
  <2>2. (n + 1) * r <= d * r
    BY <1>1, <2>1
  <2> QED
    BY <1>1, <2>1, <2>2
<1> QED
  BY <1>1, <1>2, <1>3, <1>4 DEF PositiveOrOne, n

\* A bucket never gains more than the rate, and never more than fits.
LEMMA RefilledType ==
    ASSUME TypeOK, NEW c \in Clients, lastRefill[c] <= now
    PROVE  /\ Refilled(c) \in 0..Full
           /\ Refilled(c) <= tokens[c] + (now - lastRefill[c]) * rate
           /\ Refilled(c) < Whole /\ Whole <= Full
                  => Refilled(c) = tokens[c] + (now - lastRefill[c]) * rate
           /\ Refilled(c) >= Whole
                  => tokens[c] + (now - lastRefill[c]) * rate >= Whole
<1>1. tokens[c] \in 0..Full /\ now \in Nat /\ lastRefill[c] \in Nat
  BY TokenBucketAssumption DEF TypeOK, Times
<1>2. (now - lastRefill[c]) * rate \in Nat
  <2>1. \A m, n \in Nat : m * n \in Nat
    OBVIOUS
  <2> QED
    BY <1>1, <2>1, ConstantsType
<1> QED
  BY <1>1, <1>2, ConstantsType, TokenBucketAssumption DEF Refilled

\* Initially no bucket was made.
LEMMA InitIInv == Init => IInv
<1> SUFFICES ASSUME Init PROVE IInv
  OBVIOUS
<1>1. 0 \in Times /\ Times \subseteq Nat
  BY TokenBucketAssumption DEF Times
<1>2. (CHOOSE c \in Clients : TRUE) \in Clients
  BY TokenClientsAssumption
<1>3. TypeOK
  <2>1. 0 \in 0..Full /\ Allowed \in Refusals
    BY <1>1, ConstantsType DEF Refusals, Allowed
  <2> QED
    BY <1>1, <1>2, <2>1 DEF Init, TypeOK
<1>4. Balance
  <2> SUFFICES ASSUME NEW c \in Clients, NEW s \in Times
               PROVE  IF s <= lastRefill[c]
                      THEN since[c][s] * Whole + tokens[c]
                               <= Full + rate * (lastRefill[c] - s)
                      ELSE since[c][s] = 0
    BY DEF Balance
  <2>1. s <= 0 => s = 0
    BY <1>1
  <2>2. 0 * Whole + 0 <= Full + rate * (0 - 0)
    BY ConstantsType, TokenBucketAssumption
  <2> QED
    BY <2>1, <2>2 DEF Init
<1> QED
  BY <1>1, <1>3, <1>4 DEF Init, IInv, Made, RefusalKnown, Allowed

\* A look-up makes a full bucket, or changes none.
LEMMA LookUpIInv ==
    ASSUME IInv, NEW q \in Reqs, NEW c \in Clients, LookUp(q, c)
    PROVE  IInv'
<1> USE DEF IInv
<1>1. now \in Times /\ Times \subseteq Nat /\ Full \in Nat
  BY TokenBucketAssumption, ConstantsType DEF TypeOK, Times
<1>2. TypeOK'
  BY <1>1 DEF LookUp, TypeOK
<1>3. \A d \in Clients : lastRefill'[d] <= now'
  BY <1>1 DEF LookUp, TypeOK
<1>4. Made'
  BY DEF LookUp, Made, TypeOK
<1>5. ASSUME NEW d \in Clients, d = c, c \notin made
      PROVE  tokens'[d] = Full /\ lastRefill'[d] = now
  BY <1>5 DEF LookUp, TypeOK
<1>6. ASSUME NEW d \in Clients, ~(d = c /\ c \notin made)
      PROVE  tokens'[d] = tokens[d] /\ lastRefill'[d] = lastRefill[d]
  BY <1>6 DEF LookUp, TypeOK
<1>7. Balance'
  <2> SUFFICES ASSUME NEW d \in Clients, NEW s \in Times
               PROVE  IF s <= lastRefill'[d]
                      THEN since'[d][s] * Whole + tokens'[d]
                               <= Full + rate * (lastRefill'[d] - s)
                      ELSE since'[d][s] = 0
    BY DEF Balance
  <2>0. since' = since
    BY DEF LookUp
  <2>1. CASE d = c /\ c \notin made
    <3>1. since[d][s] = 0
      BY <2>1 DEF Made
    <3>2. s <= now => 0 * Whole + Full <= Full + rate * (now - s)
      <4>1. \A m \in Nat : rate * m \in Nat
        BY ConstantsType
      <4> QED
        BY <4>1, <1>1, TokenBucketAssumption, ConstantsType
    <3> QED
      BY <2>0, <2>1, <3>1, <3>2, <1>5
  <2>2. CASE ~(d = c /\ c \notin made)
    BY <2>0, <2>2, <1>6 DEF Balance
  <2> QED
    BY <2>1, <2>2
<1>8. RefusalKnown'
  <2> SUFFICES ASSUME NEW d \in Clients, refused'[d].after > 0
               PROVE  /\ refused'[d].at = lastRefill'[d] /\ tokens'[d] < Whole
                      /\ refused'[d].after
                             = PositiveOrOne((Whole - tokens'[d]) \div rate)
    BY DEF RefusalKnown
  <2>1. refused' = refused
    BY DEF LookUp
  <2>2. d \in made
    BY <2>1, 0 # 1 DEF Made
  <2> QED
    BY <2>1, <2>2, <1>6 DEF RefusalKnown
<1> QED
  BY <1>2, <1>3, <1>4, <1>7, <1>8

\* What one request does to its bucket, admitted or not.
LEMMA TakeIInv ==
    ASSUME IInv, NEW q \in Reqs, Take(q)
    PROVE  IInv'
<1> DEFINE c == client[q]
<1> USE DEF IInv
<1>1. c \in Clients /\ c \in made
  BY DEF Take, TypeOK, Made
<1>2. /\ now \in Times /\ Times \subseteq Nat /\ Full \in Nat /\ Whole \in Nat
      /\ now' = now /\ made' = made /\ client' = client
      /\ lastRefill' = [lastRefill EXCEPT ![c] = now]
      /\ pc' = [pc EXCEPT ![q] = "idle"]
  BY TokenBucketAssumption, ConstantsType DEF Take, TypeOK, Times
<1>3. /\ Refilled(c) \in 0..Full
      /\ Refilled(c) <= tokens[c] + (now - lastRefill[c]) * rate
  BY <1>1, RefilledType
<1>4. /\ tokens[c] \in 0..Full /\ lastRefill[c] \in Nat /\ lastRefill[c] <= now
      /\ rate \in Nat \ {0} /\ Whole \in Nat \ {0}
      /\ \A s \in Times : s \in Nat /\ since[c][s] \in Nat
  BY <1>1, <1>2, ConstantsType, TokenBucketAssumption DEF TypeOK
<1>5. \A d \in Clients : lastRefill'[d] = IF d = c THEN now ELSE lastRefill[d]
  BY <1>2 DEF TypeOK
<1> HIDE DEF c
<1>6. CASE Allow(q, c)
  <2>1. /\ tokens' = [tokens EXCEPT ![c] = Refilled(c) - Whole]
        /\ refused' = [refused EXCEPT ![c] = Allowed]
        /\ since' = [since EXCEPT ![c] =
               [s \in Times |->
                   IF s <= now THEN since[c][s] + 1 ELSE since[c][s]]]
        /\ Refilled(c) >= Whole
    <3>1. DOMAIN since[c] = Times
      BY <1>1 DEF TypeOK
    <3> QED
      BY <1>6, <3>1 DEF Allow, Recorded
  <2>2. TypeOK'
    <3>1. Refilled(c) - Whole \in 0..Full
      BY <1>2, <1>3, <2>1
    <3>2. [s \in Times |-> IF s <= now THEN since[c][s] + 1 ELSE since[c][s]]
              \in [Times -> Nat]
      BY <1>4
    <3>3. Allowed \in Refusals
      BY TokenBucketAssumption DEF Allowed, Refusals, Times
    <3> QED
      BY <1>1, <1>2, <2>1, <3>1, <3>2, <3>3 DEF TypeOK
  <2>3. Made'
    BY <1>1, <1>2, <2>1 DEF Made, TypeOK
  <2>4. ASSUME NEW s \in Times
        PROVE  IF s <= now
               THEN (IF s <= now THEN since[c][s] + 1 ELSE since[c][s]) * Whole
                        + (Refilled(c) - Whole)
                        <= Full + rate * (now - s)
               ELSE since[c][s] = 0
    <3> DEFINE n == since[c][s]
    <3>1. n \in Nat /\ s \in Nat /\ now \in Nat
      BY <1>2, <1>4
    <3>2. /\ s <= lastRefill[c] => n * Whole + tokens[c]
                                     <= Full + rate * (lastRefill[c] - s)
          /\ ~(s <= lastRefill[c]) => n = 0
      BY <1>1 DEF Balance
    <3> HIDE DEF n
    <3>3. (n + 1) * Whole + (Refilled(c) - Whole) = n * Whole + Refilled(c)
      BY <1>2, <1>3, <3>1
    <3>4. /\ rate * (lastRefill[c] - s) + (now - lastRefill[c]) * rate
                 = rate * (now - s)
          /\ n * Whole \in Nat
          /\ rate * (lastRefill[c] - s) \in Int
          /\ (now - lastRefill[c]) * rate \in Int
      BY <1>4, <3>1
    <3>5. CASE s <= lastRefill[c]
      BY <1>2, <1>3, <1>4, <3>1, <3>2, <3>3, <3>4, <3>5 DEF n
    <3>6. CASE ~(s <= lastRefill[c])
      <4>1. s <= now => rate * (now - s) \in Nat
        <5>1. \A m \in Nat : rate * m \in Nat
          BY <1>4
        <5> QED
          BY <5>1, <3>1
      <4>2. n = 0 /\ n * Whole = 0
        BY <3>2, <3>6, <1>4
      <4> QED
        BY <1>2, <1>3, <3>1, <3>3, <4>1, <4>2 DEF n
    <3> QED
      BY <3>5, <3>6
  <2>5. Balance'
    <3> SUFFICES ASSUME NEW d \in Clients, NEW s \in Times
                 PROVE  IF s <= lastRefill'[d]
                        THEN since'[d][s] * Whole + tokens'[d]
                                 <= Full + rate * (lastRefill'[d] - s)
                        ELSE since'[d][s] = 0
      BY DEF Balance
    <3>1. CASE d = c
      <4>1. /\ tokens'[d] = Refilled(c) - Whole /\ lastRefill'[d] = now
            /\ since'[d][s] = IF s <= now THEN since[c][s] + 1 ELSE since[c][s]
        BY <3>1, <1>5, <2>1 DEF TypeOK
      <4> QED
        BY <4>1, <2>4
    <3>2. CASE d # c
      <4>1. /\ tokens'[d] = tokens[d] /\ lastRefill'[d] = lastRefill[d]
            /\ since'[d] = since[d]
        BY <3>2, <1>5, <2>1 DEF TypeOK
      <4> QED
        BY <4>1 DEF Balance
    <3> QED
      BY <3>1, <3>2
  <2>6. RefusalKnown'
    <3> SUFFICES ASSUME NEW d \in Clients, refused'[d].after > 0
                 PROVE  /\ refused'[d].at = lastRefill'[d] /\ tokens'[d] < Whole
                        /\ refused'[d].after
                               = PositiveOrOne((Whole - tokens'[d]) \div rate)
      BY DEF RefusalKnown
    <3>1. d # c
      BY <2>1 DEF TypeOK, Allowed
    <3>2. /\ tokens'[d] = tokens[d] /\ lastRefill'[d] = lastRefill[d]
          /\ refused'[d] = refused[d]
      BY <3>1, <1>5, <2>1 DEF TypeOK
    <3> QED
      BY <3>2 DEF RefusalKnown
  <2> QED
    BY <1>2, <1>5, <2>2, <2>3, <2>5, <2>6
<1>7. CASE Refuse(q, c)
  <2>1. /\ tokens' = [tokens EXCEPT ![c] = Refilled(c)]
        /\ refused' = [refused EXCEPT ![c] = [at |-> now, after |-> RetryAfter(c)]]
        /\ since' = since
        /\ Refilled(c) < Whole
    BY <1>7 DEF Refuse
  <2>2. TypeOK'
    <3>1. RetryAfter(c) \in Nat
      <4>1. Whole - Refilled(c) \in Nat \ {0}
        BY <1>2, <1>3, <2>1
      <4> QED
        BY <4>1, <1>4, Quotient DEF RetryAfter
    <3>2. [at |-> now, after |-> RetryAfter(c)] \in Refusals
      BY <1>2, <3>1 DEF Refusals
    <3> QED
      BY <1>1, <1>2, <1>3, <2>1, <3>2 DEF TypeOK
  <2>3. Made'
    BY <1>1, <1>2, <2>1 DEF Made, TypeOK
  <2>4. ASSUME NEW s \in Times
        PROVE  IF s <= now
               THEN since[c][s] * Whole + Refilled(c) <= Full + rate * (now - s)
               ELSE since[c][s] = 0
    <3> DEFINE n == since[c][s]
    <3>1. n \in Nat /\ s \in Nat /\ now \in Nat
      BY <1>2, <1>4
    <3>2. /\ s <= lastRefill[c] => n * Whole + tokens[c]
                                     <= Full + rate * (lastRefill[c] - s)
          /\ ~(s <= lastRefill[c]) => n = 0
      BY <1>1 DEF Balance
    <3> HIDE DEF n
    <3>4. /\ rate * (lastRefill[c] - s) + (now - lastRefill[c]) * rate
                 = rate * (now - s)
          /\ n * Whole \in Nat
          /\ rate * (lastRefill[c] - s) \in Int
          /\ (now - lastRefill[c]) * rate \in Int
      BY <1>4, <3>1
    <3>5. CASE s <= lastRefill[c]
      BY <1>2, <1>3, <1>4, <3>1, <3>2, <3>4, <3>5 DEF n
    <3>6. CASE ~(s <= lastRefill[c])
      <4>1. s <= now => rate * (now - s) \in Nat
        <5>1. \A m \in Nat : rate * m \in Nat
          BY <1>4
        <5> QED
          BY <5>1, <3>1
      <4>2. n = 0 /\ n * Whole = 0
        BY <3>2, <3>6, <1>4
      <4> QED
        BY <1>2, <1>3, <3>1, <4>1, <4>2 DEF n
    <3> QED
      BY <3>5, <3>6
  <2>5. Balance'
    <3> SUFFICES ASSUME NEW d \in Clients, NEW s \in Times
                 PROVE  IF s <= lastRefill'[d]
                        THEN since'[d][s] * Whole + tokens'[d]
                                 <= Full + rate * (lastRefill'[d] - s)
                        ELSE since'[d][s] = 0
      BY DEF Balance
    <3>1. CASE d = c
      <4>1. tokens'[d] = Refilled(c) /\ lastRefill'[d] = now
        BY <3>1, <1>5, <2>1 DEF TypeOK
      <4> QED
        BY <4>1, <2>1, <2>4, <3>1
    <3>2. CASE d # c
      <4>1. tokens'[d] = tokens[d] /\ lastRefill'[d] = lastRefill[d]
        BY <3>2, <1>5, <2>1 DEF TypeOK
      <4> QED
        BY <4>1, <2>1 DEF Balance
    <3> QED
      BY <3>1, <3>2
  <2>6. RefusalKnown'
    <3> SUFFICES ASSUME NEW d \in Clients, refused'[d].after > 0
                 PROVE  /\ refused'[d].at = lastRefill'[d] /\ tokens'[d] < Whole
                        /\ refused'[d].after
                               = PositiveOrOne((Whole - tokens'[d]) \div rate)
      BY DEF RefusalKnown
    <3>1. CASE d = c
      <4>1. /\ tokens'[d] = Refilled(c) /\ lastRefill'[d] = now
            /\ refused'[d] = [at |-> now, after |-> RetryAfter(c)]
        BY <3>1, <1>5, <2>1 DEF TypeOK
      <4> QED
        BY <4>1, <2>1 DEF RetryAfter
    <3>2. CASE d # c
      <4>1. /\ tokens'[d] = tokens[d] /\ lastRefill'[d] = lastRefill[d]
            /\ refused'[d] = refused[d]
        BY <3>2, <1>5, <2>1 DEF TypeOK
      <4> QED
        BY <4>1 DEF RefusalKnown
    <3> QED
      BY <3>1, <3>2
  <2> QED
    BY <1>2, <1>5, <2>2, <2>3, <2>5, <2>6
<1> QED
  BY <1>6, <1>7 DEF Take, c

\* Every step keeps the invariant.
LEMMA NextIInv == IInv /\ [Next]_vars => IInv'
<1> SUFFICES ASSUME IInv, [Next]_vars PROVE IInv'
  OBVIOUS
<1>1. ASSUME NEW q \in Reqs, NEW c \in Clients, LookUp(q, c) PROVE IInv'
  BY <1>1, LookUpIInv
<1>2. ASSUME NEW q \in Reqs, Take(q) PROVE IInv'
  BY <1>2, TakeIInv
<1>3. CASE Tick
  <2>1. TypeOK'
    BY <1>3, TokenBucketAssumption DEF IInv, Tick, TypeOK, Times
  <2>2. \A c \in Clients : lastRefill'[c] <= now'
    BY <1>3, TokenBucketAssumption DEF IInv, Tick, TypeOK, Times
  <2>3. Made' /\ Balance' /\ RefusalKnown'
    BY <1>3 DEF IInv, Tick, Made, Balance, RefusalKnown
  <2> QED
    BY <2>1, <2>2, <2>3 DEF IInv
<1>4. CASE UNCHANGED vars
  BY <1>4 DEF IInv, vars, TypeOK, Made, Balance, RefusalKnown, Refilled
<1> QED
  BY <1>1, <1>2, <1>3, <1>4 DEF Next

\* The invariant behind the theorems of this module.
THEOREM Invariant == Spec => []IInv
<1> QED
  BY InitIInv, NextIInv, PTL DEF Spec

\* Every reachable state is well typed: no bucket holds more than its capacity.
THEOREM TypeCorrect == Spec => []TypeOK
<1>1. IInv => TypeOK
  BY DEF IInv
<1> QED
  BY <1>1, Invariant, PTL

\* RateBound, of TokenBucketAllow with requests that overlap.
THEOREM AlwaysRateBound == Spec => []RateBound
<1>1. ASSUME IInv PROVE RateBound
  <2> SUFFICES ASSUME NEW c \in Clients, NEW s \in Times, s <= now
               PROVE  since[c][s] * Whole <= Full + rate * (now - s)
    BY DEF RateBound
  <2>1. /\ now \in Nat /\ s \in Nat /\ lastRefill[c] \in Nat
        /\ since[c][s] \in Nat
        /\ tokens[c] \in Nat /\ lastRefill[c] <= now
    BY <1>1, TokenBucketAssumption DEF IInv, TypeOK, Times
  <2>2. \A m \in Nat : rate * m \in Nat
    BY ConstantsType
  <2>3. since[c][s] * Whole \in Nat
    BY <2>1, TokenBucketAssumption, ConstantsType
  <2>4. CASE s <= lastRefill[c]
    <3>1. since[c][s] * Whole + tokens[c] <= Full + rate * (lastRefill[c] - s)
      BY <1>1, <2>4 DEF IInv, Balance
    <3>2. rate * (now - s)
              = rate * (lastRefill[c] - s) + rate * (now - lastRefill[c])
      BY <2>1, ConstantsType
    <3>3. /\ rate * (now - lastRefill[c]) \in Nat
          /\ rate * (lastRefill[c] - s) \in Nat
      BY <2>1, <2>2, <2>4
    <3> QED
      BY <2>1, <2>3, <3>1, <3>2, <3>3, ConstantsType
  <2>5. CASE ~(s <= lastRefill[c])
    <3>1. since[c][s] = 0
      BY <1>1, <2>5 DEF IInv, Balance
    <3>2. rate * (now - s) \in Nat /\ 0 * Whole = 0
      BY <2>1, <2>2, TokenBucketAssumption, ConstantsType
    <3> QED
      BY <3>1, <3>2, ConstantsType
  <2> QED
    BY <2>4, <2>5
<1> QED
  BY <1>1, Invariant, PTL

\* RetryIsExact, of the duration TokenBucketAllow returns with a refusal.
THEOREM AlwaysRetryIsExact == Spec => RetryIsExact
<1> DEFINE Exact(c) ==
      refused[c].after > 0 /\ refused'[c] # refused[c] =>
          IF refused'[c] = Allowed
          THEN now >= refused[c].at + refused[c].after
          ELSE Full < Whole \/ now <= refused[c].at + refused[c].after
<1>1. ASSUME IInv, [Next]_vars, NEW c \in Clients PROVE Exact(c)
  <2> SUFFICES ASSUME refused[c].after > 0, refused'[c] # refused[c]
               PROVE  IF refused'[c] = Allowed
                      THEN now >= refused[c].at + refused[c].after
                      ELSE Full < Whole \/ now <= refused[c].at + refused[c].after
    OBVIOUS
  <2>1. PICK q \in Reqs : Take(q) /\ client[q] = c
    <3>1. PICK q \in Reqs : Take(q)
      BY <1>1 DEF Next, Tick, LookUp, vars
    <3>2. client[q] = c
      BY <1>1, <3>1 DEF Take, Allow, Refuse, IInv, TypeOK
    <3> QED
      BY <3>1, <3>2
  <2> DEFINE a == Whole - tokens[c]
             d == now - lastRefill[c]
  <2>2. /\ refused[c].at = lastRefill[c] /\ tokens[c] < Whole
        /\ refused[c].after = PositiveOrOne(a \div rate)
    BY <1>1 DEF IInv, RefusalKnown
  <2>3. /\ now \in Nat /\ lastRefill[c] \in Nat /\ tokens[c] \in Nat
        /\ lastRefill[c] <= now /\ Whole \in Nat
        /\ rate \in Nat \ {0} /\ refused[c].after \in Nat
    BY <1>1, ConstantsType, TokenBucketAssumption
       DEF IInv, TypeOK, Times, Refusals
  <2>4. a \in Nat \ {0} /\ d \in Nat
    BY <2>2, <2>3
  <2>5. /\ d * rate >= a => d >= PositiveOrOne(a \div rate)
        /\ d * rate < a => d <= PositiveOrOne(a \div rate)
    <3>1. a \in Nat /\ a > 0 /\ d \in Nat /\ rate \in Nat \ {0}
      BY <2>3, <2>4
    <3> HIDE DEF a, d
    <3>2. /\ d * rate >= a /\ d > 0 => d >= PositiveOrOne(a \div rate)
          /\ d * rate <= a => d <= PositiveOrOne(a \div rate)
      BY <3>1, Quotient
    <3>3. d * rate \in Nat /\ (d = 0 => d * rate = 0)
      BY <3>1
    <3> QED
      BY <3>1, <3>2, <3>3
  <2>6. /\ Refilled(c) < Whole /\ Whole <= Full => Refilled(c) = tokens[c] + d * rate
        /\ Refilled(c) >= Whole => tokens[c] + d * rate >= Whole
    BY <1>1, RefilledType DEF IInv
  <2>7. d * rate \in Nat
    BY <2>3, <2>4
  <2>8. CASE Allow(q, c)
    <3>1. refused'[c] = Allowed
      BY <1>1, <2>8 DEF Allow, IInv, TypeOK
    <3>2. d * rate >= a
      BY <2>3, <2>6, <2>7, <2>8 DEF Allow
    <3> HIDE DEF a
    <3> QED
      BY <2>2, <2>3, <2>5, <3>1, <3>2
  <2>9. CASE Refuse(q, c)
    <3>1. refused'[c].after \in Nat \ {0}
      <4>1. refused'[c].after = PositiveOrOne((Whole - Refilled(c)) \div rate)
        BY <1>1, <2>9 DEF Refuse, RetryAfter, IInv, TypeOK
      <4>2. Whole - Refilled(c) \in Nat \ {0}
        <5>1. Refilled(c) \in 0..Full /\ Full \in Nat
          BY <1>1, RefilledType, ConstantsType DEF IInv
        <5> QED
          BY <2>3, <2>9, <5>1 DEF Refuse
      <4> QED
        BY <4>1, <4>2, <2>3, Quotient
    <3>2. refused'[c] # Allowed
      BY <3>1 DEF Allowed
    <3>3. Whole <= Full => d * rate < a
      BY <2>3, <2>6, <2>7, <2>9 DEF Refuse
    <3>4. Full \in Nat
      BY ConstantsType
    <3> HIDE DEF a
    <3> QED
      BY <2>2, <2>3, <2>5, <3>2, <3>3, <3>4
  <2> QED
    BY <2>1, <2>8, <2>9 DEF Take
<1>2. IInv /\ [Next]_vars => [\A c \in Clients : Exact(c)]_vars
  BY <1>1
<1> QED
  BY <1>2, Invariant, PTL DEF Spec, RetryIsExact

(***************************************************************************)
(* LeakyBucketAllow.                                                       *)
(***************************************************************************)
\* What was poured in from any moment on is still in the bucket or has drained
\* since, up to the last time the bucket was used.
WaterKept(c) ==
    \A s \in Leaky!Times :
        IF s <= lastLeak[c]
        THEN lSince[c][s] * Whole <= water[c] + rate * (lastLeak[c] - s)
        ELSE lSince[c][s] = 0

\* A refusal is told the time the water above the brim takes.
OverflowKnown(c) ==
    lRefused[c].after > 0 =>
        /\ lRefused[c].at = lastLeak[c] /\ water[c] >= Leaky!Brim
        /\ lRefused[c].after =
               PositiveOrOne((water[c] - Leaky!Brim) \div rate)

\* A bucket that was not made was never used.
Unused(c) ==
    /\ water[c] = 0 /\ lRefused[c].after = 0
    /\ \A s \in Leaky!Times : lSince[c][s] = 0

LeakyInv ==
    /\ Leaky!TypeOK
    /\ \A q \in Reqs : lPc[q] = "pour" => lClient[q] \in lMade
    /\ \A c \in Clients :
        /\ lastLeak[c] <= lNow
        /\ c \notin lMade => Unused(c)
        /\ WaterKept(c) /\ OverflowKnown(c)

\* The two limiters read their configuration alike.
LEMMA LeakyConstants ==
    /\ rate \in Nat \ {0} /\ Leaky!rate = rate
    /\ \A x : Leaky!PositiveOrOne(x) = PositiveOrOne(x)
    /\ Leaky!Brim = Full /\ Full \in Nat \ {0}
    /\ Leaky!Whole = Whole /\ Whole \in Nat \ {0}
    /\ Leaky!Times = Times /\ Times \subseteq Nat
    /\ Leaky!Allowed = Allowed
  BY ConstantsType, TokenBucketAssumption
     DEF Leaky!PositiveOrOne, PositiveOrOne, Leaky!rate, rate, Leaky!Brim,
         Full, Leaky!Whole, Whole, Leaky!OneIfNone, OneIfNone, Leaky!Times,
         Times, Leaky!Allowed, Allowed

\* The types of the state of a bucket.
LEMMA BucketTypes ==
    ASSUME Leaky!TypeOK, NEW c \in Clients
    PROVE  /\ lNow \in Nat /\ lNow \in Times
           /\ water[c] \in Nat /\ water[c] <= Full + Whole - 1
           /\ lastLeak[c] \in Nat /\ lastLeak[c] \in Times
           /\ lRefused[c].at \in Nat /\ lRefused[c].after \in Nat
           /\ lSince[c] \in [Times -> Nat]
           /\ \A s \in Times : lSince[c][s] \in Nat
<1>1. /\ lNow \in Times /\ water[c] \in 0..(Full + Whole - 1)
      /\ lastLeak[c] \in Times /\ lRefused[c] \in Leaky!Refusals
      /\ lSince[c] \in [Times -> Nat]
  BY LeakyConstants DEF Leaky!TypeOK
<1>2. lRefused[c].at \in Nat /\ lRefused[c].after \in Nat
  BY <1>1, LeakyConstants DEF Leaky!Refusals
<1>3. \A s \in Times : lSince[c][s] \in Nat
  BY <1>1
<1>4. Times \subseteq Nat /\ Full \in Nat /\ Whole \in Nat
  BY LeakyConstants
<1>5. water[c] \in Nat /\ water[c] <= Full + Whole - 1
  BY <1>1, <1>4
<1> QED
  BY <1>1, <1>2, <1>3, <1>4, <1>5

\* Nothing drains faster than the rate, and no bucket below empty.
LEMMA LeftOf ==
    ASSUME Leaky!TypeOK, NEW c \in Clients, lastLeak[c] <= lNow
    PROVE  /\ Leaky!Left(c) \in 0..water[c]
           /\ Leaky!Left(c) >= water[c] - (lNow - lastLeak[c]) * rate
           /\ Leaky!Left(c) > 0
                  => Leaky!Left(c) = water[c] - (lNow - lastLeak[c]) * rate
<1>1. (lNow - lastLeak[c]) * rate \in Nat
  <2>1. \A m, n \in Nat : m * n \in Nat
    OBVIOUS
  <2> QED
    BY <2>1, BucketTypes, LeakyConstants
<1> QED
  BY <1>1, BucketTypes, LeakyConstants DEF Leaky!Left

\* The balance, carried from the last use of a bucket to now.
LEMMA Carried ==
    ASSUME Leaky!TypeOK, NEW c \in Clients, lastLeak[c] <= lNow, WaterKept(c),
           NEW s \in Times
    PROVE  IF s <= lNow
           THEN lSince[c][s] * Whole <= Leaky!Left(c) + rate * (lNow - s)
           ELSE lSince[c][s] = 0
<1> DEFINE n == lSince[c][s]
           last == lastLeak[c]
           left == Leaky!Left(c)
           w == water[c]
<1>1. /\ n \in Nat /\ last \in Nat /\ lNow \in Nat /\ s \in Nat /\ w \in Nat
      /\ left \in Nat /\ rate \in Nat \ {0} /\ Whole \in Nat \ {0}
      /\ left >= w - (lNow - last) * rate /\ last <= lNow
  BY BucketTypes, LeftOf, LeakyConstants
<1>2. IF s <= last THEN n * Whole <= w + rate * (last - s) ELSE n = 0
  BY LeakyConstants DEF WaterKept
<1> HIDE DEF n, last, left, w
<1>3. /\ rate * (last - s) + (lNow - last) * rate = rate * (lNow - s)
      /\ n * Whole \in Nat /\ rate * (last - s) \in Int
      /\ (lNow - last) * rate \in Int
  BY <1>1
<1>4. CASE s <= last
  BY <1>1, <1>2, <1>3, <1>4 DEF n, left
<1>5. CASE ~(s <= last)
  <2>1. s <= lNow => rate * (lNow - s) \in Nat
    <3>1. \A m \in Nat : rate * m \in Nat
      BY <1>1
    <3> QED
      BY <1>1, <3>1
  <2>2. n = 0 /\ n * Whole = 0
    BY <1>1, <1>2, <1>5
  <2> QED
    BY <1>1, <2>1, <2>2 DEF n, left
<1> QED
  BY <1>4, <1>5

\* Initially no bucket was made.
LEMMA LeakyInit == Leaky!Init => LeakyInv
<1> SUFFICES ASSUME Leaky!Init PROVE LeakyInv
  OBVIOUS
<1>1. 0 \in Times /\ (CHOOSE c \in Clients : TRUE) \in Clients
  BY TokenClientsAssumption, TokenBucketAssumption DEF Times
<1>2. Leaky!TypeOK
  <2>1. 0 \in 0..(Leaky!Brim + Leaky!Whole - 1) /\ Allowed \in Leaky!Refusals
    BY <1>1, LeakyConstants DEF Leaky!Refusals, Allowed
  <2> QED
    BY <1>1, <2>1, LeakyConstants DEF Leaky!Init, Leaky!TypeOK
<1>3. ASSUME NEW c \in Clients
      PROVE  /\ lastLeak[c] <= lNow /\ Unused(c)
             /\ WaterKept(c) /\ OverflowKnown(c)
  <2>1. /\ lastLeak[c] = 0 /\ lNow = 0 /\ water[c] = 0
        /\ lRefused[c].after = 0
        /\ \A s \in Times : lSince[c][s] = 0
    BY LeakyConstants DEF Leaky!Init, Allowed
  <2>2. 0 * Whole <= 0 + rate * (0 - 0)
    BY LeakyConstants
  <2>3. \A s \in Times : s <= 0 => s = 0
    BY LeakyConstants
  <2> QED
    BY <2>1, <2>2, <2>3, LeakyConstants DEF Unused, WaterKept, OverflowKnown
<1> QED
  BY <1>2, <1>3 DEF Leaky!Init, LeakyInv

\* A look-up makes a bucket, or changes none.
LEMMA LeakyLookUp ==
    ASSUME LeakyInv, NEW q \in Reqs, NEW c \in Clients, Leaky!LookUp(q, c)
    PROVE  LeakyInv'
<1>1. Leaky!TypeOK /\ lNow \in Times
  BY BucketTypes DEF LeakyInv
<1>2. Leaky!TypeOK'
  BY <1>1, LeakyConstants DEF Leaky!LookUp, Leaky!TypeOK
<1>3. /\ UNCHANGED <<lNow, water, lRefused, lSince>>
      /\ lMade' = lMade \cup {c}
      /\ \A d \in Clients : lastLeak'[d] =
             IF d = c /\ c \notin lMade THEN lNow ELSE lastLeak[d]
      /\ \A p \in Reqs : lPc'[p] = "pour" => lClient'[p] \in lMade'
  BY DEF LeakyInv, Leaky!LookUp, Leaky!TypeOK
<1>4. ASSUME NEW d \in Clients
      PROVE  /\ lastLeak'[d] <= lNow' /\ WaterKept(d)' /\ OverflowKnown(d)'
             /\ d \notin lMade' => Unused(d)'
  <2>1. /\ lastLeak[d] <= lNow /\ WaterKept(d) /\ OverflowKnown(d)
        /\ d \notin lMade => Unused(d)
    BY DEF LeakyInv
  <2>2. CASE d = c /\ c \notin lMade
    <3>1. water[d] = 0 /\ \A s \in Times : lSince[d][s] = 0
      BY <2>1, <2>2, LeakyConstants DEF Unused
    <3>2. lastLeak'[d] = lNow /\ d \in lMade' /\ lNow \in Nat
      BY <1>1, <1>3, <2>2, LeakyConstants
    <3>3. \A s \in Times : s <= lNow => 0 * Whole <= 0 + rate * (lNow - s)
      <4>1. \A m \in Nat : rate * m \in Nat
        BY LeakyConstants
      <4>2. \A s \in Times : s <= lNow => lNow - s \in Nat
        BY <3>2, LeakyConstants
      <4> QED
        BY <4>1, <4>2, LeakyConstants
    <3>4. WaterKept(d)'
      BY <1>3, <3>1, <3>2, <3>3, LeakyConstants DEF WaterKept
    <3>5. OverflowKnown(d)'
      BY <1>3, <2>1, <2>2 DEF OverflowKnown, Unused
    <3> QED
      BY <1>3, <3>2, <3>4, <3>5
  <2>3. CASE ~(d = c /\ c \notin lMade)
    <3>1. lastLeak'[d] = lastLeak[d] /\ (d \notin lMade' => d \notin lMade)
      BY <1>3, <2>3
    <3> QED
      BY <1>3, <2>1, <3>1 DEF WaterKept, OverflowKnown, Unused
  <2> QED
    BY <2>2, <2>3
<1> QED
  BY <1>2, <1>3, <1>4 DEF LeakyInv

\* What one request does to its bucket, admitted or not.
LEMMA LeakyPour ==
    ASSUME LeakyInv, NEW q \in Reqs, Leaky!Pour(q)
    PROVE  LeakyInv'
<1> DEFINE c == lClient[q]
           left == Leaky!Left(c)
<1>1. c \in Clients /\ c \in lMade /\ Leaky!TypeOK
  BY DEF Leaky!Pour, LeakyInv, Leaky!TypeOK
<1>2. lastLeak[c] <= lNow /\ WaterKept(c)
  BY <1>1 DEF LeakyInv
<1>3. /\ left \in Nat /\ water[c] \in Nat /\ left <= water[c]
      /\ water[c] <= Full + Whole - 1 /\ lNow \in Times
      /\ lSince[c] \in [Times -> Nat]
  BY <1>1, <1>2, LeftOf, BucketTypes
<1>4. \A s \in Times :
          IF s <= lNow THEN lSince[c][s] * Whole <= left + rate * (lNow - s)
                       ELSE lSince[c][s] = 0
  BY <1>1, <1>2, Carried
<1>5. /\ UNCHANGED <<lNow, lMade, lClient>>
      /\ lPc' = [lPc EXCEPT ![q] = "idle"]
      /\ lastLeak' = [lastLeak EXCEPT ![c] = lNow]
      /\ Leaky!Allow(q, c) \/ Leaky!Refuse(q, c)
  BY DEF Leaky!Pour
<1> HIDE DEF c, left
<1>6. \A d \in Clients :
          lastLeak'[d] = IF d = c THEN lNow ELSE lastLeak[d]
  BY <1>1, <1>5 DEF Leaky!TypeOK
<1> DEFINE Poured(n, r, h) ==
        /\ water' = [water EXCEPT ![c] = n] /\ n <= Full + Whole - 1
        /\ lRefused' = [lRefused EXCEPT ![c] = r]
        /\ lSince' = [lSince EXCEPT ![c] = h]
        /\ \A s \in Times :
               IF s <= lNow THEN h[s] * Whole <= n + rate * (lNow - s)
                            ELSE h[s] = 0
        /\ r.after > 0 =>
               /\ r.at = lNow /\ n >= Leaky!Brim
               /\ r.after = PositiveOrOne((n - Leaky!Brim) \div rate)
<1>7. PICK n \in Nat, r \in Leaky!Refusals, h \in [Times -> Nat] :
          Poured(n, r, h)
  <2>1. CASE Leaky!Allow(q, c)
    <3> DEFINE h == [s \in Times |-> IF s <= lNow THEN lSince[c][s] + 1
                                                  ELSE lSince[c][s]]
    <3>1. /\ left < Full /\ water' = [water EXCEPT ![c] = left + Whole]
          /\ lRefused' = [lRefused EXCEPT ![c] = Allowed]
      BY <2>1, LeakyConstants DEF Leaky!Allow, left
    <3>2. lSince' = [lSince EXCEPT ![c] = h]
      <4>1. lSince' = [lSince EXCEPT ![c] = Leaky!Recorded(lSince[c], lNow)]
        BY <2>1 DEF Leaky!Allow
      <4>2. Leaky!Recorded(lSince[c], lNow) = h
        BY <1>3 DEF Leaky!Recorded
      <4> QED
        BY <4>1, <4>2
    <3>3. h \in [Times -> Nat]
      BY <1>3
    <3>4. left + Whole \in Nat /\ left + Whole <= Full + Whole - 1
      BY <1>3, <3>1, LeakyConstants
    <3>5. Allowed \in Leaky!Refusals /\ Allowed.after = 0
      BY LeakyConstants, TokenBucketAssumption
         DEF Leaky!Refusals, Allowed, Times
    <3>6. ASSUME NEW s \in Times
          PROVE  IF s <= lNow
                 THEN h[s] * Whole <= left + Whole + rate * (lNow - s)
                 ELSE h[s] = 0
      <4>1. CASE s <= lNow
        <5> DEFINE k == lSince[c][s]
        <5>1. k \in Nat /\ k * Whole <= left + rate * (lNow - s)
          BY <1>3, <1>4, <4>1
        <5>2. h[s] = k + 1
          BY <4>1
        <5> HIDE DEF k, h
        <5>3. h[s] * Whole = k * Whole + Whole /\ k * Whole \in Nat
          BY <5>1, <5>2, LeakyConstants
        <5>4. rate * (lNow - s) \in Int
          BY <1>3, LeakyConstants
        <5> QED
          BY <1>3, <4>1, <5>1, <5>3, <5>4, LeakyConstants
      <4>2. CASE ~(s <= lNow)
        BY <1>4, <4>2
      <4> QED
        BY <4>1, <4>2
    <3> HIDE DEF h
    <3>7. Poured(left + Whole, Allowed, h)
      BY <3>1, <3>2, <3>4, <3>5, <3>6
    <3> QED
      BY <3>3, <3>4, <3>5, <3>7
  <2>2. CASE Leaky!Refuse(q, c)
    <3> DEFINE r == [at |-> lNow, after |-> Leaky!RetryAfter(c)]
    <3>1. /\ left >= Leaky!Brim /\ water' = [water EXCEPT ![c] = left]
          /\ lRefused' = [lRefused EXCEPT ![c] = r] /\ lSince' = lSince
      BY <2>2 DEF Leaky!Refuse, left
    <3>2. /\ Leaky!RetryAfter(c) =
                 PositiveOrOne((left - Leaky!Brim) \div rate)
          /\ left - Leaky!Brim \in Nat
      BY <1>3, <3>1, LeakyConstants DEF Leaky!RetryAfter, left
    <3>3. r \in Leaky!Refusals
      BY <1>3, <3>2, Quotient, LeakyConstants DEF Leaky!Refusals
    <3>4. lSince' = [lSince EXCEPT ![c] = lSince[c]]
      BY <1>1, <3>1 DEF Leaky!TypeOK
    <3>5. r.at = lNow /\ r.after = Leaky!RetryAfter(c)
      OBVIOUS
    <3> HIDE DEF r
    <3>6. left <= Full + Whole - 1
      BY <1>3, LeakyConstants
    <3>7. Poured(left, r, lSince[c])
      BY <1>4, <3>1, <3>2, <3>4, <3>5, <3>6
    <3> QED
      BY <1>3, <3>3, <3>7
  <2> QED
    BY <1>5, <2>1, <2>2
<1>8. Leaky!TypeOK'
  <2>1. n \in 0..(Leaky!Brim + Leaky!Whole - 1)
    BY <1>7, LeakyConstants
  <2> QED
    BY <1>1, <1>3, <1>5, <1>7, <2>1, LeakyConstants DEF Leaky!TypeOK
<1>9. ASSUME NEW d \in Clients
      PROVE  /\ lastLeak'[d] <= lNow' /\ WaterKept(d)' /\ OverflowKnown(d)'
             /\ d \notin lMade' => Unused(d)'
  <2>1. CASE d = c
    <3>1. /\ lastLeak'[d] = lNow /\ lNow' = lNow /\ water'[d] = n
          /\ lRefused'[d] = r /\ lSince'[d] = h
      BY <1>1, <1>5, <1>6, <1>7, <2>1 DEF Leaky!TypeOK
    <3>2. WaterKept(d)'
      BY <1>7, <3>1, LeakyConstants DEF WaterKept
    <3>3. OverflowKnown(d)'
      BY <1>7, <3>1 DEF OverflowKnown
    <3> QED
      BY <1>1, <1>3, <1>5, <2>1, <3>1, <3>2, <3>3, LeakyConstants
  <2>2. CASE d # c
    <3>1. UNCHANGED <<lastLeak[d], lNow, water[d], lRefused[d], lSince[d]>>
      BY <1>1, <1>5, <1>6, <1>7, <2>2 DEF Leaky!TypeOK
    <3>2. lMade' = lMade
      BY <1>5
    <3> QED
      BY <3>1, <3>2 DEF LeakyInv, WaterKept, OverflowKnown, Unused
  <2> QED
    BY <2>1, <2>2
<1>10. \A p \in Reqs : lPc'[p] = "pour" => lClient'[p] \in lMade'
  BY <1>5 DEF LeakyInv, Leaky!TypeOK
<1> QED
  BY <1>8, <1>9, <1>10 DEF LeakyInv

\* Every step keeps the invariant.
LEMMA LeakyNext == LeakyInv /\ [Leaky!Next]_leaky => LeakyInv'
<1> SUFFICES ASSUME LeakyInv, [Leaky!Next]_leaky PROVE LeakyInv'
  OBVIOUS
<1>1. CASE Leaky!Tick
  <2>1. lNow' = lNow + 1 /\ lNow < MaxTime /\ lNow \in Nat
    BY <1>1 DEF LeakyInv, Leaky!Tick, Leaky!TypeOK, Leaky!Times
  <2>2. UNCHANGED <<water, lastLeak, lMade, lPc, lClient, lRefused, lSince>>
    BY <1>1 DEF Leaky!Tick
  <2>3. Leaky!TypeOK'
    BY <2>1, <2>2, TokenBucketAssumption
       DEF LeakyInv, Leaky!TypeOK, Leaky!Times
  <2>4. \A c \in Clients : lastLeak[c] \in Nat
    BY BucketTypes DEF LeakyInv
  <2> QED
    BY <2>1, <2>2, <2>3, <2>4
       DEF LeakyInv, WaterKept, OverflowKnown, Unused
<1>2. CASE UNCHANGED leaky
  BY <1>2 DEF leaky, LeakyInv, WaterKept, OverflowKnown, Unused, Leaky!TypeOK
<1> QED
  BY <1>1, <1>2, LeakyLookUp, LeakyPour DEF Leaky!Next

\* The invariant gives the bound of what a client is admitted.
LEMMA LeakyRateBound == LeakyInv => Leaky!RateBound
<1> SUFFICES ASSUME LeakyInv, NEW c \in Clients, NEW s \in Times, s <= lNow
             PROVE  lSince[c][s] * Whole
                        <= Leaky!Brim + (Whole - 1) + rate * (lNow - s)
  BY LeakyConstants DEF Leaky!RateBound
<1>1. /\ lNow \in Nat /\ lSince[c][s] \in Nat /\ s \in Nat
      /\ Leaky!Left(c) \in Nat /\ Leaky!Left(c) <= Full + Whole - 1
  BY BucketTypes, LeftOf, LeakyConstants DEF LeakyInv
<1>2. lSince[c][s] * Whole <= Leaky!Left(c) + rate * (lNow - s)
  BY Carried DEF LeakyInv
<1>3. rate * (lNow - s) \in Int /\ lSince[c][s] * Whole \in Int
  BY <1>1, LeakyConstants
<1> QED
  BY <1>1, <1>2, <1>3, LeakyConstants

\* The time LeakyBucketAllow tells with a refusal.
LEMMA LeakyRetry ==
    ASSUME LeakyInv, [Leaky!Next]_leaky, NEW c \in Clients,
           lRefused[c].after > 0, lRefused'[c] # lRefused[c]
    PROVE  IF lRefused'[c] = Leaky!Allowed
           THEN lNow >= lRefused[c].at + lRefused[c].after
           ELSE lNow <= lRefused[c].at + lRefused[c].after
<1>1. PICK q \in Reqs : Leaky!Pour(q) /\ lClient[q] = c
  <2>1. PICK q \in Reqs : Leaky!Pour(q)
    BY DEF Leaky!Next, Leaky!Tick, Leaky!LookUp, leaky
  <2>2. lClient[q] = c
    BY <2>1 DEF Leaky!Pour, Leaky!Allow, Leaky!Refuse, LeakyInv, Leaky!TypeOK
  <2> QED
    BY <2>1, <2>2
<1> DEFINE a == water[c] - Leaky!Brim
           d == lNow - lastLeak[c]
<1>2. /\ lRefused[c].at = lastLeak[c] /\ a \in Nat
      /\ lRefused[c].after = PositiveOrOne(a \div rate)
      /\ lastLeak[c] \in Nat /\ lNow \in Nat /\ d \in Nat
  BY BucketTypes, LeakyConstants DEF LeakyInv, OverflowKnown
<1>3. /\ Leaky!Left(c) \in Nat /\ water[c] \in Nat
      /\ Leaky!Left(c) >= water[c] - d * rate
      /\ Leaky!Left(c) > 0 => Leaky!Left(c) = water[c] - d * rate
  BY BucketTypes, LeftOf DEF LeakyInv
<1>4. /\ d * rate >= a /\ d > 0 => d >= PositiveOrOne(a \div rate)
      /\ d * rate <= a => d <= PositiveOrOne(a \div rate)
      /\ PositiveOrOne(a \div rate) \in Nat \ {0}
  <2> HIDE DEF a, d
  <2> QED
    BY <1>2, Quotient, LeakyConstants
<1>5. d * rate \in Nat /\ (d = 0 => d * rate = 0)
  <2> HIDE DEF d
  <2> QED
    BY <1>2, LeakyConstants
<1>6. CASE Leaky!Allow(q, c)
  <2>1. lRefused'[c] = Leaky!Allowed /\ Leaky!Left(c) < Leaky!Brim
    BY <1>6 DEF Leaky!Allow, LeakyInv, Leaky!TypeOK
  <2>2. water[c] - d * rate < Leaky!Brim
    <3> HIDE DEF d
    <3> QED
      BY <1>3, <1>5, <2>1, LeakyConstants
  <2>3. d * rate >= a /\ d > 0
    <3>1. d # 0
      <4> HIDE DEF d
      <4> QED
        BY <1>2, <1>3, <1>5, <2>2, LeakyConstants
    <3> HIDE DEF d
    <3> QED
      BY <1>2, <1>3, <1>5, <2>2, <3>1, LeakyConstants
  <2>4. d >= lRefused[c].after
    BY <1>2, <1>4, <2>3
  <2> QED
    BY <1>2, <1>4, <2>1, <2>4
<1>7. CASE Leaky!Refuse(q, c)
  <2>1. /\ lRefused'[c] = [at |-> lNow, after |-> Leaky!RetryAfter(c)]
        /\ Leaky!Left(c) >= Leaky!Brim
    BY <1>7 DEF Leaky!Refuse, LeakyInv, Leaky!TypeOK
  <2>2. Leaky!RetryAfter(c) # 0
    <3>1. Leaky!Left(c) - Leaky!Brim \in Nat
      BY <1>3, <2>1, LeakyConstants
    <3> QED
      BY <3>1, Quotient, LeakyConstants DEF Leaky!RetryAfter
  <2>3. lRefused'[c] # Leaky!Allowed
    BY <2>1, <2>2 DEF Leaky!Allowed
  <2>4. d * rate <= a
    <3> HIDE DEF d
    <3> QED
      BY <1>3, <1>5, <2>1, LeakyConstants
  <2>5. d <= lRefused[c].after
    BY <1>2, <1>4, <2>4
  <2> QED
    BY <1>2, <1>4, <2>3, <2>5
<1> QED
  BY <1>1, <1>6, <1>7 DEF Leaky!Pour
=============================================================================
