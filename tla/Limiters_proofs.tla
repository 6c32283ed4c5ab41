---------------------------- MODULE Limiters_proofs ---------------------------
(***************************************************************************)
(* The window limiters, for any length of the window, any rate, whole or   *)
(* not, any limit and any horizon; and what all six limiters have in       *)
(* common.                                                                 *)
(***************************************************************************)
EXTENDS Buckets_proofs

(***************************************************************************)
(* What the histories record.                                              *)
(***************************************************************************)
Histories(H) == [0..H -> Nat]

\* Histories count downwards.
Falling(h) == \A s, t \in Int : s <= t => FromOn(h, t) <= FromOn(h, s)

\* From any time on there were some requests, or none.
LEMMA FromOnType ==
    ASSUME NEW H \in Nat, NEW h \in Histories(H), NEW s \in Int
    PROVE  FromOn(h, s) \in Nat
<1>1. DOMAIN h = 0..H /\ 0 \in 0..H /\ \A t \in 0..H : h[t] \in Nat
  BY DEF Histories
<1> QED
  BY <1>1 DEF FromOn

\* A request counts for every stretch that begins no later.
LEMMA RecordedFromOn ==
    ASSUME NEW H \in Nat, NEW h \in Histories(H), NEW t \in 0..H
    PROVE  /\ Recorded(h, t) \in Histories(H)
           /\ \A s \in Int : FromOn(Recorded(h, t), s) =
                  IF s <= t THEN FromOn(h, s) + 1 ELSE FromOn(h, s)
<1>1. DOMAIN h = 0..H /\ 0 \in 0..H /\ \A s \in 0..H : h[s] \in Nat
  BY DEF Histories
<1>2. /\ Recorded(h, t) \in Histories(H) /\ DOMAIN Recorded(h, t) = 0..H
      /\ \A s \in 0..H : Recorded(h, t)[s] = IF s <= t THEN h[s] + 1 ELSE h[s]
  BY <1>1 DEF Recorded, Histories
<1>3. ASSUME NEW s \in Int
      PROVE  FromOn(Recorded(h, t), s) =
                 IF s <= t THEN FromOn(h, s) + 1 ELSE FromOn(h, s)
  <2>1. CASE s < 0
    BY <1>1, <1>2, <2>1 DEF FromOn
  <2>2. CASE s \in 0..H
    BY <1>1, <1>2, <2>2 DEF FromOn
  <2>3. CASE s > H
    BY <1>1, <1>2, <2>3 DEF FromOn
  <2> QED
    BY <2>1, <2>2, <2>3
<1> QED
  BY <1>2, <1>3

LEMMA RecordedFalling ==
    ASSUME NEW H \in Nat, NEW h \in Histories(H), NEW t \in 0..H, Falling(h)
    PROVE  Falling(Recorded(h, t))
<1> SUFFICES ASSUME NEW r \in Int, NEW s \in Int, r <= s
             PROVE  FromOn(Recorded(h, t), s) <= FromOn(Recorded(h, t), r)
  BY DEF Falling
<1>1. FromOn(h, s) <= FromOn(h, r) /\ FromOn(h, s) \in Nat /\ FromOn(h, r) \in Nat
  BY FromOnType DEF Falling
<1> QED
  BY <1>1, RecordedFromOn

\* Nothing is recorded at first.
LEMMA EmptyHistory ==
    ASSUME NEW H \in Nat
    PROVE  /\ [t \in 0..H |-> 0] \in Histories(H)
           /\ Falling([t \in 0..H |-> 0])
           /\ \A s \in Int : FromOn([t \in 0..H |-> 0], s) = 0
<1>1. \A s \in Int : FromOn([t \in 0..H |-> 0], s) = 0
  BY DEF FromOn
<1> QED
  BY <1>1 DEF Histories, Falling

\* The limiters use the same histories.
LEMMA SameHistories ==
    /\ \A h, t : /\ Fixed!Recorded(h, t) = Recorded(h, t)
                 /\ Single!Recorded(h, t) = Recorded(h, t)
                 /\ Sliding!Recorded(h, t) = Recorded(h, t)
                 /\ Redis!Recorded(h, t) = Recorded(h, t)
    /\ \A h, s, n :
          /\ Fixed!Within(h, s, n) = FromOn(h, s) - FromOn(h, s + n)
          /\ Single!Within(h, s, n) = FromOn(h, s) - FromOn(h, s + n)
          /\ Sliding!Within(h, s, n) = FromOn(h, s) - FromOn(h, s + n)
          /\ Redis!Within(h, s, n) = FromOn(h, s) - FromOn(h, s + n)
<1>1. \A h, s : /\ Fixed!FromOn(h, s) = FromOn(h, s)
                /\ Single!FromOn(h, s) = FromOn(h, s)
                /\ Sliding!FromOn(h, s) = FromOn(h, s)
                /\ Redis!FromOn(h, s) = FromOn(h, s)
  BY DEF Fixed!FromOn, Single!FromOn, Sliding!FromOn, Redis!FromOn, FromOn
<1> QED
  BY <1>1
     DEF Fixed!Recorded, Single!Recorded, Sliding!Recorded, Redis!Recorded,
         Recorded, Fixed!Within, Single!Within, Sliding!Within, Redis!Within

\* What is assumed of the constants of the windows.
LEMMA WindowConstants ==
    /\ Interval \in Nat \ {0} /\ WindowRate \in Nat /\ WindowTime \in Nat
    /\ Limit \in Int /\ Window \in Nat \ {0} /\ Second \in Nat \ {0}
    /\ MaxCount \in Nat /\ LastRequest \in Nat /\ Faults \in BOOLEAN
  BY LimitersAssumption DEF Fixed!Parameters, Redis!Parameters

(***************************************************************************)
(* FixedWindowCounter.                                                     *)
(***************************************************************************)
\* The requests of the present window are those that were counted, none came
\* after it was over, and the j windows' time before it has seen no more than
\* j quotas.
FixedInv ==
    /\ Fixed!TypeOK /\ fStart <= fNow /\ Falling(fSince)
    /\ FromOn(fSince, fStart) = fCount
    /\ \A s \in Int :
        /\ s > fNow \/ s >= fStart + Interval => FromOn(fSince, s) = 0
        /\ s + Interval >= fStart => FromOn(fSince, s) <= fCount + WindowRate
        /\ s + 2 * Interval >= fStart
               => FromOn(fSince, s) <= fCount + 2 * WindowRate
    /\ Fixed!BurstBound

\* Initially nothing was counted.
LEMMA FixedInit == Fixed!Init => FixedInv
<1> SUFFICES ASSUME Fixed!Init PROVE FixedInv
  OBVIOUS
<1>1. /\ fNow = 0 /\ fStart = 0 /\ fCount = 0 /\ fAllowed = TRUE
      /\ fSince = [t \in 0..WindowTime |-> 0]
  BY DEF Fixed!Init, Fixed!Times
<1>2. /\ fSince \in Histories(WindowTime) /\ Falling(fSince)
      /\ \A s \in Int : FromOn(fSince, s) = 0
  BY <1>1, WindowConstants, EmptyHistory
<1>3. Fixed!TypeOK
  BY <1>1, <1>2, WindowConstants DEF Fixed!TypeOK, Fixed!Times, Histories
<1>4. Fixed!BurstBound
  <2> SUFFICES ASSUME NEW s \in Fixed!Times, NEW n \in 1..(2 * Interval)
               PROVE  0 <= WindowRate * (2 + (n - 1) \div Interval)
    BY <1>2, SameHistories, WindowConstants DEF Fixed!BurstBound, Fixed!Times
  <2>1. (n - 1) \div Interval \in Nat
    BY WindowConstants
  <2>2. \A k, m \in Nat : k * m \in Nat
    OBVIOUS
  <2> QED
    BY <2>1, <2>2, WindowConstants
<1> QED
  BY <1>1, <1>2, <1>3, <1>4, WindowConstants DEF FixedInv

\* The quotas a stretch of n ticks may see.
LEMMA QuotasOf ==
    ASSUME NEW n \in 1..(2 * Interval)
    PROVE  WindowRate * (2 + (n - 1) \div Interval) =
               IF n <= Interval THEN 2 * WindowRate ELSE 3 * WindowRate
<1> DEFINE k == (n - 1) \div Interval
<1>1. /\ k \in Int /\ k * Interval <= n - 1 /\ n - 1 < k * Interval + Interval
      /\ n \in Nat /\ n >= 1 /\ n <= 2 * Interval /\ Interval \in Nat \ {0}
  BY WindowConstants
<1> HIDE DEF k
<1>2. k >= 0
  <2>1. SUFFICES ASSUME k <= -1 PROVE FALSE
    BY <1>1
  <2>2. k * Interval <= (-1) * Interval
    BY <1>1, <2>1
  <2> QED
    BY <1>1, <2>2
<1>3. k <= 1
  <2>1. SUFFICES ASSUME k >= 2 PROVE FALSE
    BY <1>1
  <2>2. k * Interval >= 2 * Interval
    BY <1>1, <2>1
  <2> QED
    BY <1>1, <2>2
<1>4. k = IF n <= Interval THEN 0 ELSE 1
  <2>1. k = 0 \/ k = 1
    BY <1>1, <1>2, <1>3
  <2> QED
    BY <1>1, <2>1
<1> QED
  BY <1>4, WindowConstants DEF k

\* Allow counts the request, or does not, in the window it is in.
LEMMA FixedAllow == FixedInv /\ Fixed!Allow => FixedInv'
<1> SUFFICES ASSUME FixedInv, Fixed!Allow PROVE FixedInv'
  OBVIOUS
<1> DEFINE F(s) == FromOn(fSince, s)
           G(s) == FromOn(fSince', s)
           one == IF Fixed!UnderRate THEN 1 ELSE 0
<1>1. /\ fNow \in Int /\ fStart \in Int /\ fCount \in Nat
      /\ fCount <= WindowRate /\ WindowRate \in Nat
      /\ fStart <= fNow /\ fNow \in 0..WindowTime /\ Interval \in Nat \ {0}
      /\ fSince \in Histories(WindowTime) /\ WindowTime \in Nat
      /\ fStart \in 0..WindowTime
  BY WindowConstants
     DEF FixedInv, Fixed!TypeOK, Fixed!Times, Histories
<1>2. /\ fNow' = fNow /\ fStart' = Fixed!Start
      /\ fCount' = (IF Fixed!Over THEN 0 ELSE fCount) + one
      /\ fAllowed' = Fixed!UnderRate
      /\ fSince' = IF Fixed!UnderRate THEN Recorded(fSince, fNow) ELSE fSince
  BY SameHistories DEF Fixed!Allow
<1>3. \A s \in Int : F(s) \in Nat
  BY <1>1, FromOnType
<1>4. /\ fSince' \in Histories(WindowTime) /\ Falling(fSince')
      /\ \A s \in Int : G(s) = IF s <= fNow THEN F(s) + one ELSE F(s)
  BY <1>1, <1>2, <1>3, RecordedFromOn, RecordedFalling DEF FixedInv
<1>5. /\ F(fStart) = fCount
      /\ \A s \in Int :
          /\ s > fNow \/ s >= fStart + Interval => F(s) = 0
          /\ s + Interval >= fStart => F(s) <= fCount + WindowRate
          /\ s + 2 * Interval >= fStart => F(s) <= fCount + 2 * WindowRate
          /\ s >= fStart => F(s) <= fCount
  BY <1>1 DEF FixedInv, Falling
<1>6. one \in {0, 1} /\ (one = 1 => Fixed!UnderRate)
  OBVIOUS
<1> HIDE DEF F, G, one
<1>7. /\ fStart' \in 0..WindowTime /\ fStart' <= fNow /\ fStart' >= fStart
      /\ fCount' \in 0..WindowRate
  BY <1>1, <1>2, <1>6 DEF Fixed!Start, Fixed!Over, Fixed!UnderRate
<1>8. Fixed!TypeOK'
  BY <1>1, <1>2, <1>4, <1>7 DEF Fixed!TypeOK, Fixed!Times, Histories,
     Fixed!UnderRate, Fixed!Over
<1>9. /\ G(fStart') = fCount'
      /\ \A s \in Int :
          /\ s > fNow \/ s >= fStart' + Interval => G(s) = 0
          /\ s + Interval >= fStart' => G(s) <= fCount' + WindowRate
          /\ s + 2 * Interval >= fStart' => G(s) <= fCount' + 2 * WindowRate
  <2>1. CASE Fixed!Over
    <3>1. fStart' = fNow /\ fCount' = one /\ fNow >= fStart + Interval
      BY <1>1, <1>2, <1>6, <2>1 DEF Fixed!Start, Fixed!Over
    <3> QED
      BY <1>1, <1>3, <1>4, <1>5, <1>6, <3>1
  <2>2. CASE ~Fixed!Over
    <3>1. /\ fStart' = fStart /\ fCount' = fCount + one
          /\ fNow < fStart + Interval
      BY <1>1, <1>2, <1>6, <2>2 DEF Fixed!Start, Fixed!Over
    <3> QED
      BY <1>1, <1>3, <1>4, <1>5, <1>6, <3>1
  <2> QED
    BY <2>1, <2>2
<1>10. Fixed!BurstBound'
  <2> SUFFICES ASSUME NEW s \in Fixed!Times, NEW n \in 1..(2 * Interval)
               PROVE  G(s) - G(s + n)
                          <= WindowRate * (2 + (n - 1) \div Interval)
    BY SameHistories DEF Fixed!BurstBound, G, Fixed!Times
  <2> DEFINE b == WindowRate * (2 + (n - 1) \div Interval)
  <2>1. F(s) - F(s + n) <= b
    BY SameHistories DEF FixedInv, Fixed!BurstBound, F
  <2>2. b = IF n <= Interval THEN 2 * WindowRate ELSE 3 * WindowRate
    BY QuotasOf
  <2>3. s \in Int /\ n \in Int /\ s + n \in Int /\ n >= 1 /\ n <= 2 * Interval
    BY <1>1 DEF Fixed!Times
  <2>6. /\ fStart' \in Int /\ fNow \in Int /\ fStart' <= fNow
        /\ Interval \in Int
    BY <1>1, <1>7
  <2> HIDE DEF b
  <2>4. CASE s > fNow \/ s + n <= fNow
    BY <1>1, <1>3, <1>4, <1>6, <2>1, <2>2, <2>3, <2>4 DEF b
  <2>5. CASE s <= fNow /\ s + n > fNow
    <3>1. G(s + n) = 0 /\ G(s) \in Nat
      BY <1>1, <1>3, <1>4, <1>6, <1>9, <2>3, <2>5
    <3>2. n <= Interval => G(s) <= fCount' + WindowRate
      <4>1. n <= Interval => s + Interval >= fStart'
        BY <2>3, <2>5, <2>6
      <4> QED
        BY <1>9, <2>3, <4>1
    <3>3. G(s) <= fCount' + 2 * WindowRate
      <4>1. s + 2 * Interval >= fStart'
        BY <2>3, <2>5, <2>6
      <4> QED
        BY <1>9, <2>3, <4>1
    <3> QED
      BY <1>1, <1>7, <2>2, <2>3, <3>1, <3>2, <3>3 DEF b
  <2> QED
    BY <1>1, <2>3, <2>4, <2>5
<1> QED
  BY <1>2, <1>4, <1>7, <1>8, <1>9, <1>10 DEF FixedInv, G

\* Every step keeps the invariant.
LEMMA FixedNext == FixedInv /\ [Fixed!Next]_fixed => FixedInv'
<1> SUFFICES ASSUME FixedInv, [Fixed!Next]_fixed PROVE FixedInv'
  OBVIOUS
<1>1. CASE Fixed!Tick
  BY <1>1, WindowConstants
     DEF FixedInv, Fixed!Tick, Fixed!TypeOK, Fixed!Times, Fixed!BurstBound
<1>2. CASE UNCHANGED fixed
  BY <1>2 DEF fixed, FixedInv, Fixed!TypeOK, Fixed!BurstBound
<1> QED
  BY <1>1, <1>2, FixedAllow DEF Fixed!Next

\* A refusal is owed to the requests of the present window.
LEMMA FixedRefusal ==
    ASSUME FixedInv, [Fixed!Next]_fixed, ~fAllowed', fNow' = fNow,
           ~UNCHANGED fixed
    PROVE  Fixed!Within(fSince, fNow - Interval + 1, Interval) >= WindowRate
<1>1. /\ fNow \in Int /\ fStart \in Int /\ fCount \in Nat /\ WindowRate \in Nat
      /\ fStart <= fNow /\ Interval \in Nat \ {0}
      /\ fSince \in Histories(WindowTime) /\ WindowTime \in Nat
  BY WindowConstants
     DEF FixedInv, Fixed!TypeOK, Fixed!Times, Histories
<1>2. Fixed!Allow /\ ~Fixed!UnderRate
  BY <1>1 DEF Fixed!Next, Fixed!Tick, Fixed!Allow
<1>3. Fixed!Within(fSince, fNow - Interval + 1, Interval) =
          FromOn(fSince, fNow - Interval + 1)
  <2>1. (fNow - Interval + 1) + Interval = fNow + 1
    BY <1>1
  <2>2. FromOn(fSince, fNow + 1) = 0
    BY <1>1 DEF FixedInv
  <2>3. FromOn(fSince, fNow - Interval + 1) \in Nat
    BY <1>1, FromOnType
  <2> QED
    BY <2>1, <2>2, <2>3, SameHistories
<1>4. FromOn(fSince, fNow - Interval + 1) \in Nat
  BY <1>1, FromOnType
<1>5. CASE Fixed!Over
  BY <1>1, <1>2, <1>3, <1>4, <1>5 DEF Fixed!UnderRate
<1>6. CASE ~Fixed!Over
  <2>1. fNow - Interval + 1 <= fStart /\ fCount >= WindowRate
    BY <1>1, <1>2, <1>6 DEF Fixed!Over, Fixed!UnderRate
  <2>2. FromOn(fSince, fStart) <= FromOn(fSince, fNow - Interval + 1)
    BY <1>1, <2>1 DEF FixedInv, Falling
  <2> QED
    BY <1>1, <1>3, <1>4, <2>1, <2>2 DEF FixedInv
<1> QED
  BY <1>5, <1>6

(***************************************************************************)
(* What the weighting of a sliding window buys.                            *)
(***************************************************************************)
\* Products of natural numbers.
LEMMA Products ==
    /\ \A m, n \in Nat : m * n \in Nat
    /\ \A k, m, n \in Nat : k <= m => k * n <= m * n
<1>1. \A m, n \in Nat : m * n \in Nat
  OBVIOUS
<1>2. ASSUME NEW k \in Nat, NEW m \in Nat, NEW n \in Nat, k <= m
      PROVE  k * n <= m * n
  <2>1. m - k \in Nat
    BY <1>2
  <2>2. (m - k) * n \in Nat
    BY <1>1, <2>1
  <2>3. (m - k) * n = m * n - k * n
    OBVIOUS
  <2>4. k * n \in Nat /\ m * n \in Nat
    BY <1>1
  <2> QED
    BY <2>2, <2>3, <2>4
<1> QED
  BY <1>1, <1>2

\* A request that is admitted, e ticks into a window of I ticks, after c
\* requests in it and p in the window before, at a rate of r: the stretch of n
\* ticks that ends with it holds it, those c, and a of those p, if it reaches
\* back that far.
LEMMA WeightedAdmission ==
    ASSUME NEW I \in Nat, NEW r \in Nat, NEW p \in Nat, NEW c \in Nat,
           NEW e \in Nat, NEW n \in Nat, NEW a \in Nat,
           e < I, n >= 1, p * (I - e) + c * I < r * I, a <= p, a <= r,
           a = 0 \/ e + 2 <= n
    PROVE  (a + c + 1) * I < (r + 1) * I + r * (n - 1)
<1> DEFINE f == I - e
           m == n - 1
<1>1. f \in Nat /\ m \in Nat /\ I = f + e
  OBVIOUS
<1>2. a * f <= p * f
  BY <1>1, Products
<1>3. (a + c + 1) * I = a * I + c * I + I /\ (r + 1) * I = r * I + I
  OBVIOUS
<1>4. a * I = a * f + a * e
  OBVIOUS
<1>5. a * e <= r * m
  <2>1. CASE a = 0
    BY <1>1, <2>1, Products
  <2>2. CASE e <= m
    <3>1. a * e <= r * e /\ e * r <= m * r
      BY <1>1, <2>2, Products
    <3>2. e * r = r * e /\ m * r = r * m
      BY <1>1
    <3>3. a * e \in Int /\ r * e \in Int /\ r * m \in Int
      BY <1>1, Products
    <3> HIDE DEF m
    <3> QED
      BY <3>1, <3>2, <3>3
  <2> QED
    BY <1>1, <2>1, <2>2
<1>6. /\ a * f \in Int /\ p * f \in Int /\ a * e \in Int /\ a * I \in Int
      /\ r * m \in Int /\ c * I \in Int /\ r * I \in Int
  BY <1>1, Products
<1>7. p * f + c * I < r * I
  OBVIOUS
<1> HIDE DEF f, m
<1>8. (a + c + 1) * I < (r + 1) * I + r * m
  BY <1>2, <1>3, <1>4, <1>5, <1>6, <1>7
<1> QED
  BY <1>8 DEF m

\* A rate of R parts, G to a request, rounded up to whole requests.
LEMMA Rounding ==
    ASSUME NEW R \in Nat, NEW G \in Nat \ {0}, NEW Q,
           Q = (R + G - 1) \div G
    PROVE  /\ Q \in Nat /\ R <= Q * G /\ Q * G < R + G
           /\ R > 0 <=> Q > 0
<1>1. Q \in Int /\ Q * G <= R + G - 1 /\ R + G - 1 < Q * G + G
  BY Z3
<1>2. Q * G \in Int
  BY <1>1
<1>3. Q >= 0
  <2>1. SUFFICES ASSUME Q <= -1 PROVE FALSE
    BY <1>1
  <2>2. Q * G <= (-1) * G
    BY <1>1, <2>1
  <2> QED
    BY <1>1, <1>2, <2>2
<1>4. /\ Q = 0 => Q * G = 0
      /\ Q > 0 => Q * G >= G
  BY <1>1
<1> QED
  BY <1>1, <1>2, <1>3, <1>4

\* What is less than R parts for each of I, is less than the quota for each.
LEMMA UnderQuota ==
    ASSUME NEW R \in Nat, NEW G \in Nat \ {0}, NEW Q \in Nat, R <= Q * G,
           NEW I \in Nat, NEW X \in Int, X * G < R * I
    PROVE  X < Q * I
<1>1. SUFFICES ASSUME X >= Q * I PROVE FALSE
  OBVIOUS
<1>2. /\ Q * I \in Nat /\ X \in Nat /\ Q * G \in Nat
  <2>1. Q * I \in Nat /\ Q * G \in Nat
    BY Products
  <2> QED
    BY <1>1, <2>1
<1>3. (Q * I) * G <= X * G /\ R * I <= (Q * G) * I
  BY <1>1, <1>2, Products
<1>4. (Q * I) * G = (Q * G) * I
  OBVIOUS
<1>5. X * G \in Int /\ R * I \in Int /\ (Q * G) * I \in Int
  BY <1>2
<1> QED
  BY <1>3, <1>4, <1>5

(***************************************************************************)
(* SlidingWindowCounter, through its own Allow.                            *)
(***************************************************************************)
\* What is assumed of the rate of the windows that slide, and what a window of
\* this counter admits.
sQuota == Single!Quota

LEMMA SingleConstants ==
    /\ SlidingRate \in Nat /\ Grain \in Nat \ {0} /\ sQuota \in Nat
    /\ SlidingRate <= sQuota * Grain
    /\ SlidingRate > 0 <=> sQuota > 0
<1>1. SlidingRate \in Nat /\ Grain \in Nat \ {0}
  BY LimitersAssumption DEF Single!Parameters
<1>2. sQuota = (SlidingRate + Grain - 1) \div Grain
  BY DEF sQuota, Single!Quota
<1> QED
  BY <1>1, <1>2, Rounding

\* The requests of the present window are those counted, none came after it
\* was over; those of the Interval ticks before it are no more than a quota,
\* and previousCount, which forgets nothing, counts them.  A window that was
\* started has a request.
SingleInv ==
    /\ Single!TypeOK /\ windowStart <= sNow /\ Falling(sSince)
    /\ FromOn(sSince, windowStart) = currentCount
    /\ \A s \in Int :
        /\ s > sNow \/ s >= windowStart + Interval => FromOn(sSince, s) = 0
        /\ s + Interval >= windowStart
               => /\ FromOn(sSince, s) <= currentCount + sQuota
                  /\ FromOn(sSince, s) <= currentCount + previousCount
    /\ sQuota > 0 => currentCount > 0 \/ previousCount = 0
    /\ Single!BurstBound

\* Initially nothing was counted.
LEMMA SingleInit == Single!Init => SingleInv
<1> SUFFICES ASSUME Single!Init PROVE SingleInv
  OBVIOUS
<1>1. /\ sNow = 0 /\ windowStart = 0 /\ currentCount = 0 /\ previousCount = 0
      /\ allowed = TRUE /\ sSince = [t \in 0..WindowTime |-> 0]
  BY DEF Single!Init, Single!Times
<1>2. /\ sSince \in Histories(WindowTime) /\ Falling(sSince)
      /\ \A s \in Int : FromOn(sSince, s) = 0
  BY <1>1, WindowConstants, SingleConstants, EmptyHistory
<1>3. Single!TypeOK
  BY <1>1, <1>2, WindowConstants, SingleConstants
     DEF Single!TypeOK, Single!Times, Histories, sQuota
<1>4. Single!BurstBound
  <2> SUFFICES ASSUME NEW s \in Single!Times, NEW n \in 1..Interval
               PROVE  0 * Interval < (sQuota + 1) * Interval
                                         + sQuota * (n - 1)
    BY <1>2, SameHistories, WindowConstants, SingleConstants
       DEF Single!BurstBound, Single!Times, sQuota
  <2>1. n - 1 \in Nat /\ sQuota * (n - 1) \in Nat
    BY WindowConstants, SingleConstants, Products
  <2>2. /\ (sQuota + 1) * Interval = sQuota * Interval + Interval
        /\ sQuota * Interval \in Nat /\ 0 * Interval = 0
    BY WindowConstants, SingleConstants, Products
  <2> QED
    BY <2>1, <2>2, WindowConstants, SingleConstants
<1> QED
  BY <1>1, <1>2, <1>3, <1>4, WindowConstants, SingleConstants DEF SingleInv

\* What the code computes before it decides.
LEMMA SingleWeight ==
    ASSUME Single!TypeOK, windowStart <= sNow
    PROVE  /\ Single!Shifts => Single!Weighted = 0
           /\ ~Single!Shifts =>
                 Single!Weighted =
                     previousCount * (Interval - Single!elapsed)
                         + currentCount * Interval
           /\ Single!elapsed \in Nat
           /\ Single!Weighted \in Nat
<1>1. /\ previousCount \in Nat /\ currentCount \in Nat
      /\ sNow \in Int /\ windowStart \in Int /\ Interval \in Nat \ {0}
  BY WindowConstants, SingleConstants DEF Single!TypeOK, Single!Times
<1>2. Single!elapsed \in Nat
  BY <1>1 DEF Single!elapsed
<1>3. CASE Single!Shifts
  <2> DEFINE p == previousCount + currentCount
             d == Single!elapsed - Interval
  <2>1. p \in Nat /\ d \in Nat
    BY <1>1, <1>2, <1>3 DEF Single!Shifts
  <2>2. p * (Interval - Single!elapsed) = -(p * d) /\ p * d \in Nat
    BY <1>1, <1>2, <2>1, Products
  <2>3. Single!Weighted = IF p * (Interval - Single!elapsed) + 0 * Interval > 0
                          THEN p * (Interval - Single!elapsed) + 0 * Interval
                          ELSE 0
    BY <1>3 DEF Single!Weighted, Single!current
  <2> HIDE DEF p, d
  <2> QED
    BY <1>1, <1>2, <1>3, <2>2, <2>3
<1>4. CASE ~Single!Shifts
  <2> DEFINE w == previousCount * (Interval - Single!elapsed)
                      + currentCount * Interval
  <2>1. Interval - Single!elapsed \in Nat
    BY <1>1, <1>2, <1>4 DEF Single!Shifts
  <2>2. w \in Nat
    <3>1. /\ previousCount * (Interval - Single!elapsed) \in Nat
          /\ currentCount * Interval \in Nat
      BY <1>1, <2>1, Products
    <3> QED
      BY <3>1
  <2>3. Single!Weighted = IF w > 0 THEN w ELSE 0
    BY <1>4 DEF Single!Weighted, Single!current
  <2>4. Single!Weighted = w
    <3> HIDE DEF w
    <3> QED
      BY <2>2, <2>3
  <2> QED
    BY <1>2, <1>4, <2>2, <2>4
<1> QED
  BY <1>3, <1>4

\* What is under the rate is under the quota, and nothing is under any rate.
LEMMA SingleUnder ==
    ASSUME Single!TypeOK, windowStart <= sNow
    PROVE  /\ Single!UnderRate => Single!Weighted < sQuota * Interval
           /\ Single!Weighted = 0 /\ sQuota > 0 => Single!UnderRate
<1>1. /\ Single!Weighted \in Nat /\ Interval \in Nat \ {0}
      /\ SlidingRate \in Nat /\ Grain \in Nat \ {0} /\ sQuota \in Nat
      /\ SlidingRate <= sQuota * Grain
      /\ SlidingRate > 0 <=> sQuota > 0
  BY SingleWeight, SingleConstants, WindowConstants
<1>2. Single!UnderRate <=> Single!Weighted * Grain < SlidingRate * Interval
  BY DEF Single!UnderRate
<1>3. Single!UnderRate => Single!Weighted < sQuota * Interval
  BY <1>1, <1>2, UnderQuota
<1>4. 0 * Grain = 0 /\ (SlidingRate > 0 => SlidingRate * Interval > 0)
  BY <1>1
<1> QED
  BY <1>1, <1>2, <1>3, <1>4

\* Allow starts a window, or goes on with the present one.
LEMMA SingleAllow == SingleInv /\ Single!Allow => SingleInv'
<1> SUFFICES ASSUME SingleInv, Single!Allow PROVE SingleInv'
  OBVIOUS
<1> DEFINE F(s) == FromOn(sSince, s)
           G(s) == FromOn(sSince', s)
           one == IF Single!UnderRate THEN 1 ELSE 0
<1>1. /\ sNow \in Int /\ windowStart \in Int
      /\ currentCount \in Nat /\ currentCount <= sQuota
      /\ previousCount \in Nat /\ sQuota \in Nat
      /\ windowStart <= sNow /\ Interval \in Nat \ {0} /\ WindowTime \in Nat
      /\ sNow \in 0..WindowTime /\ windowStart \in 0..WindowTime
      /\ sSince \in Histories(WindowTime) /\ Single!TypeOK
  BY WindowConstants, SingleConstants
     DEF SingleInv, Single!TypeOK, Single!Times, Histories, sQuota
<1>2. /\ sNow' = sNow
      /\ windowStart' = IF Single!Shifts THEN sNow ELSE windowStart
      /\ currentCount' = IF Single!Shifts THEN one ELSE currentCount + one
      /\ previousCount' = IF Single!Shifts THEN previousCount + currentCount
                          ELSE previousCount
      /\ allowed' = Single!UnderRate
      /\ sSince' = IF Single!UnderRate THEN Recorded(sSince, sNow) ELSE sSince
  BY <1>1, SameHistories DEF Single!Allow, Single!current
<1>3. \A s \in Int : F(s) \in Nat
  BY <1>1, FromOnType
<1>4. /\ sSince' \in Histories(WindowTime) /\ Falling(sSince')
      /\ \A s \in Int : G(s) = IF s <= sNow THEN F(s) + one ELSE F(s)
  BY <1>1, <1>2, <1>3, RecordedFromOn, RecordedFalling DEF SingleInv
<1>5. /\ F(windowStart) = currentCount
      /\ \A s \in Int :
          /\ s > sNow \/ s >= windowStart + Interval => F(s) = 0
          /\ s + Interval >= windowStart
                 => /\ F(s) <= currentCount + sQuota
                    /\ F(s) <= currentCount + previousCount
          /\ s >= windowStart => F(s) <= currentCount
  BY <1>1 DEF SingleInv, Falling
<1>6. one \in {0, 1} /\ (one = 1 <=> Single!UnderRate)
  OBVIOUS
<1>7. Single!Shifts <=> sNow >= windowStart + Interval
  BY <1>1 DEF Single!Shifts, Single!elapsed
<1> HIDE DEF F, G, one
<1>8. Single!UnderRate => sQuota > 0 /\ (~Single!Shifts =>
                                                currentCount < sQuota)
  <2> SUFFICES ASSUME Single!UnderRate
               PROVE  sQuota > 0 /\ (~Single!Shifts =>
                                            currentCount < sQuota)
    OBVIOUS
  <2>1. Single!Weighted < sQuota * Interval /\ Single!Weighted \in Nat
    BY <1>1, SingleWeight, SingleUnder
  <2>2. sQuota > 0
    <3>1. sQuota = 0 => sQuota * Interval = 0
      BY <1>1
    <3> QED
      BY <1>1, <2>1, <3>1
  <2>3. ASSUME ~Single!Shifts, currentCount >= sQuota PROVE FALSE
    <3>1. /\ previousCount * (Interval - Single!elapsed) \in Nat
          /\ sQuota * Interval <= currentCount * Interval
          /\ currentCount * Interval \in Nat /\ sQuota * Interval \in Nat
      <4>1. Interval - Single!elapsed \in Nat
        BY <1>1, <2>3, SingleWeight DEF Single!Shifts
      <4> QED
        BY <1>1, <2>3, <4>1, Products
    <3>2. Single!Weighted = previousCount * (Interval - Single!elapsed)
                                + currentCount * Interval
      BY <1>1, <2>3, SingleWeight
    <3> QED
      BY <2>1, <3>1, <3>2
  <2> QED
    BY <1>1, <2>2, <2>3
<1>9. /\ windowStart' \in 0..WindowTime /\ windowStart' <= sNow
      /\ currentCount' \in 0..sQuota /\ previousCount' \in Nat
  BY <1>1, <1>2, <1>6, <1>8
<1>10. Single!TypeOK'
  BY <1>1, <1>2, <1>4, <1>9
     DEF Single!TypeOK, Single!Times, Histories, Single!UnderRate, sQuota
<1>11. /\ G(windowStart') = currentCount'
       /\ \A s \in Int :
           /\ s > sNow \/ s >= windowStart' + Interval => G(s) = 0
           /\ s + Interval >= windowStart'
                  => /\ G(s) <= currentCount' + sQuota
                     /\ G(s) <= currentCount' + previousCount'
  <2>1. CASE Single!Shifts
    <3>1. /\ windowStart' = sNow /\ currentCount' = one
          /\ previousCount' = previousCount + currentCount
          /\ sNow >= windowStart + Interval
      BY <1>2, <1>7, <2>1
    <3> QED
      BY <1>1, <1>3, <1>4, <1>5, <1>6, <3>1
  <2>2. CASE ~Single!Shifts
    <3>1. /\ windowStart' = windowStart /\ currentCount' = currentCount + one
          /\ previousCount' = previousCount /\ sNow < windowStart + Interval
      BY <1>1, <1>2, <1>7, <2>2
    <3> QED
      BY <1>1, <1>3, <1>4, <1>5, <1>6, <3>1
  <2> QED
    BY <2>1, <2>2
<1>12. sQuota > 0 => currentCount' > 0 \/ previousCount' = 0
  <2> SUFFICES ASSUME sQuota > 0
               PROVE  currentCount' > 0 \/ previousCount' = 0
    OBVIOUS
  <2>1. CASE Single!Shifts
    <3>2. Single!UnderRate
      BY <1>1, <2>1, SingleWeight, SingleUnder
    <3> QED
      BY <1>2, <1>6, <2>1, <3>2
  <2>2. CASE ~Single!Shifts
    BY <1>1, <1>2, <1>6, <2>2 DEF SingleInv
  <2> QED
    BY <2>1, <2>2
<1>13. Single!BurstBound'
  <2> SUFFICES ASSUME NEW s \in Single!Times, NEW n \in 1..Interval
               PROVE  (G(s) - G(s + n)) * Interval
                          < (sQuota + 1) * Interval + sQuota * (n - 1)
    BY SameHistories DEF Single!BurstBound, G, Single!Times, sQuota
  <2>1. (F(s) - F(s + n)) * Interval
            < (sQuota + 1) * Interval + sQuota * (n - 1)
    BY SameHistories DEF SingleInv, Single!BurstBound, F, sQuota
  <2>2. s \in Int /\ n \in Nat /\ s + n \in Int /\ n >= 1 /\ n <= Interval
    BY <1>1 DEF Single!Times
  <2>3. CASE s > sNow \/ s + n <= sNow \/ one = 0
    <3>1. G(s) - G(s + n) = F(s) - F(s + n)
      BY <1>1, <1>3, <1>4, <1>6, <2>2, <2>3
    <3> QED
      BY <2>1, <3>1
  <2>4. CASE s <= sNow /\ s + n > sNow /\ one = 1
    <3>1. /\ G(s + n) = 0 /\ G(s) = F(s) + 1 /\ F(s) \in Nat
          /\ G(s) - G(s + n) = F(s) + 1
      BY <1>1, <1>3, <1>4, <1>6, <1>11, <2>2, <2>4
    <3>2. SUFFICES (F(s) + 1) * Interval
                       < (sQuota + 1) * Interval + sQuota * (n - 1)
      BY <3>1
    <3>3. sQuota > 0
      BY <1>6, <1>8, <2>4
    <3>4. CASE Single!Shifts
      <4>1. s >= windowStart /\ F(s) <= sQuota
        BY <1>1, <1>3, <1>5, <1>7, <2>2, <2>4, <3>4
      <4>2. n = 1 => F(s) = 0
        BY <1>1, <1>5, <1>7, <2>2, <2>4, <3>4
      <4>3. /\ (F(s) + 1) * Interval = F(s) * Interval + Interval
            /\ (sQuota + 1) * Interval = sQuota * Interval + Interval
            /\ F(s) * Interval <= sQuota * Interval
            /\ F(s) * Interval \in Nat /\ sQuota * Interval \in Nat
        BY <1>1, <3>1, <4>1, Products
      <4>4. CASE n = 1
        <5>1. F(s) * Interval = 0 /\ sQuota * Interval > 0
          BY <1>1, <3>3, <4>2, <4>4
        <5>2. sQuota * (n - 1) = 0
          BY <1>1, <4>4
        <5> QED
          BY <1>1, <4>3, <5>1, <5>2
      <4>5. CASE n > 1
        <5>1. sQuota * (n - 1) > 0 /\ sQuota * (n - 1) \in Nat
          BY <1>1, <2>2, <3>3, <4>5
        <5> QED
          BY <1>1, <4>3, <5>1
      <4> QED
        BY <2>2, <4>4, <4>5
    <3>5. CASE ~Single!Shifts
      <4> DEFINE e == Single!elapsed
                 a == IF s >= windowStart THEN 0 ELSE F(s) - currentCount
                 c == IF s >= windowStart THEN F(s) ELSE currentCount
      <4>1. /\ e \in Nat /\ e < Interval /\ e = sNow - windowStart
            /\ previousCount * (Interval - e) + currentCount * Interval
                   < sQuota * Interval
        BY <1>1, <1>6, <2>4, <3>5, SingleWeight, SingleUnder
           DEF Single!Shifts, Single!elapsed
      <4>2. s < windowStart => F(s) >= currentCount
        BY <1>1, <1>5, <2>2 DEF SingleInv, Falling, F
      <4>3. s + Interval >= windowStart
        BY <1>1, <2>2, <2>4
      <4>4. /\ a \in Nat /\ a <= previousCount /\ a <= sQuota
            /\ c \in Nat /\ c <= currentCount /\ F(s) = a + c
        BY <1>1, <1>5, <2>2, <3>1, <4>2, <4>3
      <4>5. a = 0 \/ e + 2 <= n
        BY <1>1, <2>2, <2>4, <4>1
      <4> HIDE DEF a, c, e
      <4>6. c * Interval <= currentCount * Interval
        BY <1>1, <4>4, Products
      <4>7. previousCount * (Interval - e) + c * Interval
                < sQuota * Interval
        <5>1. /\ previousCount * (Interval - e) \in Int
              /\ c * Interval \in Int /\ currentCount * Interval \in Int
              /\ sQuota * Interval \in Int
          BY <1>1, <4>1, <4>4
        <5> QED
          BY <4>1, <4>6, <5>1
      <4>8. (a + c + 1) * Interval
                < (sQuota + 1) * Interval + sQuota * (n - 1)
        BY <1>1, <2>2, <4>1, <4>4, <4>5, <4>7, WeightedAdmission
      <4> QED
        BY <4>4, <4>8
    <3> QED
      BY <3>4, <3>5
  <2> QED
    BY <1>1, <1>6, <2>2, <2>3, <2>4
<1> QED
  BY <1>2, <1>4, <1>9, <1>10, <1>11, <1>12, <1>13 DEF SingleInv, G

\* Every step keeps the invariant.
LEMMA SingleNext == SingleInv /\ [Single!Next]_single => SingleInv'
<1> SUFFICES ASSUME SingleInv, [Single!Next]_single PROVE SingleInv'
  OBVIOUS
<1>1. CASE Single!Tick
  BY <1>1, WindowConstants, SingleConstants
     DEF SingleInv, Single!Tick, Single!TypeOK, Single!Times,
         Single!BurstBound
<1>2. CASE UNCHANGED single
  BY <1>2 DEF single, SingleInv, Single!TypeOK, Single!BurstBound
<1> QED
  BY <1>1, <1>2, SingleAllow DEF Single!Next

\* Who is refused was admitted something lately.
LEMMA SingleRefusal ==
    ASSUME SingleInv, [Single!Next]_single, ~UNCHANGED single,
           SlidingRate > 0, ~allowed', sNow' = sNow
    PROVE  Single!Within(sSince, sNow - Interval + 1, Interval) > 0
<1>1. /\ sNow \in Int /\ windowStart \in Int /\ currentCount \in Nat
      /\ previousCount \in Nat /\ sQuota \in Nat /\ sQuota > 0
      /\ Single!TypeOK
      /\ windowStart <= sNow /\ Interval \in Nat \ {0} /\ WindowTime \in Nat
      /\ sSince \in Histories(WindowTime)
  BY WindowConstants, SingleConstants
     DEF SingleInv, Single!TypeOK, Single!Times, Histories
<1>2. ~Single!UnderRate
  BY <1>1 DEF Single!Next, Single!Tick, Single!Allow
<1>4. ~Single!Shifts
  BY <1>1, <1>2, SingleWeight, SingleUnder
<1>5. currentCount > 0
  <2>1. SUFFICES ASSUME currentCount = 0, previousCount = 0 PROVE FALSE
    BY <1>1 DEF SingleInv
  <2>2. /\ 0 * (Interval - Single!elapsed) = 0 /\ 0 * Interval = 0
    BY <1>1, SingleWeight
  <2>3. Single!Weighted = 0
    BY <1>1, <1>4, <2>1, <2>2, SingleWeight
  <2> QED
    BY <1>1, <1>2, <2>3, SingleUnder
<1>6. sNow - Interval + 1 <= windowStart
  BY <1>1, <1>4 DEF Single!Shifts, Single!elapsed
<1>7. currentCount <= FromOn(sSince, sNow - Interval + 1)
  BY <1>1, <1>6 DEF SingleInv, Falling
<1>8. /\ (sNow - Interval + 1) + Interval = sNow + 1
      /\ FromOn(sSince, sNow + 1) = 0
      /\ FromOn(sSince, sNow - Interval + 1) \in Nat
  BY <1>1, FromOnType DEF SingleInv
<1> QED
  BY <1>5, <1>7, <1>8, <1>1, SameHistories

(***************************************************************************)
(* SlidingWindowAllow.                                                     *)
(***************************************************************************)
quota == Sliding!Quota
parts == OneIfNone(SlidingRate)

\* What a counter k says at time t of the requests in h: how many there are in
\* its window and in the one before; none came after the window was over.
Counted(h, k, t) ==
    /\ k.windowStart <= t /\ Falling(h)
    /\ FromOn(h, k.windowStart) = k.currentCount
    /\ FromOn(h, k.windowStart - Interval) = k.previousCount + k.currentCount
    /\ \A s \in Int : s > t \/ s >= k.windowStart + Interval => FromOn(h, s) = 0

Bounded(h) ==
    \A s \in Sliding!Times, n \in 1..Interval :
        (FromOn(h, s) - FromOn(h, s + n)) * Interval
            < (quota + 1) * Interval + quota * (n - 1)

\* The weight of a counter at time t, in its own window.
WeightAt(k, t) ==
    k.previousCount * (Interval - (t - k.windowStart))
        + k.currentCount * Interval

\* The same in parts of a request, as it is compared with the rate.
LoadAt(k, t) ==
    (k.previousCount * Grain) * (Interval - (t - k.windowStart))
        + (k.currentCount * Grain) * Interval

\* A refusal r is the answer to a counter k that was full then, and tells when
\* it will not be.
Owed(k, r) ==
    r.after > 0 =>
        /\ k.windowStart <= r.at /\ r.at < k.windowStart + Interval
        /\ LoadAt(k, r.at) >= parts * Interval
        /\ r.after =
               IF k.previousCount * Grain > 0 /\ k.currentCount * Grain < parts
               THEN PositiveOrOne((LoadAt(k, r.at) - parts * Interval)
                                      \div (k.previousCount * Grain))
               ELSE Interval - (r.at - k.windowStart)

SlidingInvOf(c) ==
    /\ Counted(wSince[c], counter[c], wNow) /\ Bounded(wSince[c])
    /\ wRefused[c].at <= wNow /\ Owed(counter[c], wRefused[c])
    /\ c \notin wMade => /\ wRefused[c].after = 0
                         /\ \A s \in Int : FromOn(wSince[c], s) = 0

SlidingInv ==
    /\ Sliding!TypeOK
    /\ \A q \in Reqs : wPc[q] = "count" => wClient[q] \in wMade
    /\ \A c \in Clients : SlidingInvOf(c)

\* The constants of this limiter, and its counters.
LEMMA SlidingConstants ==
    /\ Interval \in Nat \ {0} /\ quota \in Nat \ {0} /\ WindowTime \in Nat
    /\ parts \in Nat \ {0} /\ Grain \in Nat \ {0} /\ parts <= quota * Grain
    /\ Sliding!Times = 0..WindowTime
    /\ Sliding!Counters = [previousCount : 0..quota, currentCount : 0..quota,
                           windowStart : 0..WindowTime]
<1>1. parts \in Nat \ {0} /\ Grain \in Nat \ {0}
  BY SingleConstants DEF parts, OneIfNone
<1>2. quota = (parts + Grain - 1) \div Grain
  BY DEF quota, parts, Sliding!Quota
<1>3. quota \in Nat \ {0} /\ parts <= quota * Grain
  <2>1. quota \in Nat /\ parts <= quota * Grain /\ (parts > 0 <=> quota > 0)
    BY <1>1, <1>2, Rounding
  <2> QED
    BY <1>1, <2>1
<1> QED
  BY <1>1, <1>3, WindowConstants DEF quota, Sliding!Times, Sliding!Counters

LEMMA CounterTypes ==
    ASSUME NEW k \in Sliding!Counters
    PROVE  /\ k.previousCount \in Nat /\ k.previousCount <= quota
           /\ k.currentCount \in Nat /\ k.currentCount <= quota
           /\ k.windowStart \in 0..WindowTime /\ k.windowStart \in Int
  BY SlidingConstants

\* The counts in parts of a request.
LEMMA CounterParts ==
    ASSUME NEW k \in Sliding!Counters
    PROVE  /\ k.previousCount * Grain \in Nat /\ k.currentCount * Grain \in Nat
           /\ k.currentCount * Grain <= quota * Grain
           /\ k.currentCount = 0 => k.currentCount * Grain = 0
           /\ k.previousCount = 0 => k.previousCount * Grain = 0
           /\ k.previousCount > 0 <=> k.previousCount * Grain > 0
<1>1. /\ k.previousCount \in Nat /\ k.previousCount <= quota
      /\ k.currentCount \in Nat /\ k.currentCount <= quota
      /\ Grain \in Nat \ {0} /\ quota \in Nat
  BY CounterTypes, SlidingConstants
<1>2. /\ k.previousCount * Grain \in Nat /\ k.currentCount * Grain \in Nat
      /\ k.currentCount * Grain <= quota * Grain
  BY <1>1, Products
<1>3. /\ k.currentCount = 0 => k.currentCount * Grain = 0
      /\ k.previousCount = 0 => k.previousCount * Grain = 0
      /\ k.previousCount > 0 <=> k.previousCount * Grain > 0
  BY <1>1
<1> QED
  BY <1>2, <1>3

LEMMA SlidingTypes ==
    ASSUME Sliding!TypeOK, NEW c \in Clients
    PROVE  /\ wNow \in 0..WindowTime /\ wNow \in Int
           /\ counter[c] \in Sliding!Counters
           /\ wSince[c] \in Histories(WindowTime)
           /\ wRefused[c] \in Sliding!Refusals
           /\ wRefused[c].at \in Int /\ wRefused[c].after \in Nat
<1>1. /\ wNow \in 0..WindowTime /\ counter[c] \in Sliding!Counters
      /\ wSince[c] \in Histories(WindowTime)
      /\ wRefused[c] \in Sliding!Refusals
  BY SlidingConstants DEF Sliding!TypeOK, Histories
<1>2. wRefused[c].at \in Int /\ wRefused[c].after \in Nat
  BY <1>1, SlidingConstants DEF Sliding!Refusals
<1> QED
  BY <1>1, <1>2, SlidingConstants

\* Whole windows in d ticks.
LEMMA WholeWindows ==
    ASSUME NEW d \in Nat
    PROVE  /\ d \div Interval \in Nat /\ (d \div Interval) * Interval \in Nat
           /\ (d \div Interval) * Interval <= d
           /\ d < (d \div Interval) * Interval + Interval
           /\ d \div Interval = 0 => (d \div Interval) * Interval = 0
           /\ d \div Interval = 1 => (d \div Interval) * Interval = Interval
           /\ d \div Interval > 1
                  => (d \div Interval) * Interval >= 2 * Interval
<1> DEFINE q == d \div Interval
<1>1. /\ q \in Int /\ q * Interval <= d /\ d < q * Interval + Interval
      /\ Interval \in Nat \ {0}
  BY SlidingConstants
<1> HIDE DEF q
<1>2. q >= 0
  <2>1. SUFFICES ASSUME q <= -1 PROVE FALSE
    BY <1>1
  <2>2. q * Interval <= (-1) * Interval
    BY <1>1, <2>1
  <2> QED
    BY <1>1, <2>2
<1>3. q * Interval \in Nat
  BY <1>1, <1>2, Products
<1>4. q > 1 => q * Interval >= 2 * Interval
  BY <1>1, <1>2, Products
<1> QED
  BY <1>1, <1>2, <1>3, <1>4 DEF q

\* Moved on to the window that now is in, a counter says what it said.
LEMMA ShiftedCounts ==
    ASSUME Sliding!TypeOK, NEW c \in Clients,
           Counted(wSince[c], counter[c], wNow)
    PROVE  /\ Sliding!Shifted(c) \in Sliding!Counters
           /\ Counted(wSince[c], Sliding!Shifted(c), wNow)
           /\ wNow < Sliding!Shifted(c).windowStart + Interval
           /\ wNow < counter[c].windowStart + Interval
                  => Sliding!Shifted(c) = counter[c]
           /\ wNow >= counter[c].windowStart + Interval
                  => /\ Sliding!Shifted(c).currentCount = 0
                     /\ Sliding!Shifted(c).previousCount = 0 \/
                            /\ Sliding!Shifted(c).previousCount
                                   = counter[c].currentCount
                            /\ Sliding!Shifted(c).windowStart
                                   = counter[c].windowStart + Interval
<1> DEFINE k == counter[c]
           d == wNow - k.windowStart
           q == d \div Interval
           n == Sliding!Shifted(c)
           F(s) == FromOn(wSince[c], s)
<1>1. /\ k \in Sliding!Counters /\ k.windowStart \in Int
      /\ k.windowStart \in 0..WindowTime
      /\ k.previousCount \in Nat /\ k.currentCount \in Nat
      /\ k.currentCount \in 0..quota /\ quota \in Nat
      /\ wNow \in Int /\ wNow \in 0..WindowTime /\ d \in Nat
      /\ wNow = k.windowStart + d
      /\ Interval \in Nat \ {0} /\ WindowTime \in Nat
  BY SlidingTypes, CounterTypes, SlidingConstants DEF Counted
<1>2. n = IF q = 0 THEN k
          ELSE [previousCount |-> IF q = 1 THEN k.currentCount ELSE 0,
                currentCount |-> 0,
                windowStart |-> k.windowStart + q * Interval]
  BY DEF Sliding!Shifted
<1>3. /\ q \in Nat /\ q * Interval \in Nat /\ q * Interval <= d
      /\ d < q * Interval + Interval
      /\ q = 0 => q * Interval = 0
      /\ q = 1 => q * Interval = Interval
      /\ q > 1 => q * Interval >= 2 * Interval
  <2> HIDE DEF d
  <2> QED
    BY <1>1, WholeWindows
<1>4. /\ Falling(wSince[c]) /\ F(k.windowStart) = k.currentCount
      /\ \A s \in Int : s > wNow \/ s >= k.windowStart + Interval => F(s) = 0
  BY DEF Counted
<1>5. Counted(wSince[c], k, wNow)
  OBVIOUS
<1> HIDE DEF n, q, d, k, F
<1>6. CASE q = 0
  <2>1. n = k
    BY <1>2, <1>6
  <2>2. q * Interval = 0 /\ d < q * Interval + Interval
    BY <1>3, <1>6
  <2>3. wNow < k.windowStart + Interval
    BY <1>1, <2>2
  <2> QED
    BY <1>1, <1>5, <2>1, <2>3 DEF n, k
<1>7. CASE q # 0
  <2> DEFINE w == k.windowStart + q * Interval
  <2>1. /\ n.windowStart = w /\ n.currentCount = 0
        /\ n.previousCount = IF q = 1 THEN k.currentCount ELSE 0
        /\ n = [previousCount |-> IF q = 1 THEN k.currentCount ELSE 0,
                currentCount |-> 0, windowStart |-> w]
    BY <1>2, <1>7
  <2>2. /\ w \in Int /\ w <= wNow /\ wNow < w + Interval
        /\ w >= k.windowStart + Interval
        /\ q = 1 => w - Interval = k.windowStart
        /\ q # 1 => w - Interval >= k.windowStart + Interval
    BY <1>1, <1>3, <1>7
  <2> HIDE DEF w
  <2>3. w \in 0..WindowTime
    BY <1>1, <2>2
  <2>4. n \in Sliding!Counters
    BY <1>1, <2>1, <2>3, SlidingConstants
  <2>5. /\ F(w) = 0 /\ F(w - Interval) = n.previousCount
        /\ \A s \in Int : s > wNow \/ s >= w + Interval => F(s) = 0
    <3>1. F(w) = 0
      BY <1>4, <2>2
    <3>2. F(w - Interval) = n.previousCount
      <4>1. w - Interval \in Int
        BY <1>1, <2>2
      <4> QED
        BY <1>4, <2>1, <2>2, <4>1
    <3>3. \A s \in Int : s >= w + Interval => s > wNow
      BY <1>1, <2>2
    <3> QED
      BY <1>4, <3>1, <3>2, <3>3
  <2>6. n.previousCount + n.currentCount = n.previousCount
    BY <1>1, <2>1
  <2>7. Counted(wSince[c], n, wNow)
    BY <1>4, <2>1, <2>2, <2>5, <2>6 DEF Counted, F
  <2>8. wNow >= k.windowStart + Interval
    BY <1>1, <2>2
  <2>9. n.previousCount = 0 \/ /\ n.previousCount = k.currentCount
                               /\ n.windowStart = k.windowStart + Interval
    BY <1>1, <1>3, <2>1 DEF w
  <2> QED
    BY <1>1, <2>1, <2>2, <2>4, <2>7, <2>8, <2>9 DEF n, k
<1> QED
  BY <1>6, <1>7

\* A request that is admitted is counted, and keeps the bound.
LEMMA AdmittedCounts ==
    ASSUME NEW t \in 0..WindowTime, NEW h \in Histories(WindowTime), Bounded(h),
           NEW k \in Sliding!Counters, Counted(h, k, t),
           t < k.windowStart + Interval, WeightAt(k, t) < quota * Interval
    PROVE  /\ Recorded(h, t) \in Histories(WindowTime)
           /\ [k EXCEPT !.currentCount = @ + 1] \in Sliding!Counters
           /\ Counted(Recorded(h, t), [k EXCEPT !.currentCount = @ + 1], t)
           /\ Bounded(Recorded(h, t))
<1> DEFINE w == k.windowStart
           e == t - w
           p == k.previousCount
           c == k.currentCount
           F(s) == FromOn(h, s)
           G(s) == FromOn(Recorded(h, t), s)
           n == [k EXCEPT !.currentCount = @ + 1]
<1>1. /\ t \in Int /\ w \in Int /\ w <= t /\ w \in 0..WindowTime
      /\ e \in Nat /\ e < Interval /\ e = t - w
      /\ p \in Nat /\ c \in Nat /\ p <= quota /\ c <= quota
      /\ p * (Interval - e) + c * Interval < quota * Interval
      /\ Interval \in Nat \ {0} /\ quota \in Nat \ {0} /\ WindowTime \in Nat
  BY CounterTypes, SlidingConstants DEF Counted, WeightAt
<1>2. /\ Falling(h) /\ F(w) = c /\ F(w - Interval) = p + c
      /\ \A s \in Int : s > t \/ s >= w + Interval => F(s) = 0
  BY DEF Counted
<1>3. \A s \in Int : F(s) \in Nat
  BY <1>1, FromOnType
<1>4. /\ Recorded(h, t) \in Histories(WindowTime) /\ Falling(Recorded(h, t))
      /\ \A s \in Int : G(s) = IF s <= t THEN F(s) + 1 ELSE F(s)
  BY <1>1, <1>2, RecordedFromOn, RecordedFalling
<1>5. /\ n.windowStart = w /\ n.currentCount = c + 1 /\ n.previousCount = p
      /\ k \in [previousCount : 0..quota, currentCount : 0..quota,
                windowStart : 0..WindowTime]
  BY SlidingConstants
<1>6. \A s, r \in Int : s <= r => F(r) <= F(s)
  BY <1>2 DEF Falling
<1> HIDE DEF w, e, p, c, F, G
<1>7. c < quota
  <2>1. SUFFICES ASSUME c >= quota PROVE FALSE
    BY <1>1
  <2>2. p * (Interval - e) \in Nat /\ quota * Interval <= c * Interval
    <3>1. Interval - e \in Nat
      BY <1>1
    <3> QED
      BY <1>1, <2>1, <3>1, Products
  <2>3. quota * Interval \in Int /\ c * Interval \in Int
    BY <1>1
  <2> QED
    BY <1>1, <2>2, <2>3
<1>8. n \in Sliding!Counters
  <2>1. c + 1 \in 0..quota
    BY <1>1, <1>7
  <2> QED
    BY <1>5, <2>1, SlidingConstants DEF c
<1>9. Counted(Recorded(h, t), n, t)
  <2>1. G(w) = c + 1
    BY <1>1, <1>2, <1>4
  <2>2. G(w - Interval) = p + (c + 1)
    <3>1. w - Interval \in Int /\ w - Interval <= t
      BY <1>1
    <3> QED
      BY <1>1, <1>2, <1>4, <3>1
  <2>3. \A s \in Int : s > t \/ s >= w + Interval => G(s) = 0
    BY <1>1, <1>2, <1>4
  <2> HIDE DEF n
  <2> QED
    BY <1>1, <1>4, <1>5, <2>1, <2>2, <2>3 DEF Counted, G
<1>10. Bounded(Recorded(h, t))
  <2> SUFFICES ASSUME NEW s \in Sliding!Times, NEW m \in 1..Interval
               PROVE  (G(s) - G(s + m)) * Interval
                          < (quota + 1) * Interval + quota * (m - 1)
    BY DEF Bounded, G
  <2>1. (F(s) - F(s + m)) * Interval
            < (quota + 1) * Interval + quota * (m - 1)
    BY DEF Bounded, F
  <2>2. s \in Int /\ m \in Nat /\ s + m \in Int /\ m >= 1 /\ m <= Interval
    BY <1>1, SlidingConstants
  <2>3. CASE s > t \/ s + m <= t
    <3>1. G(s) - G(s + m) = F(s) - F(s + m)
      BY <1>1, <1>3, <1>4, <2>2, <2>3
    <3> QED
      BY <2>1, <3>1
  <2>4. CASE s <= t /\ s + m > t
    <3>1. G(s) - G(s + m) = F(s) + 1
      BY <1>1, <1>2, <1>3, <1>4, <2>2, <2>4
    <3> DEFINE a == IF s >= w THEN 0 ELSE F(s) - c
               b == IF s >= w THEN F(s) ELSE c
    <3>2. s < w => F(s) >= c /\ F(s) <= p + c
      <4>1. s < w => s >= w - Interval /\ w - Interval \in Int
        BY <1>1, <2>2, <2>4
      <4> QED
        BY <1>1, <1>2, <1>3, <1>6, <2>2, <4>1
    <3>3. s >= w => F(s) <= c
      BY <1>1, <1>2, <1>3, <1>6, <2>2
    <3>4. /\ a \in Nat /\ b \in Nat /\ a <= p /\ a <= quota /\ b <= c
          /\ F(s) = a + b
      BY <1>1, <1>3, <2>2, <3>2, <3>3
    <3>5. a = 0 \/ e + 2 <= m
      BY <1>1, <2>2, <2>4
    <3> HIDE DEF a, b
    <3>6. b * Interval <= c * Interval
      BY <1>1, <3>4, Products
    <3>7. p * (Interval - e) + b * Interval < quota * Interval
      <4>1. /\ p * (Interval - e) \in Int /\ b * Interval \in Int
            /\ c * Interval \in Int /\ quota * Interval \in Int
        BY <1>1, <3>4
      <4> QED
        BY <1>1, <3>6, <4>1
    <3>8. (a + b + 1) * Interval
              < (quota + 1) * Interval + quota * (m - 1)
      BY <1>1, <2>2, <3>4, <3>5, <3>7, WeightedAdmission
    <3> QED
      BY <3>1, <3>4, <3>8
  <2> QED
    BY <1>1, <2>2, <2>3, <2>4
<1> QED
  BY <1>4, <1>8, <1>9, <1>10 DEF n

\* Initially nothing was counted.
LEMMA SlidingInit == Sliding!Init => SlidingInv
<1> SUFFICES ASSUME Sliding!Init PROVE SlidingInv
  OBVIOUS
<1> DEFINE h == [t \in 0..WindowTime |-> 0]
           k == [previousCount |-> 0, currentCount |-> 0, windowStart |-> 0]
<1>1. /\ wNow = 0 /\ wMade = {} /\ wPc = [q \in Reqs |-> "idle"]
      /\ wClient = [q \in Reqs |-> CHOOSE c \in Clients : TRUE]
      /\ counter = [c \in Clients |-> k] /\ wSince = [c \in Clients |-> h]
      /\ wRefused = [c \in Clients |-> [at |-> 0, after |-> 0]]
  BY DEF Sliding!Init, Sliding!Times, Sliding!Fresh, Sliding!Allowed
<1>2. /\ h \in Histories(WindowTime) /\ Falling(h)
      /\ \A s \in Int : FromOn(h, s) = 0
  BY SlidingConstants, EmptyHistory
<1>3. /\ k \in Sliding!Counters /\ [at |-> 0, after |-> 0] \in Sliding!Refusals
      /\ k.windowStart = 0 /\ k.previousCount = 0 /\ k.currentCount = 0
  BY SlidingConstants DEF Sliding!Refusals
<1>4. Counted(h, k, 0)
  BY <1>2, <1>3, SlidingConstants DEF Counted
<1>5. Bounded(h)
  <2> SUFFICES ASSUME NEW s \in Sliding!Times, NEW n \in 1..Interval
               PROVE  0 * Interval < (quota + 1) * Interval + quota * (n - 1)
    BY <1>2, SlidingConstants DEF Bounded
  <2>1. n - 1 \in Nat /\ quota * (n - 1) \in Nat
    BY SlidingConstants, Products
  <2>2. /\ (quota + 1) * Interval = quota * Interval + Interval
        /\ quota * Interval \in Nat /\ 0 * Interval = 0
    BY SlidingConstants, Products
  <2> QED
    BY <2>1, <2>2, SlidingConstants
<1> HIDE DEF h, k
<1>6. Sliding!TypeOK
  <2>1. (CHOOSE c \in Clients : TRUE) \in Clients
    BY LimitersAssumption DEF Sliding!Parameters
  <2> QED
    BY <1>1, <1>2, <1>3, <2>1, SlidingConstants DEF Sliding!TypeOK, Histories
<1>7. ASSUME NEW c \in Clients PROVE SlidingInvOf(c)
  <2>1. /\ wSince[c] = h /\ counter[c] = k /\ wNow = 0
        /\ wRefused[c].at = 0 /\ wRefused[c].after = 0
    BY <1>1
  <2> QED
    BY <1>2, <1>4, <1>5, <2>1 DEF SlidingInvOf, Owed
<1>8. \A q \in Reqs : wPc[q] # "count"
  BY <1>1
<1> QED
  BY <1>6, <1>7, <1>8 DEF SlidingInv

\* A request looks its counter up, and makes it if there is none.
LEMMA SlidingLookUp ==
    ASSUME SlidingInv, NEW q \in Reqs, NEW c \in Clients, Sliding!LookUp(q, c)
    PROVE  SlidingInv'
<1> DEFINE k == [previousCount |-> 0, currentCount |-> 0, windowStart |-> wNow]
<1>1. /\ wPc' = [wPc EXCEPT ![q] = "count"]
      /\ wClient' = [wClient EXCEPT ![q] = c] /\ wMade' = wMade \cup {c}
      /\ counter' = [counter EXCEPT
                        ![c] = IF c \in wMade THEN counter[c] ELSE k]
      /\ wNow' = wNow /\ wRefused' = wRefused /\ wSince' = wSince
  BY DEF Sliding!LookUp, Sliding!Fresh
<1>2. /\ Sliding!TypeOK
      /\ \A p \in Reqs : wPc[p] = "count" => wClient[p] \in wMade
      /\ \A d \in Clients : SlidingInvOf(d)
  BY DEF SlidingInv
<1>3. /\ k \in Sliding!Counters
      /\ k.windowStart = wNow /\ k.previousCount = 0 /\ k.currentCount = 0
  BY <1>2, SlidingTypes, SlidingConstants
<1> HIDE DEF k
<1>4. Sliding!TypeOK'
  BY <1>1, <1>2, <1>3 DEF Sliding!TypeOK
<1>5. \A p \in Reqs : wPc'[p] = "count" => wClient'[p] \in wMade'
  BY <1>1, <1>2 DEF Sliding!TypeOK
<1>6. ASSUME NEW d \in Clients PROVE SlidingInvOf(d)'
  <2>1. /\ Counted(wSince[d], counter[d], wNow) /\ Bounded(wSince[d])
        /\ wRefused[d].at <= wNow /\ Owed(counter[d], wRefused[d])
        /\ d \notin wMade => /\ wRefused[d].after = 0
                             /\ \A s \in Int : FromOn(wSince[d], s) = 0
    BY <1>2 DEF SlidingInvOf
  <2>2. CASE d = c /\ c \notin wMade
    <3>1. counter'[d] = k /\ d \in wMade'
      BY <1>1, <1>2, <2>2 DEF Sliding!TypeOK
    <3>2. Counted(wSince[d], k, wNow)
      <4>1. wNow \in Int /\ wNow - Interval \in Int
        BY <1>2, SlidingTypes, SlidingConstants
      <4> QED
        BY <1>3, <2>1, <2>2, <4>1 DEF Counted
    <3>3. Owed(k, wRefused[d])
      BY <1>2, <2>1, <2>2, SlidingTypes DEF Owed
    <3> QED
      BY <1>1, <2>1, <3>1, <3>2, <3>3 DEF SlidingInvOf
  <2>3. CASE ~(d = c /\ c \notin wMade)
    <3>1. counter'[d] = counter[d] /\ (d \notin wMade' => d \notin wMade)
      BY <1>1, <1>2, <2>3 DEF Sliding!TypeOK
    <3> QED
      BY <1>1, <2>1, <3>1 DEF SlidingInvOf
  <2> QED
    BY <2>2, <2>3
<1> QED
  BY <1>4, <1>5, <1>6 DEF SlidingInv

\* What the code compares is the weight, in parts the load; what is under the
\* rate is under the quota.
LEMMA SlidingWeight ==
    ASSUME Sliding!TypeOK, NEW k \in Sliding!Counters
    PROVE  /\ Sliding!UnderRate(k) <=> LoadAt(k, wNow) < parts * Interval
           /\ Sliding!UnderRate(k) => WeightAt(k, wNow) < quota * Interval
<1> DEFINE p == k.previousCount
           c == k.currentCount
           e == Interval - (wNow - k.windowStart)
           w == p * e + c * Interval
<1>1. /\ p \in Nat /\ c \in Nat /\ e \in Int /\ Interval \in Nat
      /\ Grain \in Nat \ {0} /\ parts \in Nat /\ quota \in Nat
      /\ parts <= quota * Grain
  <2>1. wNow \in Int
    BY SlidingConstants DEF Sliding!TypeOK
  <2> QED
    BY <2>1, CounterTypes, SlidingConstants
<1>2. /\ WeightAt(k, wNow) = w
      /\ Sliding!UnderRate(k) <=> w * Grain < parts * Interval
      /\ LoadAt(k, wNow) = (p * Grain) * e + (c * Grain) * Interval
  BY DEF WeightAt, LoadAt, parts, Sliding!UnderRate, Sliding!Weighted
<1> HIDE DEF p, c, e
<1>3. w \in Int /\ w * Grain = (p * Grain) * e + (c * Grain) * Interval
  BY <1>1
<1> HIDE DEF w
<1>4. w * Grain < parts * Interval => w < quota * Interval
  BY <1>1, <1>3, UnderQuota
<1> QED
  BY <1>2, <1>3, <1>4

\* The time the code tells is owed.
LEMMA RefusalOwed ==
    ASSUME Sliding!TypeOK, NEW k \in Sliding!Counters,
           k.windowStart <= wNow, wNow < k.windowStart + Interval,
           LoadAt(k, wNow) >= parts * Interval
    PROVE  /\ [at |-> wNow, after |-> Sliding!RetryAfter(k)]
                  \in Sliding!Refusals
           /\ Sliding!RetryAfter(k) > 0
           /\ Owed(k, [at |-> wNow, after |-> Sliding!RetryAfter(k)])
<1> DEFINE e == wNow - k.windowStart
           p == k.previousCount * Grain
           c == k.currentCount * Grain
           a == LoadAt(k, wNow) - parts * Interval
           ticks == IF p > 0 /\ c < parts THEN a \div p ELSE Interval - e
<1>1. /\ p \in Nat /\ c \in Nat /\ e \in Nat /\ e < Interval
      /\ wNow \in 0..WindowTime /\ wNow \in Int
      /\ Interval \in Nat \ {0} /\ parts \in Nat
      /\ k.windowStart \in Int
      /\ k.previousCount > 0 <=> p > 0
  <2>1. wNow \in 0..WindowTime /\ WindowTime \in Nat
    BY SlidingConstants DEF Sliding!TypeOK
  <2> QED
    BY <2>1, CounterTypes, CounterParts, SlidingConstants
<1>2. LoadAt(k, wNow) = p * (Interval - e) + c * Interval
  BY DEF LoadAt
<1>3. (p - (parts - c)) * Interval - e * p = a
  <2>1. /\ (p - (parts - c)) * Interval
               = p * Interval - parts * Interval + c * Interval
        /\ p * (Interval - e) = p * Interval - e * p
    <3> HIDE DEF e, p, c
    <3> QED
      BY <1>1
  <2>2. /\ p * Interval \in Int /\ parts * Interval \in Int
        /\ c * Interval \in Int /\ e * p \in Int
    <3> HIDE DEF e, p, c
    <3> QED
      BY <1>1
  <2> HIDE DEF e, p, c
  <2> QED
    BY <1>2, <2>1, <2>2
<1>4. a \in Nat
  <2> HIDE DEF e, p, c
  <2>1. /\ p * (Interval - e) \in Int /\ c * Interval \in Int
        /\ parts * Interval \in Int
    BY <1>1
  <2> QED
    BY <1>2, <2>1
<1>5. Sliding!RetryAfter(k) = IF ticks > 0 THEN ticks ELSE 1
  <2>1. Sliding!Full(k) <=> ~(c < parts)
    <3> HIDE DEF p
    <3>1. Sliding!Full(k) <=> c >= parts
      BY DEF Sliding!Full, parts
    <3> HIDE DEF c
    <3> QED
      BY <1>1, <3>1
  <2> HIDE DEF a
  <2>2. Sliding!RetryAfter(k) =
            LET tk == IF k.previousCount > 0 /\ ~Sliding!Full(k)
                      THEN ((p - (parts - c)) * Interval - e * p) \div p
                      ELSE Interval - e
            IN  IF tk > 0 THEN tk ELSE 1
    BY DEF Sliding!RetryAfter, parts
  <2> HIDE DEF p, c, e
  <2> QED
    BY <1>1, <1>3, <2>1, <2>2
<1>6. /\ Sliding!RetryAfter(k) \in Nat \ {0}
      /\ Sliding!RetryAfter(k) = IF p > 0 /\ c < parts
                                 THEN PositiveOrOne(a \div p)
                                 ELSE Interval - e
  <2> HIDE DEF a, e, p, c
  <2>1. CASE p > 0 /\ c < parts
    <3>1. a \in Nat /\ p \in Nat \ {0} /\ 0 \in Nat
      BY <1>1, <1>4, <2>1
    <3>2. PositiveOrOne(a \div p) \in Nat \ {0}
      BY <3>1, Quotient
    <3> QED
      BY <1>5, <2>1, <3>2 DEF PositiveOrOne
  <2>2. CASE ~(p > 0 /\ c < parts)
    BY <1>1, <1>5, <2>2
  <2> QED
    BY <2>1, <2>2
<1> DEFINE r == [at |-> wNow, after |-> Sliding!RetryAfter(k)]
<1>7. /\ r.at = wNow /\ r.after = Sliding!RetryAfter(k)
      /\ r \in Sliding!Refusals
  <2> HIDE DEF p, c, a, ticks
  <2> QED
    BY <1>1, <1>6, SlidingConstants DEF Sliding!Refusals
<1> HIDE DEF r
<1>8. Owed(k, r)
  BY <1>6, <1>7 DEF Owed
<1> QED
  BY <1>6, <1>7, <1>8 DEF r

\* How the load of a counter falls.
LEMMA LoadOf ==
    ASSUME NEW k \in Sliding!Counters, NEW t \in Int
    PROVE  /\ LoadAt(k, t) \in Int
           /\ parts * Interval \in Int
           /\ k.currentCount = 0 => LoadAt(k, t) =
                  (k.previousCount * Grain) * (Interval - (t - k.windowStart))
           /\ k.previousCount = 0 /\ k.currentCount = 0 => LoadAt(k, t) = 0
           /\ LoadAt(k, k.windowStart + Interval)
                  = (k.currentCount * Grain) * Interval
<1> DEFINE p == k.previousCount * Grain
           c == k.currentCount * Grain
           e == Interval - (t - k.windowStart)
<1>1. /\ p \in Nat /\ c \in Nat /\ e \in Int /\ Interval \in Nat
      /\ k.windowStart \in Int
      /\ k.currentCount = 0 => c = 0
      /\ k.previousCount = 0 => p = 0
  BY CounterTypes, CounterParts, SlidingConstants
<1>2. LoadAt(k, t) = p * e + c * Interval
  BY DEF LoadAt
<1>3. LoadAt(k, k.windowStart + Interval) = p * 0 + c * Interval
  <2>1. Interval - ((k.windowStart + Interval) - k.windowStart) = 0
    BY <1>1
  <2> QED
    BY <2>1 DEF LoadAt
<1> HIDE DEF p, c, e
<1>4. /\ p * e \in Int /\ c * Interval \in Int /\ p * 0 = 0
      /\ p = 0 => p * e = 0
      /\ c = 0 => c * Interval = 0
  BY <1>1
<1>5. /\ LoadAt(k, t) \in Int
      /\ c = 0 => LoadAt(k, t) = p * e
      /\ p = 0 /\ c = 0 => LoadAt(k, t) = 0
      /\ LoadAt(k, k.windowStart + Interval) = c * Interval
  BY <1>2, <1>3, <1>4
<1>6. parts * Interval \in Int
  BY SlidingConstants
<1> QED
  BY <1>1, <1>5, <1>6 DEF p, c, e

LEMMA LoadFalls ==
    ASSUME NEW k \in Sliding!Counters, NEW t \in Int, NEW d \in Nat
    PROVE  /\ LoadAt(k, t + d) = LoadAt(k, t) - d * (k.previousCount * Grain)
           /\ LoadAt(k, t) \in Int /\ d * (k.previousCount * Grain) \in Int
<1> DEFINE p == k.previousCount * Grain
           c == k.currentCount * Grain
           e == Interval - (t - k.windowStart)
<1>1. /\ p \in Nat /\ c \in Nat /\ e \in Int /\ Interval \in Nat
      /\ k.windowStart \in Int
  BY CounterTypes, CounterParts, SlidingConstants
<1>2. /\ LoadAt(k, t) = p * e + c * Interval
      /\ LoadAt(k, t + d) = p * (e - d) + c * Interval
  <2>1. Interval - ((t + d) - k.windowStart) = e - d
    BY <1>1
  <2> QED
    BY <2>1 DEF LoadAt
<1> HIDE DEF p, c, e
<1>3. /\ p * (e - d) = p * e - d * p /\ p * e \in Int /\ d * p \in Int
      /\ c * Interval \in Int
  BY <1>1
<1> QED
  BY <1>2, <1>3 DEF p

\* A request is answered.
LEMMA SlidingCount ==
    ASSUME SlidingInv, NEW q \in Reqs, Sliding!Count(q)
    PROVE  SlidingInv'
<1>0. PICK c \in Clients : wClient[q] = c
  BY DEF SlidingInv, Sliding!TypeOK
<1> DEFINE n == Sliding!Shifted(c)
<1>1. /\ Sliding!TypeOK /\ c \in wMade
      /\ \A p \in Reqs : wPc[p] = "count" => wClient[p] \in wMade
      /\ \A d \in Clients : SlidingInvOf(d)
  BY <1>0 DEF SlidingInv, Sliding!Count
<1>2. /\ wPc' = [wPc EXCEPT ![q] = "idle"]
      /\ wNow' = wNow /\ wMade' = wMade /\ wClient' = wClient
      /\ Sliding!Allow(c, n) \/ Sliding!Refuse(c, n)
  BY <1>0 DEF Sliding!Count
<1>3. /\ Counted(wSince[c], counter[c], wNow) /\ Bounded(wSince[c])
      /\ wRefused[c].at <= wNow /\ Owed(counter[c], wRefused[c])
  BY <1>1 DEF SlidingInvOf
<1>4. /\ n \in Sliding!Counters /\ Counted(wSince[c], n, wNow)
      /\ wNow < n.windowStart + Interval /\ n.windowStart <= wNow
  BY <1>1, <1>3, ShiftedCounts DEF Counted
<1>5. /\ wNow \in 0..WindowTime /\ wSince[c] \in Histories(WindowTime)
  BY <1>1, SlidingTypes
<1> HIDE DEF n
<1>6. ASSUME NEW d \in Clients, d # c,
             counter'[d] = counter[d], wRefused'[d] = wRefused[d],
             wSince'[d] = wSince[d]
      PROVE  SlidingInvOf(d)'
  BY <1>1, <1>2, <1>6 DEF SlidingInvOf
<1>7. \A p \in Reqs : wPc'[p] = "count" => wClient'[p] \in wMade'
  BY <1>1, <1>2 DEF Sliding!TypeOK
<1>8. CASE Sliding!Allow(c, n)
  <2> DEFINE k == [n EXCEPT !.currentCount = @ + 1]
             h == Recorded(wSince[c], wNow)
  <2>1. /\ counter' = [counter EXCEPT ![c] = k]
        /\ wRefused' = [wRefused EXCEPT ![c] = [at |-> 0, after |-> 0]]
        /\ wSince' = [wSince EXCEPT ![c] = h]
        /\ WeightAt(n, wNow) < quota * Interval
    BY <1>1, <1>4, <1>8, SlidingWeight, SameHistories
       DEF Sliding!Allow, Sliding!Allowed
  <2>2. /\ h \in Histories(WindowTime) /\ k \in Sliding!Counters
        /\ Counted(h, k, wNow) /\ Bounded(h)
    BY <1>3, <1>4, <1>5, <2>1, AdmittedCounts
  <2>3. [at |-> 0, after |-> 0] \in Sliding!Refusals
    BY SlidingConstants DEF Sliding!Refusals
  <2> HIDE DEF k, h
  <2>4. Sliding!TypeOK'
    BY <1>1, <1>2, <2>1, <2>2, <2>3, SlidingConstants
       DEF Sliding!TypeOK, Histories
  <2>5. SlidingInvOf(c)'
    <3>1. /\ counter'[c] = k /\ wSince'[c] = h
          /\ wRefused'[c].at = 0 /\ wRefused'[c].after = 0
      BY <1>1, <2>1 DEF Sliding!TypeOK
    <3>2. 0 <= wNow
      BY <1>5, SlidingConstants
    <3> QED
      BY <1>1, <1>2, <2>2, <3>1, <3>2 DEF SlidingInvOf, Owed
  <2>6. ASSUME NEW d \in Clients PROVE SlidingInvOf(d)'
    <3>1. CASE d # c
      <4>1. /\ counter'[d] = counter[d] /\ wRefused'[d] = wRefused[d]
            /\ wSince'[d] = wSince[d]
        BY <1>1, <2>1, <3>1 DEF Sliding!TypeOK
      <4> QED
        BY <1>6, <3>1, <4>1
    <3> QED
      BY <2>5, <3>1
  <2> QED
    BY <1>7, <2>4, <2>6 DEF SlidingInv
<1>9. CASE Sliding!Refuse(c, n)
  <2> DEFINE r == [at |-> wNow, after |-> Sliding!RetryAfter(n)]
  <2>1. /\ counter' = [counter EXCEPT ![c] = n]
        /\ wRefused' = [wRefused EXCEPT ![c] = r]
        /\ wSince' = wSince
        /\ LoadAt(n, wNow) >= parts * Interval
    <3>1. LoadAt(n, wNow) \in Int /\ parts * Interval \in Int
      BY <1>1, <1>4, SlidingTypes, LoadOf
    <3> QED
      BY <1>1, <1>4, <1>9, <3>1, SlidingWeight DEF Sliding!Refuse
  <2>2. r \in Sliding!Refusals /\ Owed(n, r) /\ r.at = wNow
    BY <1>1, <1>4, <2>1, RefusalOwed
  <2> HIDE DEF r
  <2>4. Sliding!TypeOK'
    BY <1>1, <1>2, <1>4, <2>1, <2>2 DEF Sliding!TypeOK
  <2>5. SlidingInvOf(c)'
    <3>1. counter'[c] = n /\ wRefused'[c] = r
      BY <1>1, <2>1 DEF Sliding!TypeOK
    <3>2. wNow <= wNow
      BY <1>5, SlidingConstants
    <3> QED
      BY <1>1, <1>2, <1>3, <1>4, <2>1, <2>2, <3>1, <3>2 DEF SlidingInvOf
  <2>6. ASSUME NEW d \in Clients PROVE SlidingInvOf(d)'
    <3>1. CASE d # c
      <4>1. /\ counter'[d] = counter[d] /\ wRefused'[d] = wRefused[d]
            /\ wSince'[d] = wSince[d]
        BY <1>1, <2>1, <3>1 DEF Sliding!TypeOK
      <4> QED
        BY <1>6, <3>1, <4>1
    <3> QED
      BY <2>5, <3>1
  <2> QED
    BY <1>7, <2>4, <2>6 DEF SlidingInv
<1> QED
  BY <1>2, <1>8, <1>9

\* Every step keeps the invariant.
LEMMA SlidingNext == SlidingInv /\ [Sliding!Next]_sliding => SlidingInv'
<1> SUFFICES ASSUME SlidingInv, [Sliding!Next]_sliding PROVE SlidingInv'
  OBVIOUS
<1>1. CASE Sliding!Tick
  <2>1. /\ wNow' = wNow + 1 /\ wNow < WindowTime
        /\ UNCHANGED <<wMade, counter, wPc, wClient, wRefused, wSince>>
    BY <1>1 DEF Sliding!Tick
  <2>2. wNow \in 0..WindowTime /\ WindowTime \in Nat
    BY SlidingConstants DEF SlidingInv, Sliding!TypeOK
  <2>3. Sliding!TypeOK'
    BY <2>1, <2>2, SlidingConstants DEF SlidingInv, Sliding!TypeOK
  <2>4. ASSUME NEW c \in Clients PROVE SlidingInvOf(c)'
    <3>1. /\ SlidingInvOf(c) /\ wRefused[c].at \in Int
          /\ counter[c].windowStart \in Int
      BY SlidingTypes, CounterTypes DEF SlidingInv
    <3>2. Counted(wSince[c], counter[c], wNow')
      BY <2>1, <2>2, <3>1 DEF SlidingInvOf, Counted
    <3> QED
      BY <2>1, <2>2, <3>1, <3>2 DEF SlidingInvOf
  <2> QED
    BY <2>1, <2>3, <2>4 DEF SlidingInv
<1>2. CASE UNCHANGED sliding
  BY <1>2 DEF sliding, SlidingInv, SlidingInvOf, Sliding!TypeOK
<1>3. ASSUME NEW q \in Reqs,
             Sliding!Count(q) \/ \E c \in Clients : Sliding!LookUp(q, c)
      PROVE  SlidingInv'
  BY <1>3, SlidingCount, SlidingLookUp
<1> QED
  BY <1>1, <1>2, <1>3 DEF Sliding!Next

\* What the invariant says of the counters and of the admissions.
LEMMA SlidingCounts ==
    SlidingInv => Sliding!CountersAreTrue /\ Sliding!BurstBound
<1> SUFFICES ASSUME SlidingInv
             PROVE  Sliding!CountersAreTrue /\ Sliding!BurstBound
  OBVIOUS
<1>1. ASSUME NEW c \in Clients
      PROVE  LET k == counter[c] IN
             /\ k.currentCount = Sliding!Within(wSince[c], k.windowStart,
                                                Interval)
             /\ k.previousCount = Sliding!Within(wSince[c],
                                                 k.windowStart - Interval,
                                                 Interval)
  <2> DEFINE k == counter[c]
  <2>1. /\ k.windowStart \in Int /\ k.currentCount \in Nat
        /\ k.previousCount \in Nat /\ Interval \in Nat
        /\ Counted(wSince[c], k, wNow)
    BY SlidingTypes, CounterTypes, SlidingConstants
       DEF SlidingInv, SlidingInvOf
  <2> HIDE DEF k
  <2>2. /\ (k.windowStart - Interval) + Interval = k.windowStart
        /\ FromOn(wSince[c], k.windowStart + Interval) = 0
    BY <2>1 DEF Counted
  <2>3. /\ Sliding!Within(wSince[c], k.windowStart, Interval)
               = k.currentCount - 0
        /\ Sliding!Within(wSince[c], k.windowStart - Interval, Interval)
               = (k.previousCount + k.currentCount) - k.currentCount
    BY <2>1, <2>2, SameHistories DEF Counted
  <2>4. /\ k.currentCount = Sliding!Within(wSince[c], k.windowStart, Interval)
        /\ k.previousCount
               = Sliding!Within(wSince[c], k.windowStart - Interval, Interval)
    BY <2>1, <2>3
  <2> QED
    BY <2>4 DEF k
<1>2. Sliding!BurstBound
  BY SameHistories
     DEF SlidingInv, SlidingInvOf, Bounded, Sliding!BurstBound, quota
<1> QED
  BY <1>1, <1>2 DEF Sliding!CountersAreTrue

\* In the window of the refusal, what is owed is the time until the load is
\* under the rate, or until the window ends.
LEMMA OwedInWindow ==
    ASSUME NEW k \in Sliding!Counters, NEW r \in Sliding!Refusals,
           r.after > 0, Owed(k, r), NEW t \in Int, r.at <= t,
           t < k.windowStart + Interval
    PROVE  IF LoadAt(k, t) < parts * Interval
           THEN t >= r.at + r.after ELSE t <= r.at + r.after
<1> DEFINE p == k.previousCount * Grain
           c == k.currentCount * Grain
           d == t - r.at
           a == LoadAt(k, r.at) - parts * Interval
<1>1. /\ p \in Nat /\ c \in Nat /\ parts \in Nat \ {0}
      /\ Interval \in Nat \ {0} /\ r.at \in Int /\ k.windowStart \in Int
      /\ d \in Nat /\ t = r.at + d /\ r.after \in Nat
  BY CounterTypes, CounterParts, SlidingConstants DEF Sliding!Refusals
<1>2. /\ k.windowStart <= r.at /\ r.at < k.windowStart + Interval
      /\ LoadAt(k, r.at) >= parts * Interval
      /\ r.after = IF p > 0 /\ c < parts THEN PositiveOrOne(a \div p)
                   ELSE Interval - (r.at - k.windowStart)
  BY DEF Owed
<1>3. /\ LoadAt(k, t) = LoadAt(k, r.at) - d * p
      /\ LoadAt(k, r.at) \in Int /\ d * p \in Int
      /\ parts * Interval \in Int /\ parts * Interval > 0
      /\ p = 0 => LoadAt(k, t) = LoadAt(k, r.at)
  <2> HIDE DEF d
  <2>1. /\ LoadAt(k, r.at + d) = LoadAt(k, r.at) - d * p
        /\ LoadAt(k, r.at) \in Int /\ d * p \in Int
    BY <1>1, LoadFalls
  <2>2. parts * Interval \in Int /\ parts * Interval > 0
    BY <1>1
  <2>3. p = 0 => d * p = 0
    BY <1>1
  <2> HIDE DEF p
  <2> QED
    BY <1>1, <2>1, <2>2, <2>3
<1>4. a \in Nat
  BY <1>2, <1>3
<1> HIDE DEF p, c, d, a
<1>5. CASE p > 0 /\ c < parts
  <2>1. /\ p \in Nat \ {0}
        /\ d * p >= a /\ d > 0 => d >= PositiveOrOne(a \div p)
        /\ d * p <= a => d <= PositiveOrOne(a \div p)
        /\ PositiveOrOne(a \div p) = r.after
    <3>1. p \in Nat \ {0}
      BY <1>1, <1>5
    <3> QED
      BY <1>1, <1>2, <1>4, <1>5, <3>1, Quotient
  <2>2. CASE LoadAt(k, t) < parts * Interval
    <3>1. d * p >= a /\ d * p > 0
      BY <1>3, <1>4, <2>2 DEF a
    <3>2. d > 0
      <4>1. d = 0 => d * p = 0
        BY <1>1
      <4> QED
        BY <1>1, <3>1, <4>1
    <3> QED
      BY <1>1, <2>1, <2>2, <3>1, <3>2
  <2>3. CASE ~(LoadAt(k, t) < parts * Interval)
    <3>1. d * p <= a
      BY <1>3, <2>3 DEF a
    <3> QED
      BY <1>1, <2>1, <2>3, <3>1
  <2> QED
    BY <2>2, <2>3
<1>6. CASE ~(p > 0 /\ c < parts)
  <2>1. r.at + r.after = k.windowStart + Interval
    BY <1>1, <1>2, <1>6
  <2>2. LoadAt(k, t) >= parts * Interval
    <3>1. CASE p = 0
      BY <1>2, <1>3, <3>1
    <3>2. CASE c >= parts
      <4> DEFINE e == Interval - (t - k.windowStart)
      <4>1. e \in Nat
        BY <1>1
      <4>2. LoadAt(k, t) = p * e + c * Interval
        BY DEF LoadAt, p, c
      <4> HIDE DEF e
      <4>3. p * e \in Nat /\ c * Interval >= parts * Interval
        BY <1>1, <3>2, <4>1, Products
      <4>4. c * Interval \in Int
        BY <1>1
      <4> QED
        BY <1>3, <4>2, <4>3, <4>4
    <3> QED
      BY <1>1, <1>6, <3>1, <3>2
  <2> QED
    BY <1>1, <1>3, <2>1, <2>2
<1> QED
  BY <1>5, <1>6

\* When that window is over, what was owed is over.
LEMMA OwedAfterWindow ==
    ASSUME NEW k \in Sliding!Counters, NEW r \in Sliding!Refusals,
           r.after > 0, Owed(k, r)
    PROVE  /\ r.at + r.after <= k.windowStart + Interval
           /\ k.currentCount * Grain >= parts
                  => r.at + r.after = k.windowStart + Interval
<1> DEFINE p == k.previousCount * Grain
           c == k.currentCount * Grain
           d == k.windowStart + Interval - r.at
           a == LoadAt(k, r.at) - parts * Interval
<1>1. /\ p \in Nat /\ c \in Nat /\ parts \in Nat \ {0}
      /\ Interval \in Nat \ {0} /\ r.at \in Int /\ k.windowStart \in Int
      /\ r.after \in Nat
  BY CounterTypes, CounterParts, SlidingConstants DEF Sliding!Refusals
<1>2. /\ k.windowStart <= r.at /\ r.at < k.windowStart + Interval
      /\ LoadAt(k, r.at) >= parts * Interval
      /\ r.after = IF p > 0 /\ c < parts THEN PositiveOrOne(a \div p)
                   ELSE Interval - (r.at - k.windowStart)
  BY DEF Owed
<1>3. /\ d \in Nat /\ d > 0 /\ r.at + d = k.windowStart + Interval
  BY <1>1, <1>2
<1> HIDE DEF d
<1>4. /\ c * Interval = LoadAt(k, r.at) - d * p
      /\ LoadAt(k, r.at) \in Int /\ d * p \in Int
      /\ c <= parts => c * Interval <= parts * Interval
      /\ c * Interval \in Int /\ parts * Interval \in Int
  <2>1. /\ LoadAt(k, r.at + d) = LoadAt(k, r.at) - d * p
        /\ LoadAt(k, r.at) \in Int /\ d * p \in Int
    BY <1>1, <1>3, LoadFalls
  <2>2. LoadAt(k, r.at + d) = c * Interval
    BY <1>1, <1>3, LoadOf
  <2>3. c <= parts => c * Interval <= parts * Interval
    BY <1>1, Products
  <2> QED
    BY <1>1, <2>1, <2>2, <2>3
<1>5. a \in Nat
  BY <1>2, <1>4
<1>6. c <= parts => d * p >= a
  BY <1>4
<1> HIDE DEF p, c, a
<1>7. CASE p > 0 /\ c < parts
  <2>1. p \in Nat \ {0}
    BY <1>1, <1>7
  <2>2. d >= PositiveOrOne(a \div p)
    <3>1. d * p >= a
      BY <1>1, <1>6, <1>7
    <3> QED
      BY <1>3, <1>5, <2>1, <3>1, Quotient
  <2> QED
    BY <1>1, <1>2, <1>3, <1>7, <2>2 DEF c
<1>8. CASE ~(p > 0 /\ c < parts)
  BY <1>1, <1>2, <1>8
<1> QED
  BY <1>7, <1>8

\* A window that was not full does not stand in the way of the next one, and
\* one that was does so for Overhang ticks.
LEMMA LightLoad ==
    ASSUME NEW m \in Nat, m < parts, NEW f \in Nat, f < Interval
    PROVE  m * (Interval - f) < parts * Interval
<1>1. Interval \in Nat \ {0} /\ parts \in Nat \ {0}
  BY SlidingConstants
<1>2. m * (Interval - f) = m * Interval - m * f
  BY <1>1
<1>3. /\ (m + 1) * Interval = m * Interval + Interval
      /\ (m + 1) * Interval <= parts * Interval
      /\ m * f \in Nat /\ m * Interval \in Nat
  <2>1. m + 1 \in Nat /\ m + 1 <= parts
    BY <1>1
  <2>2. (m + 1) * Interval <= parts * Interval
    BY <1>1, <2>1, Products
  <2>3. (m + 1) * Interval = m * Interval + Interval
    BY <1>1
  <2> QED
    BY <1>1, <2>2, <2>3, Products
<1>4. parts * Interval \in Nat
  BY <1>1, Products
<1> QED
  BY <1>1, <1>2, <1>3, <1>4

LEMMA OverhangIs ==
    /\ Sliding!Overhang \in Nat
    /\ \A m, f \in Nat : m <= quota * Grain /\ f < Interval
                             /\ f > Sliding!Overhang
                                => m * (Interval - f) < parts * Interval
<1> DEFINE w == quota * Grain
           x == (w - parts) * Interval
           v == x \div w
<1>1. /\ Interval \in Nat \ {0} /\ parts \in Nat \ {0}
      /\ w \in Nat \ {0} /\ parts <= w
  <2>1. /\ Interval \in Nat \ {0} /\ parts \in Nat \ {0}
        /\ quota \in Nat /\ Grain \in Nat /\ parts <= w
    BY SlidingConstants
  <2>2. w \in Nat
    BY <2>1, Products
  <2> HIDE DEF w
  <2> QED
    BY <2>1, <2>2
<1>2. Sliding!Overhang = v
  BY DEF Sliding!Overhang, quota, parts
<1> HIDE DEF w
<1>3. x \in Nat /\ x = w * Interval - parts * Interval
  <2>1. w - parts \in Nat
    BY <1>1
  <2>2. x \in Nat
    BY <1>1, <2>1, Products
  <2>3. x = w * Interval - parts * Interval
    BY <1>1
  <2> QED
    BY <2>2, <2>3
<1> HIDE DEF x
<1>4. v \in Int /\ v * w <= x /\ x < v * w + w
  BY <1>1, <1>3
<1> HIDE DEF v
<1>5. v \in Nat
  <2>1. SUFFICES ASSUME v <= -1 PROVE FALSE
    BY <1>4
  <2>2. v * w <= (-1) * w
    BY <1>1, <1>4, <2>1
  <2> QED
    BY <1>1, <1>3, <1>4, <2>2
<1>6. ASSUME NEW m \in Nat, NEW f \in Nat, m <= w, f < Interval, f > v
      PROVE  m * (Interval - f) < parts * Interval
  <2>1. m * (Interval - f) <= w * (Interval - f)
    <3>1. Interval - f \in Nat
      BY <1>1, <1>6
    <3> QED
      BY <1>1, <1>6, <3>1, Products
  <2>2. w * (Interval - f) = w * Interval - f * w
    BY <1>1
  <2>3. f * w >= v * w + w
    <3>1. v + 1 \in Nat /\ v + 1 <= f
      BY <1>5, <1>6
    <3>2. (v + 1) * w <= f * w
      BY <1>1, <1>6, <3>1, Products
    <3>3. (v + 1) * w = v * w + w
      BY <1>1, <1>5
    <3> QED
      BY <3>2, <3>3
  <2>4. /\ m * (Interval - f) \in Int /\ w * (Interval - f) \in Int
        /\ f * w \in Int /\ v * w \in Int /\ w * Interval \in Int
        /\ parts * Interval \in Int
    BY <1>1, <1>5
  <2> QED
    BY <1>1, <1>3, <1>4, <2>1, <2>2, <2>3, <2>4
<1> QED
  BY <1>2, <1>5, <1>6 DEF w

\* The waiting time of a refusal is exact to a tick, but after a window that
\* was full.
LEMMA SlidingRetry ==
    ASSUME SlidingInv, [Sliding!Next]_sliding, NEW c \in Clients,
           wRefused[c].after > 0, wRefused'[c] # wRefused[c]
    PROVE  IF wRefused'[c] = Sliding!Allowed
           THEN wNow >= wRefused[c].at + wRefused[c].after
           ELSE wNow <= wRefused[c].at + wRefused[c].after
                        + IF Sliding!Full(counter[c])
                          THEN Sliding!Overhang ELSE 0
<1> DEFINE k == counter[c]
           n == Sliding!Shifted(c)
           r == wRefused[c]
           m == k.currentCount * Grain
           over == IF m >= parts THEN Sliding!Overhang ELSE 0
<1>1. PICK q \in Reqs : Sliding!Count(q) /\ wClient[q] = c
  <2>1. PICK q \in Reqs : Sliding!Count(q)
    BY DEF Sliding!Next, Sliding!Tick, Sliding!LookUp, sliding
  <2>2. wClient[q] = c
    BY <2>1 DEF Sliding!Count, Sliding!Allow, Sliding!Refuse, SlidingInv,
                Sliding!TypeOK
  <2> QED
    BY <2>1, <2>2
<1>2. /\ Sliding!TypeOK /\ k \in Sliding!Counters /\ r \in Sliding!Refusals
      /\ r.after \in Nat /\ r.at \in Int /\ wNow \in Int
      /\ Counted(wSince[c], k, wNow) /\ r.at <= wNow /\ Owed(k, r)
      /\ k.windowStart \in Int /\ Interval \in Nat \ {0}
      /\ parts \in Nat \ {0} /\ m \in Nat /\ m <= quota * Grain
  BY SlidingTypes, CounterTypes, CounterParts, SlidingConstants
     DEF SlidingInv, SlidingInvOf
<1>3. /\ n \in Sliding!Counters /\ Counted(wSince[c], n, wNow)
      /\ wNow < n.windowStart + Interval /\ n.windowStart <= wNow
      /\ n.windowStart \in Int
      /\ wNow < k.windowStart + Interval => n = k
      /\ wNow >= k.windowStart + Interval
             => /\ n.currentCount = 0
                /\ n.previousCount = 0 \/
                       /\ n.previousCount = k.currentCount
                       /\ n.windowStart = k.windowStart + Interval
  BY <1>2, ShiftedCounts, CounterTypes DEF Counted
<1>4. IF LoadAt(n, wNow) < parts * Interval
      THEN wRefused'[c] = Sliding!Allowed
      ELSE wRefused'[c] # Sliding!Allowed
  <2>1. Sliding!UnderRate(n) <=> LoadAt(n, wNow) < parts * Interval
    BY <1>2, <1>3, SlidingWeight
  <2>2. LoadAt(n, wNow) \in Int /\ parts * Interval \in Int
    BY <1>2, <1>3, LoadOf
  <2>3. CASE Sliding!Allow(c, n)
    BY <1>2, <2>1, <2>3 DEF Sliding!Allow, Sliding!TypeOK
  <2>4. CASE Sliding!Refuse(c, n)
    <3>1. /\ wRefused'[c] = [at |-> wNow, after |-> Sliding!RetryAfter(n)]
          /\ LoadAt(n, wNow) >= parts * Interval
      BY <1>2, <2>1, <2>2, <2>4 DEF Sliding!Refuse, Sliding!TypeOK
    <3>2. Sliding!RetryAfter(n) > 0
      BY <1>2, <1>3, <3>1, RefusalOwed
    <3>3. wRefused'[c].after > 0 /\ Sliding!Allowed.after = 0
      BY <3>1, <3>2 DEF Sliding!Allowed
    <3> QED
      BY <2>2, <3>1, <3>3
  <2> QED
    BY <1>1, <2>3, <2>4 DEF Sliding!Count
<1>5. Sliding!Full(k) <=> m >= parts
  BY DEF Sliding!Full, parts
<1>6. Sliding!Overhang \in Nat
  BY OverhangIs
<1>7. over \in Nat
  BY <1>6
<1> HIDE DEF n, m
<1>8. SUFFICES IF LoadAt(n, wNow) < parts * Interval
               THEN wNow >= r.at + r.after
               ELSE wNow <= r.at + r.after + over
  BY <1>4, <1>5
<1> HIDE DEF k, r, over
<1>9. r.after > 0
  BY DEF r
<1>10. CASE wNow < k.windowStart + Interval
  <2>1. IF LoadAt(n, wNow) < parts * Interval
        THEN wNow >= r.at + r.after ELSE wNow <= r.at + r.after
    BY <1>2, <1>3, <1>9, <1>10, OwedInWindow
  <2> QED
    BY <1>2, <1>7, <2>1
<1>11. CASE wNow >= k.windowStart + Interval
  <2>1. /\ r.at + r.after <= k.windowStart + Interval
        /\ m >= parts => r.at + r.after = k.windowStart + Interval
    BY <1>2, <1>9, OwedAfterWindow DEF m
  <2>2. LoadAt(n, wNow) < parts * Interval
            \/ (m >= parts /\ wNow <= k.windowStart + Interval + over)
    <3>1. CASE n.previousCount = 0
      <4>1. LoadAt(n, wNow) = 0 /\ parts * Interval > 0
        BY <1>2, <1>3, <1>11, <3>1, LoadOf
      <4> QED
        BY <4>1
    <3>2. CASE /\ n.previousCount = k.currentCount
               /\ n.windowStart = k.windowStart + Interval
      <4> DEFINE f == wNow - n.windowStart
      <4>1. LoadAt(n, wNow) = m * (Interval - f)
        BY <1>2, <1>3, <1>11, <3>2, LoadOf DEF m
      <4>2. /\ f \in Nat /\ f < Interval
            /\ wNow = k.windowStart + Interval + f
        <5>1. f \in Int /\ wNow = n.windowStart + f
          BY <1>2, <1>3
        <5>2. n.windowStart = k.windowStart + Interval
          BY <3>2
        <5> HIDE DEF f
        <5> QED
          BY <1>2, <1>3, <5>1, <5>2
      <4> HIDE DEF f
      <4>3. m < parts => LoadAt(n, wNow) < parts * Interval
        BY <1>2, <4>1, <4>2, LightLoad
      <4>4. m >= parts /\ f > over => LoadAt(n, wNow) < parts * Interval
        BY <1>2, <4>1, <4>2, OverhangIs DEF over
      <4> QED
        BY <1>2, <1>7, <4>2, <4>3, <4>4
    <3> QED
      BY <1>3, <1>11, <3>1, <3>2
  <2>3. parts * Interval \in Int /\ LoadAt(n, wNow) \in Int
    BY <1>2, <1>3, LoadOf
  <2> QED
    BY <1>2, <1>7, <1>11, <2>1, <2>2, <2>3
<1> QED
  BY <1>2, <1>10, <1>11

(***************************************************************************)
(* FixedWindowCachedAllow.                                                 *)
(***************************************************************************)
cap == IF Limit > 0 THEN Limit ELSE 0

\* Some request has made the key and is yet to give it an expiry.
Expiring == \E q \in Reqs : rPc[q] = "expire"

\* The requests that may have been allowed in a life of the key in which its
\* value has become n: the first one is not before its EXPIRE has come.
Granted(n, waiting) ==
    LET k == IF n < cap THEN n ELSE cap
    IN  IF waiting /\ k > 0 THEN k - 1 ELSE k

\* The requests of h in a life of the key that began at b, when g of them may
\* have been allowed in it; one window before it meets one other life.
LivesFrom(h, b, g) ==
    \A s \in Int : /\ s >= b => FromOn(h, s) <= g
                   /\ s + Redis!Span >= b => FromOn(h, s) <= cap + g

\* No two lives begin within one window: EXPIRE comes after the INCR that made
\* the key.
RedisLives ==
    IF count = 0
    THEN \A s \in Int : /\ s >= rNow => FromOn(rSince, s) = 0
                        /\ s + Redis!Span >= rNow => FromOn(rSince, s) <= cap
    ELSE \E b \in Int : /\ b <= rNow
                        /\ expiry # Redis!Never => expiry >= b + Redis!Span
                        /\ LivesFrom(rSince, b, Granted(count, Expiring))

\* The key while a request is about to give it an expiry, and once it has one.
RedisKey ==
    /\ rNow > LastRequest => \A q \in Reqs : rPc[q] = "idle"
    /\ \A q \in Reqs : rPc[q] = "expire" =>
           /\ count > 0 /\ expiry = Redis!Never
           /\ \A p \in Reqs : rPc[p] = "expire" => p = q
    /\ expiry # Redis!Never => rNow < expiry /\ expiry <= rNow + Redis!Span

SpanBounded(h) ==
    \A s \in 0..Redis!Horizon :
        FromOn(h, s) - FromOn(h, s + (Redis!Span + 1)) <= 2 * cap

NoneAfter(h, t) == \A s \in Int : s > t => FromOn(h, s) = 0

RedisInv ==
    /\ Redis!TypeOK /\ RedisKey /\ RedisLives /\ Redis!ExpiryIsComing
    /\ Falling(rSince) /\ NoneAfter(rSince, rNow) /\ SpanBounded(rSince)

\* The constants of this limiter.
LEMMA RedisConstants ==
    /\ Redis!Span \in Nat \ {0} /\ Redis!Horizon \in Nat /\ cap \in Nat
    /\ Redis!Horizon = LastRequest + Redis!Span /\ LastRequest \in Nat
    /\ Redis!Times = 0..Redis!Horizon /\ Redis!Never = -1
    /\ Redis!Errored = -1 /\ Redis!None = -2
    /\ MaxCount \in Nat /\ Limit \in Int
    /\ Limit > 0 => cap = Limit
    /\ ~(Limit > 0) => cap = 0
<1>1. Window * Second \in Nat \ {0}
  BY WindowConstants
<1> QED
  BY <1>1, WindowConstants
     DEF Redis!Span, Redis!Horizon, Redis!Times, Redis!Never, Redis!Errored,
         Redis!None, cap

LEMMA RedisTypes ==
    ASSUME Redis!TypeOK
    PROVE  /\ rNow \in 0..Redis!Horizon /\ rNow \in Int
           /\ count \in Nat /\ expiry \in Int
           /\ rSince \in Histories(Redis!Horizon)
           /\ count = 0 => expiry = Redis!Never
  BY RedisConstants DEF Redis!TypeOK, Histories

\* One more request that is allowed, in a life of the key that has one to give.
LEMMA RedisAdmits ==
    ASSUME NEW h \in Histories(Redis!Horizon), NEW t \in 0..Redis!Horizon,
           Falling(h), NoneAfter(h, t), SpanBounded(h),
           NEW b \in Int, b <= t, NEW g \in Nat, g < cap, LivesFrom(h, b, g)
    PROVE  /\ Recorded(h, t) \in Histories(Redis!Horizon)
           /\ Falling(Recorded(h, t)) /\ NoneAfter(Recorded(h, t), t)
           /\ SpanBounded(Recorded(h, t))
           /\ LivesFrom(Recorded(h, t), b, g + 1)
<1> DEFINE F(s) == FromOn(h, s)
           G(s) == FromOn(Recorded(h, t), s)
<1>1. /\ Redis!Horizon \in Nat /\ Redis!Span \in Nat /\ t \in Int
      /\ cap \in Nat
  BY RedisConstants
<1>2. /\ Recorded(h, t) \in Histories(Redis!Horizon)
      /\ Falling(Recorded(h, t))
      /\ \A s \in Int : G(s) = IF s <= t THEN F(s) + 1 ELSE F(s)
  BY <1>1, RecordedFromOn, RecordedFalling
<1>3. \A s \in Int : F(s) \in Nat
  BY <1>1, FromOnType
<1>4. \A s \in Int : /\ s > t => F(s) = 0
                     /\ s >= b => F(s) <= g
                     /\ s + Redis!Span >= b => F(s) <= cap + g
  BY DEF NoneAfter, LivesFrom
<1> HIDE DEF F, G
<1>5. \A s \in Int : s > t => G(s) = 0
  BY <1>1, <1>2, <1>4
<1>6. \A s \in Int : /\ s >= b => G(s) <= g + 1
                     /\ s + Redis!Span >= b => G(s) <= cap + (g + 1)
  BY <1>1, <1>2, <1>3, <1>4
<1>7. ASSUME NEW s \in 0..Redis!Horizon
      PROVE  G(s) - G(s + (Redis!Span + 1)) <= 2 * cap
  <2>1. F(s) - F(s + (Redis!Span + 1)) <= 2 * cap
    BY DEF SpanBounded, F
  <2>2. s \in Int /\ s + (Redis!Span + 1) \in Int
    BY <1>1
  <2>3. CASE s > t \/ s + (Redis!Span + 1) <= t
    BY <1>1, <1>2, <1>3, <2>1, <2>2, <2>3
  <2>4. CASE s <= t /\ s + (Redis!Span + 1) > t
    <3>1. G(s + (Redis!Span + 1)) = 0
      BY <1>5, <2>2, <2>4
    <3>2. s + Redis!Span >= b
      BY <1>1, <2>2, <2>4
    <3>3. G(s) <= cap + (g + 1) /\ G(s) \in Int
      BY <1>2, <1>3, <1>6, <2>2, <3>2
    <3> QED
      BY <1>1, <3>1, <3>3
  <2> QED
    BY <1>1, <2>2, <2>3, <2>4
<1> QED
  BY <1>2, <1>5, <1>6, <1>7 DEF SpanBounded, LivesFrom, NoneAfter, G

\* What may have been allowed grows with the value of the key, and when no
\* EXPIRE is waited for any more.
LEMMA Grants ==
    ASSUME NEW n \in Nat, NEW w \in BOOLEAN
    PROVE  /\ Granted(n, w) \in Nat /\ Granted(n, w) <= cap
           /\ Granted(n, w) <= Granted(n + 1, w)
           /\ Granted(n, w) <= Granted(n, FALSE)
           /\ n > 0 /\ n + 1 <= Limit
                  => Granted(n + 1, w) = Granted(n, w) + 1
           /\ n > 0 /\ Limit >= 1
                  => Granted(n, FALSE) = Granted(n, TRUE) + 1
           /\ Granted(1, TRUE) = 0
  BY RedisConstants DEF Granted

LEMMA MoreGranted ==
    ASSUME NEW h \in Histories(Redis!Horizon), NEW b \in Int,
           NEW g \in Nat, NEW m \in Nat, g <= m, LivesFrom(h, b, g)
    PROVE  LivesFrom(h, b, m)
<1> SUFFICES ASSUME NEW s \in Int
             PROVE  /\ s >= b => FromOn(h, s) <= m
                    /\ s + Redis!Span >= b => FromOn(h, s) <= cap + m
  BY DEF LivesFrom
<1>1. FromOn(h, s) \in Nat /\ cap \in Nat
  BY RedisConstants, FromOnType
<1> QED
  BY <1>1 DEF LivesFrom

LEMMA RedisInit == Redis!Init => RedisInv
<1> SUFFICES ASSUME Redis!Init PROVE RedisInv
  OBVIOUS
<1>1. /\ rNow = 0 /\ count = 0 /\ expiry = -1
      /\ rPc = [q \in Reqs |-> "idle"] /\ answer = [q \in Reqs |-> -2]
      /\ orphaned = FALSE /\ rSince = [t \in 0..Redis!Horizon |-> 0]
  BY RedisConstants DEF Redis!Init
<1>2. /\ rSince \in Histories(Redis!Horizon) /\ Falling(rSince)
      /\ \A s \in Int : FromOn(rSince, s) = 0
  BY <1>1, RedisConstants, EmptyHistory
<1>3. Redis!TypeOK
  <2>1. answer \in [Reqs -> {Redis!None, Redis!Errored, 0} \cup 1..Redis!Span]
    BY <1>1, RedisConstants
  <2>2. rPc \in [Reqs -> {"idle", "expire", "ttl"}]
    BY <1>1
  <2>3. rSince \in [Redis!Times -> Nat] /\ rNow \in Redis!Times
    BY <1>1, <1>2, RedisConstants DEF Histories
  <2>4. /\ expiry = Redis!Never /\ count = 0 /\ orphaned \in BOOLEAN
        /\ count \in 0..MaxCount
    <3>1. expiry = -1 /\ count = 0 /\ orphaned = FALSE
      BY <1>1
    <3>2. Redis!Never = -1 /\ 0 \in 0..MaxCount
      BY RedisConstants
    <3> QED
      BY <3>1, <3>2
  <2> QED
    BY <2>1, <2>2, <2>3, <2>4 DEF Redis!TypeOK
<1>4. RedisKey /\ Redis!ExpiryIsComing
  BY <1>1, RedisConstants DEF RedisKey, Redis!ExpiryIsComing
<1>5. RedisLives /\ NoneAfter(rSince, rNow) /\ SpanBounded(rSince)
  BY <1>1, <1>2, RedisConstants DEF RedisLives, NoneAfter, SpanBounded
<1> QED
  BY <1>2, <1>3, <1>4, <1>5 DEF RedisInv

\* The time a refused request is told is within one window.
LEMMA RedisWaits ==
    ASSUME Redis!TypeOK, RedisKey
    PROVE  Redis!RetryAfter \in 1..Redis!Span
<1> DEFINE m == expiry - rNow
           h == Second \div 2
           n == (m + h) \div Second
<1>1. /\ expiry \in Int /\ rNow \in Int /\ Redis!Span \in Nat \ {0}
      /\ Second \in Nat \ {0} /\ Window \in Nat \ {0}
      /\ Redis!Span = Window * Second
  BY RedisTypes, RedisConstants, WindowConstants DEF Redis!Span
<1>2. CASE Redis!SecondsLeft <= 0
  BY <1>1, <1>2 DEF Redis!RetryAfter
<1>3. CASE ~(Redis!SecondsLeft <= 0)
  <2>1. expiry # Redis!Never
    BY <1>3, RedisConstants DEF Redis!SecondsLeft
  <2>2. m \in Int /\ m <= Window * Second /\ h \in Int /\ h < Second
    BY <1>1, <2>1 DEF RedisKey
  <2>3. Redis!SecondsLeft = n
    BY <2>1 DEF Redis!SecondsLeft
  <2> HIDE DEF m, h
  <2>4. n \in Int /\ n * Second <= m + h
    BY <1>1, <2>2
  <2> HIDE DEF n
  <2>5. n > 0
    BY <1>3, <2>3, <2>4
  <2>6. n <= Window
    <3>1. SUFFICES ASSUME n >= Window + 1 PROVE FALSE
      BY <1>1, <2>4
    <3>2. (Window + 1) * Second <= n * Second
      BY <1>1, <2>4, <2>5, <3>1, Products
    <3>3. (Window + 1) * Second = Window * Second + Second
      BY <1>1
    <3>4. n * Second \in Int /\ Window * Second \in Int
      BY <1>1, <2>4
    <3> QED
      BY <1>1, <2>2, <2>4, <3>2, <3>3, <3>4
  <2>7. n * Second <= Window * Second /\ n * Second \in Nat /\ n * Second > 0
    BY <1>1, <2>4, <2>5, <2>6, Products
  <2> QED
    BY <1>1, <1>3, <2>3, <2>7 DEF Redis!RetryAfter
<1> QED
  BY <1>2, <1>3

\* The parts of the invariant, and the types of the state, at a step.
LEMMA RedisParts ==
    ASSUME RedisInv
    PROVE  /\ Redis!TypeOK /\ RedisKey /\ RedisLives /\ Redis!ExpiryIsComing
           /\ Falling(rSince) /\ NoneAfter(rSince, rNow)
           /\ SpanBounded(rSince)
           /\ rNow \in 0..Redis!Horizon /\ rNow \in Int
           /\ count \in Nat /\ expiry \in Int /\ orphaned \in BOOLEAN
           /\ rSince \in Histories(Redis!Horizon)
           /\ count = 0 => expiry = Redis!Never
           /\ Expiring \in BOOLEAN
  BY RedisTypes DEF RedisInv, Redis!TypeOK, Expiring

\* A request ends with an answer and is not allowed.
LEMMA RedisAnswers ==
    ASSUME Redis!TypeOK, NEW q \in Reqs,
           NEW a \in {Redis!Errored} \cup 1..Redis!Span, Redis!Reply(q, a)
    PROVE  /\ rPc' = [rPc EXCEPT ![q] = "idle"] /\ rSince' = rSince
           /\ rPc' \in [Reqs -> {"idle", "expire", "ttl"}]
           /\ answer' \in [Reqs -> {Redis!None, Redis!Errored, 0}
                                       \cup 1..Redis!Span]
<1>1. a # 0 /\ a \in {Redis!None, Redis!Errored, 0} \cup 1..Redis!Span
  BY RedisConstants
<1>2. /\ rPc' = [rPc EXCEPT ![q] = "idle"] /\ rSince' = rSince
      /\ answer' = [answer EXCEPT ![q] = a]
  BY <1>1 DEF Redis!Reply
<1>3. rPc' \in [Reqs -> {"idle", "expire", "ttl"}]
  BY <1>2 DEF Redis!TypeOK
<1>4. answer' \in [Reqs -> {Redis!None, Redis!Errored, 0} \cup 1..Redis!Span]
  BY <1>1, <1>2 DEF Redis!TypeOK
<1> QED
  BY <1>2, <1>3, <1>4

\* A request is allowed, or goes on with another call.
LEMMA RedisDecides ==
    ASSUME Redis!TypeOK, NEW q \in Reqs, NEW n, Redis!Decide(q, n)
    PROVE  /\ rPc' = [rPc EXCEPT ![q] = IF n <= Limit THEN "idle" ELSE "ttl"]
           /\ rSince' = IF n <= Limit THEN Recorded(rSince, rNow) ELSE rSince
           /\ rPc' \in [Reqs -> {"idle", "expire", "ttl"}]
           /\ answer' \in [Reqs -> {Redis!None, Redis!Errored, 0}
                                       \cup 1..Redis!Span]
<1>1. /\ rPc' = [rPc EXCEPT ![q] = IF n <= Limit THEN "idle" ELSE "ttl"]
      /\ rSince' = IF n <= Limit THEN Recorded(rSince, rNow) ELSE rSince
      /\ answer' = [answer EXCEPT ![q] = IF n <= Limit THEN 0 ELSE answer[q]]
  BY SameHistories DEF Redis!Decide, Redis!Reply, Redis!GoTo, Redis!TypeOK
<1>2. rPc' \in [Reqs -> {"idle", "expire", "ttl"}]
  BY <1>1 DEF Redis!TypeOK
<1>3. answer' \in [Reqs -> {Redis!None, Redis!Errored, 0} \cup 1..Redis!Span]
  BY <1>1 DEF Redis!TypeOK
<1> QED
  BY <1>1, <1>2, <1>3

\* INCR makes the key.
LEMMA RedisMakes ==
    ASSUME RedisInv, NEW q \in Reqs, rPc[q] = "idle", rNow <= LastRequest,
           count = 0, count' = 1, rNow' = rNow, expiry' = expiry,
           orphaned' \in BOOLEAN, 0 < MaxCount, rSince' = rSince,
           \/ rPc' = [rPc EXCEPT ![q] = "expire"]
           \/ rPc' = [rPc EXCEPT ![q] = "idle"] /\ orphaned' = TRUE,
           answer' \in [Reqs -> {Redis!None, Redis!Errored, 0}
                                    \cup 1..Redis!Span]
    PROVE  RedisInv'
<1>1. /\ RedisKey /\ RedisLives /\ Falling(rSince)
      /\ NoneAfter(rSince, rNow) /\ SpanBounded(rSince)
      /\ rNow \in 0..Redis!Horizon /\ rNow \in Int
      /\ rSince \in Histories(Redis!Horizon)
      /\ expiry = Redis!Never /\ Redis!TypeOK
  BY RedisParts
<1>2. \A p \in Reqs : rPc[p] # "expire"
  BY <1>1 DEF RedisKey
<1>3. /\ rPc' \in [Reqs -> {"idle", "expire", "ttl"}]
      /\ \A p \in Reqs : rPc'[p] = "expire" => p = q
      /\ rPc'[q] = "expire" \/ orphaned'
  BY <1>1, <1>2 DEF Redis!TypeOK
<1>4. Redis!TypeOK'
  BY <1>1, <1>3, RedisConstants DEF Redis!TypeOK
<1>5. RedisKey' /\ Redis!ExpiryIsComing'
  BY <1>1, <1>3, RedisConstants DEF RedisKey, Redis!ExpiryIsComing
<1>6. RedisLives'
  <2>1. Granted(1, Expiring') \in Nat
    BY RedisConstants DEF Granted
  <2>2. \A s \in Int : FromOn(rSince, s) \in Nat
    BY <1>1, RedisConstants, FromOnType
  <2>3. ASSUME NEW g \in Nat PROVE LivesFrom(rSince, rNow, g)
    <3> SUFFICES ASSUME NEW s \in Int
                 PROVE  /\ s >= rNow => FromOn(rSince, s) <= g
                        /\ s + Redis!Span >= rNow
                               => FromOn(rSince, s) <= cap + g
      BY DEF LivesFrom
    <3>1. /\ s >= rNow => FromOn(rSince, s) = 0
          /\ s + Redis!Span >= rNow => FromOn(rSince, s) <= cap
      BY <1>1 DEF RedisLives
    <3>2. FromOn(rSince, s) \in Nat /\ cap \in Nat
      BY <2>2, RedisConstants
    <3> QED
      BY <3>1, <3>2
  <2>4. LivesFrom(rSince', rNow, Granted(count', Expiring'))
    BY <2>1, <2>3
  <2> QED
    BY <1>1, <2>4 DEF RedisLives
<1>7. Falling(rSince') /\ NoneAfter(rSince', rNow') /\ SpanBounded(rSince')
  BY <1>1
<1> QED
  BY <1>4, <1>5, <1>6, <1>7 DEF RedisInv

\* A step in a life of the key, other than its end, that may allow one request
\* if there is one to give.
LEMMA RedisGoesOn ==
    ASSUME RedisInv, Redis!TypeOK', RedisKey', Redis!ExpiryIsComing',
           rNow' = rNow, count > 0, count' > 0,
           expiry' = expiry \/ expiry' = rNow + Redis!Span,
           \/ /\ rSince' = rSince
              /\ Granted(count, Expiring) <= Granted(count', Expiring')
           \/ /\ rSince' = Recorded(rSince, rNow)
              /\ Granted(count', Expiring') = Granted(count, Expiring) + 1
    PROVE  RedisInv'
<1> DEFINE g == Granted(count, Expiring)
           m == Granted(count', Expiring')
<1>1. /\ RedisLives /\ Falling(rSince)
      /\ NoneAfter(rSince, rNow) /\ SpanBounded(rSince)
      /\ rNow \in 0..Redis!Horizon /\ rNow \in Int /\ count \in Nat
      /\ rSince \in Histories(Redis!Horizon) /\ Expiring \in BOOLEAN
  BY RedisParts
<1>2. /\ g \in Nat /\ m \in Nat /\ m <= cap
  <2>1. count' \in Nat /\ Expiring' \in BOOLEAN
    BY RedisConstants DEF Redis!TypeOK, Expiring
  <2> QED
    BY <1>1, <2>1, Grants
<1>3. PICK b \in Int : /\ b <= rNow
                       /\ expiry # Redis!Never => expiry >= b + Redis!Span
                       /\ LivesFrom(rSince, b, g)
  BY <1>1 DEF RedisLives
<1>4. expiry' # Redis!Never => expiry' >= b + Redis!Span
  BY <1>1, <1>3, RedisConstants
<1>5. /\ LivesFrom(rSince', b, m) /\ Falling(rSince')
      /\ NoneAfter(rSince', rNow) /\ SpanBounded(rSince')
  <2> HIDE DEF g, m
  <2>1. CASE rSince' = rSince /\ g <= m
    <3>1. LivesFrom(rSince, b, m)
      BY <1>1, <1>2, <1>3, <2>1, MoreGranted
    <3> QED
      BY <1>1, <2>1, <3>1
  <2>2. CASE rSince' = Recorded(rSince, rNow) /\ m = g + 1
    <3>1. g < cap
      BY <1>2, <2>2, RedisConstants
    <3>2. /\ LivesFrom(Recorded(rSince, rNow), b, g + 1)
          /\ Falling(Recorded(rSince, rNow))
          /\ NoneAfter(Recorded(rSince, rNow), rNow)
          /\ SpanBounded(Recorded(rSince, rNow))
      BY <1>1, <1>2, <1>3, <3>1, RedisAdmits
    <3> QED
      BY <2>2, <3>2
  <2> QED
    BY <2>1, <2>2 DEF g, m
<1>6. RedisLives'
  BY <1>3, <1>4, <1>5 DEF RedisLives
<1>7. Falling(rSince') /\ NoneAfter(rSince', rNow') /\ SpanBounded(rSince')
  BY <1>5
<1> QED
  BY <1>6, <1>7 DEF RedisInv

LEMMA RedisIncr ==
    ASSUME RedisInv, NEW q \in Reqs, Redis!Incr(q)
    PROVE  RedisInv'
<1>1. /\ Redis!TypeOK /\ RedisKey /\ Redis!ExpiryIsComing
      /\ count \in Nat /\ rNow \in Int /\ Expiring \in BOOLEAN
  BY RedisParts
<1>2. /\ rPc[q] = "idle" /\ rNow <= LastRequest /\ count < MaxCount
      /\ count' = count + 1 /\ rNow' = rNow /\ expiry' = expiry
      /\ orphaned' = orphaned
      /\ IF count + 1 = 1 THEN Redis!GoTo(q, "expire")
         ELSE Redis!Decide(q, count + 1)
  BY DEF Redis!Incr, Redis!AfterIncr
<1>3. CASE count = 0
  <2>1. /\ rPc' = [rPc EXCEPT ![q] = "expire"] /\ rSince' = rSince
        /\ answer' = answer
    BY <1>2, <1>3 DEF Redis!GoTo
  <2>2. /\ orphaned' \in BOOLEAN
        /\ answer' \in [Reqs -> {Redis!None, Redis!Errored, 0}
                                    \cup 1..Redis!Span]
    BY <1>1, <1>2, <2>1 DEF Redis!TypeOK
  <2>3. count' = 1 /\ 0 < MaxCount
    BY <1>2, <1>3
  <2> QED
    BY <1>2, <1>3, <2>1, <2>2, <2>3, RedisMakes
<1>4. CASE count > 0
  <2> DEFINE n == count + 1
  <2>1. /\ rPc' = [rPc EXCEPT ![q] = IF n <= Limit THEN "idle" ELSE "ttl"]
        /\ rSince' = IF n <= Limit THEN Recorded(rSince, rNow) ELSE rSince
        /\ rPc' \in [Reqs -> {"idle", "expire", "ttl"}]
        /\ answer' \in [Reqs -> {Redis!None, Redis!Errored, 0}
                                    \cup 1..Redis!Span]
    BY <1>1, <1>2, <1>4, RedisDecides
  <2>2. \A p \in Reqs : rPc'[p] = "expire" <=> rPc[p] = "expire"
    BY <1>1, <1>2, <2>1 DEF Redis!TypeOK
  <2>3. Expiring' = Expiring
    BY <2>2 DEF Expiring
  <2>4. rSince' \in [Redis!Times -> Nat]
    <3>1. Recorded(rSince, rNow) \in Histories(Redis!Horizon)
      BY RedisParts, RedisConstants, RecordedFromOn
    <3> QED
      BY <1>1, <2>1, <3>1, RedisConstants DEF Histories, Redis!TypeOK
  <2>5. count' \in 0..MaxCount /\ count' > 0
    BY <1>1, <1>2, <1>4, RedisConstants
  <2>6. Redis!TypeOK'
    BY <1>1, <1>2, <2>1, <2>4, <2>5 DEF Redis!TypeOK
  <2>7. RedisKey'
    <3>1. \A p \in Reqs : rNow > LastRequest => rPc'[p] = "idle"
      BY <1>1, <1>2, RedisConstants
    <3> QED
      BY <1>1, <1>2, <2>2, <2>5, <3>1 DEF RedisKey
  <2>8. Redis!ExpiryIsComing'
    BY <1>1, <1>2, <1>4, <2>2 DEF Redis!ExpiryIsComing
  <2>9. IF n <= Limit
        THEN Granted(count', Expiring') = Granted(count, Expiring) + 1
        ELSE Granted(count, Expiring) <= Granted(count', Expiring')
    BY <1>1, <1>2, <1>4, <2>3, Grants
  <2> HIDE DEF n
  <2> QED
    BY <1>2, <1>4, <2>1, <2>5, <2>6, <2>7, <2>8, <2>9, RedisGoesOn
<1> QED
  BY <1>1, <1>3, <1>4

\* EXPIRE takes effect, whether or not its answer arrives: the key has had
\* none, and the request allowed, if any, is the first of this life.
LEMMA RedisExpires ==
    ASSUME RedisInv, NEW q \in Reqs, rPc[q] = "expire",
           rNow' = rNow, count' = count, orphaned' = orphaned,
           expiry' = rNow + Redis!Span,
           rPc' \in [Reqs -> {"idle", "expire", "ttl"}],
           answer' \in [Reqs -> {Redis!None, Redis!Errored, 0}
                                    \cup 1..Redis!Span],
           \/ rPc' = [rPc EXCEPT ![q] = "idle"]
           \/ rPc' = [rPc EXCEPT ![q] = "ttl"],
           rSince' = rSince \/ (Limit >= 1 /\ rSince' = Recorded(rSince, rNow))
    PROVE  RedisInv'
<1>1. /\ Redis!TypeOK /\ RedisKey /\ rNow \in Int /\ Expiring \in BOOLEAN
      /\ rNow \in 0..Redis!Horizon
  BY RedisParts
<1>2. /\ count > 0 /\ expiry = Redis!Never /\ count \in Nat
      /\ rNow <= LastRequest /\ Expiring = TRUE
      /\ \A p \in Reqs : rPc[p] = "expire" => p = q
  BY <1>1, RedisParts, RedisConstants DEF RedisKey, Expiring
<1>3. \A p \in Reqs : rPc'[p] # "expire"
  BY <1>1, <1>2 DEF Redis!TypeOK
<1>4. Expiring' = FALSE
  BY <1>3 DEF Expiring
<1>5. expiry' \in Redis!Times /\ expiry' # Redis!Never
  BY <1>1, <1>2, RedisConstants
<1>6. rSince' \in [Redis!Times -> Nat]
  <2>1. Recorded(rSince, rNow) \in Histories(Redis!Horizon)
    BY RedisParts, RedisConstants, RecordedFromOn
  <2> QED
    BY <1>1, <2>1, RedisConstants DEF Histories, Redis!TypeOK
<1>7. Redis!TypeOK'
  BY <1>1, <1>2, <1>5, <1>6 DEF Redis!TypeOK
<1>8. RedisKey'
  <2>1. ~(rNow > LastRequest)
    BY <1>1, <1>2, RedisConstants
  <2>2. rNow < expiry' /\ expiry' <= rNow + Redis!Span
    BY <1>1, RedisConstants
  <2> QED
    BY <1>3, <2>1, <2>2 DEF RedisKey
<1>9. Redis!ExpiryIsComing'
  BY <1>5 DEF Redis!ExpiryIsComing
<1>10. /\ Granted(count, Expiring) <= Granted(count', Expiring')
       /\ Limit >= 1
              => Granted(count', Expiring') = Granted(count, Expiring) + 1
  BY <1>2, <1>4, Grants
<1> QED
  BY <1>2, <1>7, <1>8, <1>9, <1>10, RedisGoesOn

LEMMA RedisExpire ==
    ASSUME RedisInv, NEW q \in Reqs, Redis!Expire(q)
    PROVE  RedisInv'
<1>1. Redis!TypeOK /\ RedisKey
  BY RedisParts
<1>2. /\ rPc[q] = "expire" /\ rNow' = rNow /\ count' = count
      /\ orphaned' = orphaned /\ Redis!Decide(q, 1)
      /\ expiry' = IF count > 0 THEN rNow + Redis!Span ELSE Redis!Never
  BY DEF Redis!Expire
<1>3. count > 0
  BY <1>1, <1>2 DEF RedisKey
<1>4. /\ rPc' = [rPc EXCEPT ![q] = IF 1 <= Limit THEN "idle" ELSE "ttl"]
      /\ rSince' = IF 1 <= Limit THEN Recorded(rSince, rNow) ELSE rSince
      /\ rPc' \in [Reqs -> {"idle", "expire", "ttl"}]
      /\ answer' \in [Reqs -> {Redis!None, Redis!Errored, 0}
                                  \cup 1..Redis!Span]
  BY <1>1, <1>2, RedisDecides
<1>5. CASE 1 <= Limit
  <2>1. Limit >= 1
    BY <1>5, RedisConstants
  <2> QED
    BY <1>2, <1>3, <1>4, <1>5, <2>1, RedisExpires
<1>6. CASE ~(1 <= Limit)
  BY <1>2, <1>3, <1>4, <1>6, RedisExpires
<1> QED
  BY <1>5, <1>6

\* A request ends, and the key stays as it was.
LEMMA RedisEnds ==
    ASSUME RedisInv, NEW q \in Reqs,
           NEW a \in {Redis!Errored} \cup 1..Redis!Span, Redis!Reply(q, a),
           rNow' = rNow, count' = count, expiry' = expiry,
           orphaned' = (orphaned \/ rPc[q] = "expire")
    PROVE  RedisInv'
<1>1. /\ Redis!TypeOK /\ RedisKey /\ Redis!ExpiryIsComing
      /\ RedisLives /\ Falling(rSince)
      /\ NoneAfter(rSince, rNow) /\ SpanBounded(rSince)
      /\ count \in Nat /\ Expiring \in BOOLEAN /\ orphaned \in BOOLEAN
  BY RedisParts
<1>2. /\ rPc' = [rPc EXCEPT ![q] = "idle"] /\ rSince' = rSince
      /\ rPc' \in [Reqs -> {"idle", "expire", "ttl"}]
      /\ answer' \in [Reqs -> {Redis!None, Redis!Errored, 0}
                                  \cup 1..Redis!Span]
  BY <1>1, RedisAnswers
<1>3. \A p \in Reqs : rPc'[p] = IF p = q THEN "idle" ELSE rPc[p]
  BY <1>1, <1>2 DEF Redis!TypeOK
<1>4. Redis!TypeOK'
  BY <1>1, <1>2 DEF Redis!TypeOK
<1>5. RedisKey'
  BY <1>1, <1>3 DEF RedisKey
<1>6. Redis!ExpiryIsComing'
  <2> SUFFICES ASSUME count > 0, expiry = Redis!Never
               PROVE  orphaned' \/ \E p \in Reqs : rPc'[p] = "expire"
    BY DEF Redis!ExpiryIsComing
  <2>1. orphaned \/ \E p \in Reqs : rPc[p] = "expire"
    BY <1>1 DEF Redis!ExpiryIsComing
  <2> QED
    BY <1>3, <2>1
<1>7. CASE count = 0
  <2>1. RedisLives'
    BY <1>1, <1>2, <1>7 DEF RedisLives
  <2> QED
    BY <1>1, <1>2, <1>4, <1>5, <1>6, <2>1 DEF RedisInv
<1>8. CASE count > 0
  <2>1. Granted(count, Expiring) <= Granted(count', Expiring')
    <3>1. CASE Expiring' = Expiring
      <4>1. Granted(count, Expiring) \in Nat
        BY <1>1, Grants
      <4> QED
        BY <3>1, <4>1
    <3>2. CASE Expiring' # Expiring
      <4>1. Expiring' = FALSE
        BY <1>3, <3>2 DEF Expiring
      <4> QED
        BY <1>1, <4>1, Grants
    <3> QED
      BY <3>1, <3>2
  <2> QED
    BY <1>2, <1>4, <1>5, <1>6, <1>8, <2>1, RedisGoesOn
<1> QED
  BY <1>1, <1>7, <1>8

\* INCR or EXPIRE takes effect, and its answer is lost.
LEMMA RedisLost ==
    ASSUME RedisInv, NEW q \in Reqs, Redis!AnswerLost(q)
    PROVE  RedisInv'
<1>1. /\ Redis!TypeOK /\ RedisKey /\ Redis!ExpiryIsComing
      /\ count \in Nat /\ rNow \in Int /\ Expiring \in BOOLEAN
      /\ orphaned \in BOOLEAN
  BY RedisParts
<1>2. /\ Redis!Reply(q, Redis!Errored) /\ rNow' = rNow
      /\ \/ /\ rPc[q] = "idle" /\ rNow <= LastRequest /\ count < MaxCount
            /\ count' = count + 1 /\ orphaned' = (orphaned \/ count = 0)
            /\ expiry' = expiry
         \/ /\ rPc[q] = "expire" /\ expiry' = rNow + Redis!Span
            /\ count' = count /\ orphaned' = orphaned
  BY DEF Redis!AnswerLost
<1>3. /\ rPc' = [rPc EXCEPT ![q] = "idle"] /\ rSince' = rSince
      /\ rPc' \in [Reqs -> {"idle", "expire", "ttl"}]
      /\ answer' \in [Reqs -> {Redis!None, Redis!Errored, 0}
                                  \cup 1..Redis!Span]
  BY <1>1, <1>2, RedisAnswers
<1>4. CASE rPc[q] = "expire"
  <2>1. /\ expiry' = rNow + Redis!Span /\ count' = count
        /\ orphaned' = orphaned
    BY <1>2, <1>4
  <2> QED
    BY <1>2, <1>3, <1>4, <2>1, RedisExpires
<1>5. CASE rPc[q] # "expire"
  <2>1. /\ rPc[q] = "idle" /\ rNow <= LastRequest /\ count < MaxCount
        /\ count' = count + 1 /\ orphaned' = (orphaned \/ count = 0)
        /\ expiry' = expiry
    BY <1>2, <1>5
  <2>2. CASE count = 0
    <3>1. count' = 1 /\ 0 < MaxCount
      BY <1>1, <2>1, <2>2
    <3>2. orphaned' = TRUE
      BY <2>1, <2>2, Zenon
    <3>3. orphaned' \in BOOLEAN
      BY <3>2
    <3> QED
      BY <1>2, <1>3, <2>1, <2>2, <3>1, <3>2, <3>3, RedisMakes
  <2>3. CASE count > 0
    <3>1. \A p \in Reqs : rPc'[p] = rPc[p]
      BY <1>1, <1>3, <2>1 DEF Redis!TypeOK
    <3>2. Expiring' = Expiring /\ orphaned' = orphaned
      BY <1>1, <2>1, <2>3, <3>1 DEF Expiring
    <3>3. count' \in 0..MaxCount /\ count' > 0
      BY <1>1, <2>1, <2>3, RedisConstants
    <3>4. Redis!TypeOK'
      BY <1>1, <1>2, <1>3, <2>1, <3>2, <3>3 DEF Redis!TypeOK
    <3>5. RedisKey'
      BY <1>1, <1>2, <2>1, <3>1, <3>3 DEF RedisKey
    <3>6. Redis!ExpiryIsComing'
      BY <1>1, <2>1, <2>3, <3>1, <3>2 DEF Redis!ExpiryIsComing
    <3>7. Granted(count, Expiring) <= Granted(count', Expiring')
      BY <1>1, <2>1, <3>2, Grants
    <3> QED
      BY <1>2, <1>3, <2>1, <2>3, <3>3, <3>4, <3>5, <3>6, <3>7, RedisGoesOn
  <2> QED
    BY <1>1, <2>2, <2>3
<1> QED
  BY <1>4, <1>5

\* Time passes; a key that expires had lived for one window at least.
LEMMA RedisTick ==
    ASSUME RedisInv, Redis!Tick
    PROVE  RedisInv'
<1>1. /\ Redis!TypeOK /\ RedisKey /\ Redis!ExpiryIsComing
      /\ RedisLives /\ Falling(rSince)
      /\ NoneAfter(rSince, rNow) /\ SpanBounded(rSince)
      /\ count \in Nat /\ Expiring \in BOOLEAN /\ orphaned \in BOOLEAN
      /\ rNow \in 0..Redis!Horizon /\ rNow \in Int /\ expiry \in Int
      /\ rSince \in Histories(Redis!Horizon)
      /\ count = 0 => expiry = Redis!Never
  BY RedisParts
<1>2. /\ rNow < Redis!Horizon /\ rNow' = rNow + 1
      /\ rNow = LastRequest => \A q \in Reqs : rPc[q] = "idle"
      /\ IF expiry = rNow + 1
         THEN count' = 0 /\ expiry' = Redis!Never /\ orphaned' = FALSE
         ELSE count' = count /\ expiry' = expiry /\ orphaned' = orphaned
      /\ rPc' = rPc /\ answer' = answer /\ rSince' = rSince
  BY DEF Redis!Tick
<1>3. rNow' \in 0..Redis!Horizon /\ Expiring' = Expiring
  BY <1>1, <1>2, RedisConstants DEF Expiring
<1>4. NoneAfter(rSince', rNow')
  BY <1>1, <1>2 DEF NoneAfter
<1>5. rNow' > LastRequest => \A q \in Reqs : rPc'[q] = "idle"
  BY <1>1, <1>2, RedisConstants DEF RedisKey
<1>6. \A s \in Int : FromOn(rSince, s) \in Nat
  BY <1>1, RedisConstants, FromOnType
<1>7. CASE expiry = rNow + 1
  <2>1. expiry # Redis!Never
    BY <1>1, <1>7, RedisConstants
  <2>2. count # 0 /\ \A q \in Reqs : rPc'[q] # "expire"
    BY <1>1, <1>2, <2>1 DEF RedisKey
  <2>3. count' = 0 /\ expiry' = Redis!Never /\ orphaned' = FALSE
    BY <1>2, <1>7
  <2>4. Redis!TypeOK'
    <3>1. /\ count' \in 0..MaxCount /\ expiry' = Redis!Never
          /\ orphaned' \in BOOLEAN /\ rNow' \in Redis!Times
      <4>1. 0 \in 0..MaxCount /\ rNow' \in Redis!Times
        BY <1>3, RedisConstants
      <4> QED
        BY <2>3, <4>1
    <3> QED
      BY <1>1, <1>2, <3>1 DEF Redis!TypeOK
  <2>5. RedisKey' /\ Redis!ExpiryIsComing'
    BY <1>5, <2>2, <2>3 DEF RedisKey, Redis!ExpiryIsComing
  <2>6. PICK b \in Int : /\ b <= rNow /\ expiry >= b + Redis!Span
                         /\ LivesFrom(rSince, b, Granted(count, Expiring))
    BY <1>1, <2>1, <2>2 DEF RedisLives
  <2>7. Granted(count, Expiring) <= cap /\ Granted(count, Expiring) \in Nat
    BY <1>1, Grants
  <2>8. ASSUME NEW s \in Int
        PROVE  /\ s >= rNow' => FromOn(rSince', s) = 0
               /\ s + Redis!Span >= rNow' => FromOn(rSince', s) <= cap
    <3>1. s >= rNow + 1 => FromOn(rSince, s) = 0
      BY <1>1 DEF NoneAfter
    <3>2. s + Redis!Span >= rNow + 1 => s >= b
      BY <1>1, <1>7, <2>6, RedisConstants
    <3>3. s >= b => FromOn(rSince, s) <= Granted(count, Expiring)
      BY <2>6 DEF LivesFrom
    <3>4. s >= b => FromOn(rSince, s) <= cap
      BY <1>6, <2>7, <3>3, RedisConstants
    <3> QED
      BY <1>2, <3>1, <3>2, <3>4
  <2>9. RedisLives'
    BY <2>3, <2>8 DEF RedisLives
  <2> QED
    BY <1>1, <1>2, <1>4, <2>4, <2>5, <2>9 DEF RedisInv
<1>8. CASE expiry # rNow + 1
  <2>1. count' = count /\ expiry' = expiry /\ orphaned' = orphaned
    BY <1>2, <1>8
  <2>2. Redis!TypeOK'
    BY <1>1, <1>2, <1>3, <2>1, RedisConstants DEF Redis!TypeOK
  <2>3. RedisKey'
    <3>1. expiry # Redis!Never
              => rNow' < expiry /\ expiry <= rNow' + Redis!Span
      <4>1. expiry # Redis!Never
                => rNow < expiry /\ expiry <= rNow + Redis!Span
        BY <1>1 DEF RedisKey
      <4> QED
        BY <1>1, <1>2, <1>8, <4>1, RedisConstants
    <3> QED
      BY <1>1, <1>2, <1>5, <2>1, <3>1 DEF RedisKey
  <2>4. Redis!ExpiryIsComing'
    BY <1>1, <1>2, <2>1 DEF Redis!ExpiryIsComing
  <2>5. RedisLives'
    <3>1. CASE count = 0
      <4> SUFFICES ASSUME NEW s \in Int
                   PROVE  /\ s >= rNow' => FromOn(rSince', s) = 0
                          /\ s + Redis!Span >= rNow'
                                 => FromOn(rSince', s) <= cap
        BY <2>1, <3>1 DEF RedisLives
      <4>1. /\ s >= rNow => FromOn(rSince, s) = 0
            /\ s + Redis!Span >= rNow => FromOn(rSince, s) <= cap
        BY <1>1, <3>1 DEF RedisLives
      <4> QED
        BY <1>1, <1>2, <4>1, RedisConstants
    <3>2. CASE count # 0
      <4>1. PICK b \in Int :
                /\ b <= rNow
                /\ expiry # Redis!Never => expiry >= b + Redis!Span
                /\ LivesFrom(rSince, b, Granted(count, Expiring))
        BY <1>1, <3>2 DEF RedisLives
      <4>2. b <= rNow'
        BY <1>1, <1>2, <4>1
      <4> QED
        BY <1>2, <1>3, <2>1, <3>2, <4>1, <4>2 DEF RedisLives
    <3> QED
      BY <3>1, <3>2
  <2> QED
    BY <1>1, <1>2, <1>4, <2>2, <2>3, <2>4, <2>5 DEF RedisInv
<1> QED
  BY <1>7, <1>8

\* Every step keeps the invariant.
LEMMA RedisNext == RedisInv /\ [Redis!Next]_redis => RedisInv'
<1> SUFFICES ASSUME RedisInv, [Redis!Next]_redis PROVE RedisInv'
  OBVIOUS
<1>1. CASE UNCHANGED redis
  <2>1. Expiring' = Expiring
    BY <1>1 DEF redis, Expiring
  <2> QED
    BY <1>1, <2>1
       DEF redis, RedisInv, Redis!TypeOK, RedisKey, RedisLives,
           Redis!ExpiryIsComing
<1>2. ASSUME NEW q \in Reqs, Redis!TTL(q) PROVE RedisInv'
  <2>1. /\ rPc[q] = "ttl" /\ Redis!Reply(q, Redis!RetryAfter)
        /\ rNow' = rNow /\ count' = count /\ expiry' = expiry
        /\ orphaned' = orphaned
    BY <1>2 DEF Redis!TTL
  <2>2. Redis!RetryAfter \in {Redis!Errored} \cup 1..Redis!Span
    BY RedisParts, RedisWaits
  <2>3. orphaned' = (orphaned \/ rPc[q] = "expire")
    BY <2>1, RedisParts
  <2> QED
    BY <2>1, <2>2, <2>3, RedisEnds
<1>3. ASSUME NEW q \in Reqs, Redis!CallFails(q) PROVE RedisInv'
  <2>1. /\ Redis!Reply(q, Redis!Errored)
        /\ rNow' = rNow /\ count' = count /\ expiry' = expiry
        /\ orphaned' = (orphaned \/ rPc[q] = "expire")
    BY <1>3 DEF Redis!CallFails
  <2>2. Redis!Errored \in {Redis!Errored} \cup 1..Redis!Span
    OBVIOUS
  <2> QED
    BY <2>1, <2>2, RedisEnds
<1> QED
  BY <1>1, <1>2, <1>3, RedisIncr, RedisExpire, RedisLost, RedisTick
     DEF Redis!Next, Redis!Call

\* What the invariant says of the admissions.
LEMMA RedisBound == RedisInv => Redis!BurstBound
  BY SameHistories, RedisConstants
     DEF RedisInv, SpanBounded, Redis!BurstBound, cap

(***************************************************************************)
(* All limiters: the theorems about the behaviours of LimitersSpec.        *)
(***************************************************************************)
all == <<limiter, vars, leaky, sliding, single, fixed, redis>>

Kinds == {"token", "leaky", "sliding", "single", "fixed", "redis"}

AllInv ==
    /\ limiter \in Kinds
    /\ IInv /\ LeakyInv /\ SlidingInv /\ SingleInv /\ FixedInv /\ RedisInv

\* A step is one of one limiter, and the others stay as they are.
LEMMA PartNext ==
    [LimitersNext]_all =>
        /\ limiter' = limiter
        /\ [Next]_vars /\ [Leaky!Next]_leaky /\ [Sliding!Next]_sliding
        /\ [Single!Next]_single /\ [Fixed!Next]_fixed /\ [Redis!Next]_redis
  BY DEF LimitersNext, all

LEMMA AllInit == LimitersInit => AllInv
  BY InitIInv, LeakyInit, SlidingInit, SingleInit, FixedInit, RedisInit
     DEF LimitersInit, AllInv, Kinds

LEMMA AllNext == AllInv /\ [LimitersNext]_all => AllInv'
<1> SUFFICES ASSUME AllInv, [LimitersNext]_all PROVE AllInv'
  OBVIOUS
<1>1. limiter' \in Kinds
  BY PartNext DEF AllInv
<1>2. IInv' /\ LeakyInv' /\ SlidingInv'
  BY PartNext, NextIInv, LeakyNext, SlidingNext DEF AllInv
<1>3. SingleInv' /\ FixedInv' /\ RedisInv'
  BY PartNext, SingleNext, FixedNext, RedisNext DEF AllInv
<1> QED
  BY <1>1, <1>2, <1>3 DEF AllInv

\* The invariants of all limiters hold together.
THEOREM LimitersInvariance == LimitersSpec => []AllInv
<1> QED
  BY AllInit, AllNext, PTL DEF LimitersSpec, all

\* TypesOK: every limiter is well typed; no count is beyond its rate, no bucket
\* beyond its brim, and no time that is told beyond one window of Redis.
THEOREM AlwaysTypesOK == LimitersSpec => []TypesOK
<1>1. AllInv => TypesOK
  <2> SUFFICES ASSUME AllInv PROVE TypesOK
    OBVIOUS
  <2>1. /\ TypeOK /\ Leaky!TypeOK /\ Sliding!TypeOK
        /\ Single!TypeOK /\ Fixed!TypeOK /\ Redis!TypeOK
    BY DEF AllInv, IInv, LeakyInv, SlidingInv, SingleInv, FixedInv, RedisInv
  <2> QED
    BY <2>1 DEF AllInv, Kinds, TypesOK
<1> QED
  BY <1>1, LimitersInvariance, PTL

\* RateBound, in the behaviours of all limiters.
THEOREM AlwaysTokenRate == LimitersSpec => []RateBound
<1>1. LimitersInit => Init
  BY DEF LimitersInit
<1>2. [LimitersNext]_all => [Next]_vars
  BY PartNext
<1> QED
  BY <1>1, <1>2, AlwaysRateBound, PTL DEF LimitersSpec, all, Spec

\* BurstBound: what LeakyBucketAllow, the sliding windows,
\* FixedWindowCounter.Allow and FixedWindowCachedAllow admit in any stretch of
\* time, and that the two counts of SlidingWindowAllow are true.
THEOREM AlwaysBurstBound == LimitersSpec => []BurstBound
<1>1. AllInv => BurstBound
  <2> SUFFICES ASSUME AllInv PROVE BurstBound
    OBVIOUS
  <2>1. Leaky!RateBound
    BY LeakyRateBound DEF AllInv
  <2>2. Sliding!BurstBound /\ Sliding!CountersAreTrue
    BY SlidingCounts DEF AllInv
  <2>3. Single!BurstBound /\ Fixed!BurstBound
    BY DEF AllInv, SingleInv, FixedInv
  <2>4. Redis!BurstBound
    BY RedisBound DEF AllInv
  <2> QED
    BY <2>1, <2>2, <2>3, <2>4 DEF BurstBound
<1> QED
  BY <1>1, LimitersInvariance, PTL

\* NeverLockedOut: a refusal of the window counters is owed to requests of the
\* last Interval ticks, and only a failure leaves a key without expiry.
THEOREM NobodyLockedOut == LimitersSpec => NeverLockedOut
<1> DEFINE SingleOwed ==
              SlidingRate > 0 /\ ~allowed' /\ sNow' = sNow =>
                  Single!Within(sSince, sNow - Interval + 1, Interval) > 0
           FixedOwed ==
              ~fAllowed' /\ fNow' = fNow =>
                  Fixed!Within(fSince, fNow - Interval + 1, Interval)
                      >= WindowRate
<1>1. AllInv /\ [LimitersNext]_all => [SingleOwed]_(Single!vars)
  <2> SUFFICES ASSUME AllInv, [LimitersNext]_all, ~UNCHANGED Single!vars,
                      SlidingRate > 0, ~allowed', sNow' = sNow
               PROVE  Single!Within(sSince, sNow - Interval + 1, Interval) > 0
    OBVIOUS
  <2>1. ~UNCHANGED single
    BY DEF single, Single!vars
  <2> QED
    BY <2>1, PartNext, SingleRefusal DEF AllInv
<1>2. AllInv /\ [LimitersNext]_all => [FixedOwed]_(Fixed!vars)
  <2> SUFFICES ASSUME AllInv, [LimitersNext]_all, ~UNCHANGED Fixed!vars,
                      ~fAllowed', fNow' = fNow
               PROVE  Fixed!Within(fSince, fNow - Interval + 1, Interval)
                          >= WindowRate
    OBVIOUS
  <2>1. ~UNCHANGED fixed
    BY DEF fixed, Fixed!vars
  <2> QED
    BY <2>1, PartNext, FixedRefusal DEF AllInv
<1>3. AllInv => Redis!ExpiryIsComing
  BY DEF AllInv, RedisInv
<1> QED
  BY <1>1, <1>2, <1>3, LimitersInvariance, PTL
     DEF LimitersSpec, all, NeverLockedOut, Single!NeverLockedOut,
         Fixed!RefusalIsOwed

\* RetryIsExact, in the behaviours of all limiters.
THEOREM TokenRetryIsExact == LimitersSpec => RetryIsExact
<1>1. LimitersInit => Init
  BY DEF LimitersInit
<1>2. [LimitersNext]_all => [Next]_vars
  BY PartNext
<1> QED
  BY <1>1, <1>2, AlwaysRetryIsExact, PTL DEF LimitersSpec, all, Spec

\* RetriesAreExact: the times that LeakyBucketAllow and SlidingWindowAllow
\* tell are neither too long nor, by more than a tick, too short, at any rate;
\* after a window that was full SlidingWindowAllow refuses for Overhang ticks
\* more, which are none at a rate that is whole.
THEOREM AlwaysRetriesAreExact == LimitersSpec => RetriesAreExact
<1> DEFINE LeakyExact ==
              \A c \in Clients :
                  lRefused[c].after > 0 /\ lRefused'[c] # lRefused[c] =>
                      IF lRefused'[c] = Leaky!Allowed
                      THEN lNow >= lRefused[c].at + lRefused[c].after
                      ELSE lNow <= lRefused[c].at + lRefused[c].after
           SlidingExact ==
              \A c \in Clients :
                  wRefused[c].after > 0 /\ wRefused'[c] # wRefused[c] =>
                      IF wRefused'[c] = Sliding!Allowed
                      THEN wNow >= wRefused[c].at + wRefused[c].after
                      ELSE wNow <= wRefused[c].at + wRefused[c].after
                                   + IF Sliding!Full(counter[c])
                                     THEN Sliding!Overhang ELSE 0
<1>1. AllInv /\ [LimitersNext]_all => [LeakyExact]_(Leaky!vars)
  BY PartNext, LeakyRetry DEF AllInv
<1>2. AllInv /\ [LimitersNext]_all => [SlidingExact]_(Sliding!vars)
  BY PartNext, SlidingRetry DEF AllInv
<1> QED
  BY <1>1, <1>2, LimitersInvariance, PTL
     DEF LimitersSpec, all, RetriesAreExact, Leaky!RetryIsExact,
         Sliding!RetryIsExact
=============================================================================
