-------------------------- MODULE Goroutines_proofs ---------------------------
(***************************************************************************)
(* The fixed-window limiter keeps one reset per entry, implements Quota    *)
(* and bounds the requests in any stretch of time, for any clients, any    *)
(* limit, any window and any horizon; and what the shutdown of the process *)
(* may cut, for any connections and any timeout.                           *)
(***************************************************************************)
EXTENDS Goroutines, TLAPS

(***************************************************************************)
(* The limiter.                                                            *)
(***************************************************************************)
IInv == TypeOK /\ OneResetPerEntry

USE LimitAssumption, WindowAssumption, LastRequestAssumption
    DEF Times, Horizon

\* What one window admits is a positive number.
LEMMA PerWindowPositive == PerWindow \in Nat /\ PerWindow >= 1
  BY DEF PerWindow

\* Changing one entry of a table of counters leaves a table of counters.
LEMMA CounterUpdate ==
    ASSUME NEW f \in [Clients -> [Times -> Nat]], NEW c \in Clients,
           NEW t \in Times, NEW n \in Nat
    PROVE  [f EXCEPT ![c][t] = n] \in [Clients -> [Times -> Nat]]
<1>1. [f[c] EXCEPT ![t] = n] \in [Times -> Nat]
  OBVIOUS
<1>2. [f EXCEPT ![c] = [f[c] EXCEPT ![t] = n]] \in [Clients -> [Times -> Nat]]
  BY <1>1
<1> QED
  BY <1>2

\* An entry of a table of counters is a number.
LEMMA CounterEntry ==
    ASSUME NEW f \in [Clients -> [Times -> Nat]], NEW c \in Clients,
           NEW t \in Times
    PROVE  f[c][t] \in Nat
<1>1. f[c] \in [Times -> Nat]
  OBVIOUS
<1> QED
  BY <1>1

\* Initially the map is empty and nothing sleeps.
LEMMA InitIInv == Init => IInv
<1> SUFFICES ASSUME Init PROVE IInv
  OBVIOUS
<1>1. TypeOK
  BY PerWindowPositive DEF Init, TypeOK
<1>2. OneResetPerEntry
  BY DEF Init, OneResetPerEntry
<1> QED
  BY <1>1, <1>2 DEF IInv

\* The history of a client counts one request more at or before now.
LEMMA SinceOf ==
    ASSUME IInv, NEW c \in Clients, NEW n, Count(c, n)
    PROVE  /\ since' \in [Clients -> [Times -> Nat]]
           /\ \A d \in Clients, s \in Times : since'[d][s] =
                  IF d = c /\ s <= now THEN since[d][s] + 1 ELSE since[d][s]
<1>1. now \in Times /\ since \in [Clients -> [Times -> Nat]]
  BY DEF IInv, TypeOK
<1>2. since' = [since EXCEPT ![c] = Recorded(since[c], now)]
  BY DEF Count
<1>3. since[c] \in [Times -> Nat] /\ DOMAIN since[c] = Times
  BY <1>1
<1>4. /\ Recorded(since[c], now) \in [Times -> Nat]
      /\ \A s \in Times : Recorded(since[c], now)[s] =
             IF s <= now THEN since[c][s] + 1 ELSE since[c][s]
  BY <1>1, <1>3 DEF Recorded
<1>5. \A d \in Clients : since'[d] =
         IF d = c THEN Recorded(since[c], now) ELSE since[d]
  BY <1>1, <1>2
<1>6. since' \in [Clients -> [Times -> Nat]]
  BY <1>1, <1>2, <1>4
<1> QED
  BY <1>4, <1>5, <1>6

\* The request that makes an entry starts its only reset.
LEMMA AllowFirstPreserves ==
    ASSUME IInv, NEW c \in Clients, AllowFirst(c)
    PROVE  IInv'
<1>1. now \in Times /\ now <= LastRequest /\ now + Window \in Times
  BY DEF IInv, TypeOK, AllowFirst
<1>2. \A d \in Clients, t \in Times : sleeping'[d][t] =
         IF d = c /\ t = now + Window THEN sleeping[d][t] + 1
                                     ELSE sleeping[d][t]
  BY <1>1 DEF IInv, TypeOK, AllowFirst
<1>3. sleeping' \in [Clients -> [Times -> Nat]]
  <2>1. sleeping' = [sleeping EXCEPT
            ![c][now + Window] = sleeping[c][now + Window] + 1]
    BY DEF AllowFirst
  <2>2. sleeping \in [Clients -> [Times -> Nat]]
    BY DEF IInv, TypeOK
  <2>3. sleeping[c][now + Window] \in Nat
    BY <1>1, <2>2, CounterEntry
  <2>4. sleeping[c][now + Window] + 1 \in Nat
    BY <2>3
  <2> QED
    BY <1>1, <2>1, <2>2, <2>4, CounterUpdate
<1>4. since' \in [Clients -> [Times -> Nat]]
  BY SinceOf DEF AllowFirst
<1>5. TypeOK'
  <2>1. 1 \in 0..PerWindow
    BY PerWindowPositive
  <2> QED
    BY <1>1, <1>3, <1>4, <2>1 DEF IInv, TypeOK, AllowFirst, Count
<1>6. \A d \in Clients :
         /\ opened'[d] = IF d = c THEN now ELSE opened[d]
         /\ clients'[d] = IF d = c THEN 1 ELSE clients[d]
  BY DEF IInv, TypeOK, AllowFirst, Count
<1>7. OneResetPerEntry'
  BY <1>1, <1>2, <1>6 DEF IInv, OneResetPerEntry, AllowFirst
<1> QED
  BY <1>5, <1>7 DEF IInv

\* Another admitted request starts no reset.
LEMMA AllowMorePreserves ==
    ASSUME IInv, NEW c \in Clients, AllowMore(c)
    PROVE  IInv'
<1>1. since' \in [Clients -> [Times -> Nat]]
  BY SinceOf DEF AllowMore
<1>2. \A d \in Clients : clients[d] \in Nat
  BY PerWindowPositive DEF IInv, TypeOK
<1>3. clients[c] + 1 \in 0..PerWindow
  BY DEF IInv, TypeOK, AllowMore, PerWindow
<1>4. TypeOK'
  BY <1>1, <1>3 DEF IInv, TypeOK, AllowMore, Count
<1>5. clients' = [clients EXCEPT ![c] = clients[c] + 1] /\ clients[c] > 0
  BY DEF AllowMore, Count
<1>6. \A d \in Clients :
         clients'[d] = IF d = c THEN clients[d] + 1 ELSE clients[d]
  BY <1>5 DEF IInv, TypeOK
<1>7. \A d \in Clients : clients'[d] > 0 <=> clients[d] > 0
  BY <1>2, <1>5, <1>6
<1>8. OneResetPerEntry'
  BY <1>7 DEF IInv, OneResetPerEntry, AllowMore
<1> QED
  BY <1>4, <1>8 DEF IInv

\* A reset that fires is the one of the entry it deletes.
LEMMA ResetCountPreserves ==
    ASSUME IInv, NEW c \in Clients, NEW t \in Times, ResetCount(c, t)
    PROVE  IInv'
<1>1. clients[c] > 0 /\ t = opened[c] + Window
  BY DEF IInv, OneResetPerEntry, ResetCount
<1>2. \A d \in Clients, s \in Times : sleeping'[d][s] =
         IF d = c /\ s = t THEN sleeping[d][s] - 1 ELSE sleeping[d][s]
  BY DEF IInv, TypeOK, ResetCount
<1>3. sleeping' \in [Clients -> [Times -> Nat]]
  <2>1. sleeping' = [sleeping EXCEPT ![c][t] = sleeping[c][t] - 1]
    BY DEF ResetCount
  <2>2. sleeping \in [Clients -> [Times -> Nat]] /\ sleeping[c][t] > 0
    BY DEF IInv, TypeOK, ResetCount
  <2>3. sleeping[c][t] \in Nat
    BY <2>2, CounterEntry
  <2>4. sleeping[c][t] - 1 \in Nat
    BY <2>2, <2>3
  <2> QED
    BY <2>1, <2>2, <2>4, CounterUpdate
<1>4. \A d \in Clients : clients'[d] = IF d = c THEN 0 ELSE clients[d]
  BY DEF IInv, TypeOK, ResetCount
<1>5. TypeOK'
  <2>1. 0 \in 0..PerWindow
    BY PerWindowPositive
  <2> QED
    BY <1>3, <2>1 DEF IInv, TypeOK, ResetCount
<1>6. OneResetPerEntry'
  BY <1>1, <1>2, <1>4 DEF IInv, OneResetPerEntry, ResetCount
<1> QED
  BY <1>5, <1>6 DEF IInv

\* Every step keeps the invariant.
LEMMA NextPreserves == IInv /\ [Next]_vars => IInv'
<1> SUFFICES ASSUME IInv, [Next]_vars PROVE IInv'
  OBVIOUS
<1>1. ASSUME NEW c \in Clients, Deny(c) PROVE IInv'
  BY <1>1 DEF IInv, TypeOK, OneResetPerEntry, Deny
<1>2. CASE Tick
  BY <1>2 DEF IInv, TypeOK, OneResetPerEntry, Tick
<1>3. CASE UNCHANGED vars
  BY <1>3 DEF IInv, TypeOK, OneResetPerEntry, vars
<1> QED
  BY <1>1, <1>2, <1>3, AllowFirstPreserves, AllowMorePreserves,
     ResetCountPreserves DEF Next

\* The invariant holds in every reachable state.
THEOREM Invariance == Spec => []IInv
  BY InitIInv, NextPreserves, PTL DEF Spec

\* Types: no counter exceeds what a window admits.
THEOREM TypeCorrect == Spec => []TypeOK
<1>1. IInv => TypeOK
  BY DEF IInv
<1> QED
  BY <1>1, Invariance, PTL

\* An entry has exactly one reset, due Window after it was made; a client
\* without an entry has none.
THEOREM AlwaysOneReset == Spec => []OneResetPerEntry
<1>1. IInv => OneResetPerEntry
  BY DEF IInv
<1> QED
  BY <1>1, Invariance, PTL

\* What the entry of c has admitted, or the last one may have.
Quotum(c) == IF clients[c] > 0 THEN clients[c] ELSE PerWindow

\* The requests of c in the present window are those its entry has counted,
\* and the stretch before the window that is a window long holds no more than
\* one quota; no entry is made before the window of the last one is over.
RecentOf(c) ==
    /\ \A s \in Times :
        /\ s > now => since[c][s] = 0
        /\ s > opened[c] => since[c][s] <= Quotum(c)
        /\ s > opened[c] - Window => since[c][s] <= PerWindow + Quotum(c)
    /\ clients[c] = 0 => \/ opened[c] + Window <= now
                         \/ \A s \in Times : since[c][s] = 0

Recent == \A c \in Clients : RecentOf(c)

BInv == Recent /\ BurstBound

\* The requests of a stretch, by the two ends of it.
LEMMA WithinOf ==
    ASSUME NEW h \in [Times -> Nat], NEW t \in Times
    PROVE  Within(h, t, Window) =
               h[t] - (IF t + Window \in Times THEN h[t + Window] ELSE 0)
<1>1. DOMAIN h = Times /\ ~(t < 0) /\ ~(t + Window < 0) /\ t \in DOMAIN h
  OBVIOUS
<1> QED
  BY <1>1 DEF Within, FromOn

\* An admitted request lies in a stretch that the bound allows for, in one
\* that was bounded before, or in none.
LEMMA CountKeepsBurst ==
    ASSUME IInv, IInv', NEW c \in Clients, NEW n, Count(c, n), UNCHANGED now,
           RecentOf(c)', BurstBound, opened'[c] <= now
    PROVE  BurstBound'
<1>1. now \in Times /\ PerWindow \in Nat
  BY PerWindowPositive DEF IInv, TypeOK
<1>2. /\ \A d \in Clients : /\ since[d] \in [Times -> Nat]
                            /\ since'[d] \in [Times -> Nat]
      /\ \A d \in Clients, s \in Times :
            since[d][s] \in Nat /\ since'[d][s] \in Nat
  <2>1. /\ since \in [Clients -> [Times -> Nat]]
        /\ since' \in [Clients -> [Times -> Nat]]
    BY DEF IInv, TypeOK
  <2> QED
    BY <2>1
<1>3. \A d \in Clients, s \in Times : since'[d][s] =
         IF d = c /\ s <= now THEN since[d][s] + 1 ELSE since[d][s]
  BY SinceOf
<1>4. SUFFICES ASSUME NEW d \in Clients, NEW t \in Times
               PROVE  Within(since'[d], t, Window) <= 2 * PerWindow
  BY DEF BurstBound
<1>5. /\ Within(since[d], t, Window) = since[d][t] -
            (IF t + Window \in Times THEN since[d][t + Window] ELSE 0)
      /\ Within(since'[d], t, Window) = since'[d][t] -
            (IF t + Window \in Times THEN since'[d][t + Window] ELSE 0)
  BY <1>2, WithinOf
<1>6. Within(since[d], t, Window) <= 2 * PerWindow
  BY DEF BurstBound
<1>7. CASE d # c \/ t > now \/ t + Window <= now
  <2>1. CASE t + Window \in Times
    <3>1. PICK e \in Times : e = t + Window
      BY <2>1
    <3>2. /\ Within(since[d], t, Window) = since[d][t] - since[d][e]
          /\ Within(since'[d], t, Window) = since'[d][t] - since'[d][e]
      BY <1>5, <3>1
    <3>3. /\ since[d][t] \in Nat /\ since'[d][t] \in Nat
          /\ since[d][e] \in Nat /\ since'[d][e] \in Nat
      BY <1>2, <3>1
    <3>4. CASE d = c /\ e <= now
      <4>1. /\ since'[d][t] = since[d][t] + 1
            /\ since'[d][e] = since[d][e] + 1
        BY <1>1, <1>3, <3>1, <3>4
      <4> QED
        BY <1>6, <3>2, <3>3, <4>1
    <3>5. CASE d # c \/ t > now
      <4>1. since'[d][t] = since[d][t] /\ since'[d][e] = since[d][e]
        BY <1>1, <1>3, <3>1, <3>5
      <4> QED
        BY <1>6, <3>2, <4>1
    <3> QED
      BY <1>7, <3>1, <3>4, <3>5
  <2>2. CASE t + Window \notin Times
    <3>1. d # c \/ t > now
      BY <1>1, <1>7, <2>2
    <3>2. since'[d][t] = since[d][t]
      BY <1>1, <1>3, <3>1
    <3> QED
      BY <1>2, <1>5, <1>6, <2>2, <3>2
  <2> QED
    BY <2>1, <2>2
<1>8. CASE d = c /\ t <= now /\ now < t + Window
  <2>0. opened'[c] \in Times
    BY DEF IInv, TypeOK
  <2>1. t > opened'[c] - Window
    BY <1>1, <1>8, <2>0
  <2>2. since'[c][t] <= PerWindow + Quotum(c)'
    BY <2>1 DEF RecentOf
  <2>3. Quotum(c)' \in Nat /\ Quotum(c)' <= PerWindow
    BY <1>1 DEF Quotum, IInv, TypeOK
  <2>4. Within(since'[d], t, Window) <= since'[d][t]
    BY <1>2, <1>5
  <2> QED
    <3>1. since'[d][t] <= 2 * PerWindow
      BY <1>1, <1>2, <1>8, <2>2, <2>3
    <3>2. Within(since'[d], t, Window) \in Int
      BY <1>2, <1>5
    <3> QED
      BY <1>1, <1>2, <2>4, <3>1, <3>2
<1> QED
  BY <1>1, <1>7, <1>8

\* A client nothing happens to.
LEMMA OthersRecent ==
    ASSUME NEW d \in Clients, RecentOf(d), UNCHANGED now,
           UNCHANGED <<clients[d], opened[d], since[d]>>
    PROVE  RecentOf(d)'
  BY DEF RecentOf, Quotum

\* The window of a new entry begins with its first request: what lies before,
\* in a window's time, the last entry has counted.
LEMMA AllowFirstRecent ==
    ASSUME IInv, IInv', Recent, NEW c \in Clients, AllowFirst(c)
    PROVE  Recent'
<1>1. now \in Times /\ PerWindow \in Nat /\ PerWindow >= 1
  BY PerWindowPositive DEF IInv, TypeOK
<1>2. \A d \in Clients, s \in Times : /\ since[d][s] \in Nat
                                      /\ opened[d] \in Int
  BY DEF IInv, TypeOK
<1>3. Count(c, 1) /\ UNCHANGED now /\ clients[c] = 0
  BY DEF AllowFirst
<1>4. \A d \in Clients, s \in Times : since'[d][s] =
         IF d = c /\ s <= now THEN since[d][s] + 1 ELSE since[d][s]
  BY <1>3, SinceOf
<1>5. clients'[c] = 1 /\ opened'[c] = now
  BY DEF AllowFirst, Count, IInv, TypeOK
<1>6. RecentOf(c) /\ Quotum(c) = PerWindow /\ Quotum(c)' = 1
  BY <1>3, <1>5 DEF Recent, Quotum
<1>7. RecentOf(c)'
  <2>1. \A s \in Times : s > now => since'[c][s] = 0
    BY <1>1, <1>4, <1>6 DEF RecentOf
  <2>2. \A s \in Times : s > now - Window => since[c][s] <= PerWindow
    BY <1>1, <1>2, <1>3, <1>6 DEF RecentOf
  <2>3. \A s \in Times : s > now - Window => since'[c][s] <= PerWindow + 1
    BY <1>1, <1>2, <1>4, <2>2
  <2> QED
    BY <1>1, <1>3, <1>5, <1>6, <2>1, <2>3 DEF RecentOf
<1>8. ASSUME NEW d \in Clients, d # c PROVE RecentOf(d)'
  <2>1. UNCHANGED <<clients[d], opened[d], since[d]>>
    BY <1>8 DEF AllowFirst, Count, IInv, TypeOK
  <2> QED
    BY <1>3, <2>1, OthersRecent DEF Recent
<1> QED
  BY <1>7, <1>8 DEF Recent

\* A further request is one more of the present window.
LEMMA AllowMoreRecent ==
    ASSUME IInv, IInv', Recent, NEW c \in Clients, AllowMore(c)
    PROVE  Recent'
<1>1. now \in Times /\ PerWindow \in Nat /\ clients[c] \in Nat
  BY PerWindowPositive DEF IInv, TypeOK
<1>2. \A d \in Clients, s \in Times : /\ since[d][s] \in Nat
                                      /\ opened[d] \in Int
  BY DEF IInv, TypeOK
<1>3. /\ Count(c, clients[c] + 1) /\ UNCHANGED <<now, opened>>
      /\ clients[c] > 0
  BY DEF AllowMore
<1>4. \A d \in Clients, s \in Times : since'[d][s] =
         IF d = c /\ s <= now THEN since[d][s] + 1 ELSE since[d][s]
  BY <1>3, SinceOf
<1>5. clients'[c] = clients[c] + 1
  BY <1>3 DEF Count, IInv, TypeOK
<1>6. RecentOf(c) /\ Quotum(c) = clients[c] /\ Quotum(c)' = clients[c] + 1
  BY <1>1, <1>3, <1>5 DEF Recent, Quotum
<1>7. RecentOf(c)'
  <2>1. \A s \in Times : s > now => since'[c][s] = 0
    BY <1>1, <1>4, <1>6 DEF RecentOf
  <2>2. \A s \in Times : s > opened[c] => since'[c][s] <= clients[c] + 1
    BY <1>1, <1>2, <1>4, <1>6 DEF RecentOf
  <2>3. \A s \in Times : s > opened[c] - Window
           => since'[c][s] <= PerWindow + (clients[c] + 1)
    BY <1>1, <1>2, <1>4, <1>6 DEF RecentOf
  <2> QED
    BY <1>1, <1>3, <1>5, <1>6, <2>1, <2>2, <2>3 DEF RecentOf
<1>8. ASSUME NEW d \in Clients, d # c PROVE RecentOf(d)'
  <2>1. UNCHANGED <<clients[d], opened[d], since[d]>>
    BY <1>8 DEF AllowMore, Count, IInv, TypeOK
  <2> QED
    BY <1>3, <2>1, OthersRecent DEF Recent
<1> QED
  BY <1>7, <1>8 DEF Recent

\* A reset comes when the window of its entry is over.
LEMMA ResetCountRecent ==
    ASSUME IInv, IInv', Recent, NEW c \in Clients, NEW t \in Times,
           ResetCount(c, t)
    PROVE  Recent'
<1>1. now \in Times /\ PerWindow \in Nat /\ clients[c] \in 0..PerWindow
  BY PerWindowPositive DEF IInv, TypeOK
<1>2. \A d \in Clients, s \in Times : /\ since[d][s] \in Nat
                                      /\ opened[d] \in Int
  BY DEF IInv, TypeOK
<1>3. clients[c] > 0 /\ opened[c] + Window <= now
  BY DEF IInv, OneResetPerEntry, ResetCount
<1>4. UNCHANGED <<now, opened, since>> /\ clients'[c] = 0
  BY DEF ResetCount, IInv, TypeOK
<1>5. /\ RecentOf(c) /\ Quotum(c) = clients[c] /\ Quotum(c)' = PerWindow
  BY <1>3, <1>4 DEF Recent, Quotum
<1>6. RecentOf(c)'
  BY <1>1, <1>2, <1>3, <1>4, <1>5 DEF RecentOf
<1>7. ASSUME NEW d \in Clients, d # c PROVE RecentOf(d)'
  <2>1. UNCHANGED <<clients[d], opened[d], since[d]>>
    BY <1>7 DEF ResetCount, IInv, TypeOK
  <2> QED
    BY <1>4, <2>1, OthersRecent DEF Recent
<1> QED
  BY <1>6, <1>7 DEF Recent

\* Initially no request has been admitted.
LEMMA InitBInv == Init => BInv
<1> SUFFICES ASSUME Init PROVE BInv
  OBVIOUS
<1>1. \A c \in Clients, s \in Times : since[c][s] = 0
  BY DEF Init
<1>2. PerWindow \in Nat /\ PerWindow >= 1 /\ now \in Times
  BY PerWindowPositive DEF Init
<1>3. \A c \in Clients : clients[c] = 0 /\ Quotum(c) = PerWindow
  BY DEF Init, Quotum
<1>4. Recent
  BY <1>1, <1>2, <1>3 DEF Recent, RecentOf
<1>5. BurstBound
  <2> SUFFICES ASSUME NEW c \in Clients, NEW t \in Times
               PROVE  Within(since[c], t, Window) <= 2 * PerWindow
    BY DEF BurstBound
  <2>1. since[c] \in [Times -> Nat]
    BY DEF Init
  <2> QED
    BY <1>1, <1>2, <2>1, WithinOf
<1> QED
  BY <1>4, <1>5 DEF BInv

\* Every step keeps what the bound rests on.
LEMMA NextBInv == IInv /\ IInv' /\ BInv /\ [Next]_vars => BInv'
<1> SUFFICES ASSUME IInv, IInv', BInv, [Next]_vars PROVE BInv'
  OBVIOUS
<1>1. Recent /\ BurstBound
  BY DEF BInv
<1>2. ASSUME NEW c \in Clients, AllowFirst(c) PROVE BInv'
  <2>1. Recent'
    BY <1>1, <1>2, AllowFirstRecent
  <2>2. Count(c, 1) /\ UNCHANGED now /\ opened'[c] = now
    BY <1>2 DEF AllowFirst, IInv, TypeOK
  <2>3. RecentOf(c)' /\ opened'[c] <= now
    BY <2>1, <2>2 DEF Recent, IInv, TypeOK
  <2>4. BurstBound'
    BY <1>1, <2>2, <2>3, CountKeepsBurst
  <2> QED
    BY <2>1, <2>4 DEF BInv
<1>3. ASSUME NEW c \in Clients, AllowMore(c) PROVE BInv'
  <2>1. Recent'
    BY <1>1, <1>3, AllowMoreRecent
  <2>2. Count(c, clients[c] + 1) /\ UNCHANGED <<now, opened>>
    BY <1>3 DEF AllowMore
  <2>3. RecentOf(c)' /\ opened'[c] <= now
    BY <2>1, <2>2 DEF Recent, IInv, OneResetPerEntry
  <2>4. BurstBound'
    BY <1>1, <2>2, <2>3, CountKeepsBurst
  <2> QED
    BY <2>1, <2>4 DEF BInv
<1>4. ASSUME NEW c \in Clients, NEW t \in Times, ResetCount(c, t) PROVE BInv'
  <2>1. Recent'
    BY <1>1, <1>4, ResetCountRecent
  <2>2. BurstBound'
    BY <1>1, <1>4 DEF BurstBound, ResetCount
  <2> QED
    BY <2>1, <2>2 DEF BInv
<1>5. ASSUME NEW c \in Clients, Deny(c) PROVE BInv'
  BY <1>1, <1>5 DEF Deny, BInv, Recent, RecentOf, Quotum, BurstBound
<1>6. CASE Tick
  <2>1. UNCHANGED <<clients, opened, since>> /\ now' = now + 1
    BY <1>6 DEF Tick
  <2>2. now \in Int /\ \A c \in Clients : opened[c] \in Int
    BY DEF IInv, TypeOK
  <2>3. Recent'
    BY <1>1, <2>1, <2>2 DEF Recent, RecentOf, Quotum
  <2>4. BurstBound'
    BY <1>1, <2>1 DEF BurstBound
  <2> QED
    BY <2>3, <2>4 DEF BInv
<1>7. CASE UNCHANGED vars
  BY <1>1, <1>7 DEF vars, BInv, Recent, RecentOf, Quotum, BurstBound
<1> QED
  BY <1>2, <1>3, <1>4, <1>5, <1>6, <1>7 DEF Next

\* In any stretch of time as long as the window a client gets at most two
\* windows' worth of requests, whatever the limit and however late the
\* goroutines of FixedWindowAllow run.
THEOREM AlwaysBurstBound == Spec => []BurstBound
<1>1. BInv => BurstBound
  BY DEF BInv
<1>2. Spec => []BInv
  BY InitBInv, NextBInv, Invariance, PTL DEF Spec
<1> QED
  BY <1>1, <1>2, PTL

\* Every step is a step of Quota or changes nothing that Quota sees.
LEMMA StepRefines ==
    IInv /\ [Next]_vars
        => [QuotaOfWindow!Next]_<<now, clients, opened, answer>>
<1> SUFFICES ASSUME IInv, [Next]_vars
             PROVE  \/ QuotaOfWindow!Next
                    \/ UNCHANGED <<now, clients, opened, answer>>
  OBVIOUS
<1>1. ASSUME NEW c \in Clients, AllowFirst(c) PROVE QuotaOfWindow!Open(c)
  BY <1>1 DEF AllowFirst, Count, QuotaOfWindow!Open
<1>2. ASSUME NEW c \in Clients, AllowMore(c) PROVE QuotaOfWindow!Admit(c)
  BY <1>2 DEF AllowMore, Count, QuotaOfWindow!Admit, IInv, TypeOK, PerWindow
<1>3. ASSUME NEW c \in Clients, Deny(c) PROVE QuotaOfWindow!Refuse(c)
  BY <1>3 DEF Deny, QuotaOfWindow!Refuse, IInv, TypeOK, PerWindow
<1>4. ASSUME NEW c \in Clients, NEW t \in Times, ResetCount(c, t)
      PROVE  QuotaOfWindow!Close(c)
  <2>1. clients[c] > 0 /\ t = opened[c] + Window
    BY <1>4 DEF IInv, TypeOK, OneResetPerEntry, ResetCount
  <2> QED
    BY <1>4, <2>1 DEF ResetCount, QuotaOfWindow!Close, IInv, TypeOK
<1>5. CASE Tick
  BY <1>5 DEF Tick, QuotaOfWindow!Next, QuotaOfWindow!Tick
<1>6. CASE UNCHANGED vars
  BY <1>6 DEF vars
<1> QED
  BY <1>1, <1>2, <1>3, <1>4, <1>5, <1>6 DEF Next, QuotaOfWindow!Next

\* The limiter implements Quota, whatever its limit: at most PerWindow
\* requests in a window, no refusal before they are used up, no window shorter
\* than Window.
THEOREM ImplementsQuota == Spec => QuotaSpec
<1>1. Init => QuotaOfWindow!Init
  BY DEF Init, QuotaOfWindow!Init
<1> QED
  BY <1>1, StepRefines, Invariance, PTL
     DEF Spec, QuotaSpec, QuotaOfWindow!Spec

(***************************************************************************)
(* The process.                                                            *)
(***************************************************************************)
\* No connection is there before the server listens, nor after Shutdown found
\* none; what Shutdown returned tells whether its time was up.
NoneBeforeListen == main = "start" => \A c \in Conns : conn[c] = "none"

NoneLeft == result = "nil" => \A c \in Conns : conn[c] = "none"

TimeIsUp ==
    /\ result = "deadline" => clock = Grace
    /\ waiter = "sending" => result \in {"nil", "deadline"}
    /\ waiter \in {"start", "waiting", "draining"} => result = "none"
    /\ result # "none" => Process!ShuttingDown

ServerInv ==
    /\ conn \in [Conns -> {"none", "new", "active", "idle"}]
    /\ waiter \in {"start", "waiting", "draining", "sending", "done"}
    /\ NoneBeforeListen /\ NoneLeft /\ TimeIsUp
    /\ Process!Running => cut = {}
    /\ CutOnlyAfterGrace

\* Initially there is no connection.
LEMMA ServerInit == Process!Init => ServerInv
  BY DEF Process!Init, ServerInv, NoneBeforeListen, NoneLeft, TimeIsUp,
         Process!ShuttingDown, CutOnlyAfterGrace, Process!CutOnlyAfterGrace

\* The process ends without a request under way, or as it may.
LEMMA EndPreserves ==
    ASSUME ServerInv, NEW how, how # "running", Process!End(how),
           UNCHANGED <<clock, result>>, waiter' \in {waiter, "done"},
           waiter' = "done" => Process!ShuttingDown,
           main' \in {main, "failed", "returned"},
           \/ \A c \in Conns : conn[c] # "active"
           \/ waiter' = "start"
           \/ main' = "failed"
           \/ result = "deadline"
    PROVE  ServerInv'
<1>1. cut' # {} =>
          waiter' = "start" \/ main' = "failed" \/ result = "deadline"
  BY DEF Process!End, Process!In
<1>2. CutOnlyAfterGrace'
  BY <1>1 DEF ServerInv, TimeIsUp, CutOnlyAfterGrace, Process!CutOnlyAfterGrace
<1>3. /\ conn' \in [Conns -> {"none", "new", "active", "idle"}]
      /\ \A c \in Conns : conn'[c] = "none"
  BY DEF Process!End
<1>4. exit' = how
  BY DEF Process!End
<1> QED
  BY <1>2, <1>3, <1>4
     DEF ServerInv, NoneBeforeListen, NoneLeft, TimeIsUp, Process!ShuttingDown,
         Process!Running

\* A connection changes its state only while some are served.
LEMMA TransitionPreserves ==
    ASSUME ServerInv, NEW c \in Conns,
           NEW from \in {"none", "new", "active", "idle"},
           NEW to \in {"none", "new", "active", "idle"},
           Process!Transition(c, from, to),
           from = "none" => main = "serving" /\ ~Process!ShuttingDown
    PROVE  ServerInv'
<1>1. /\ conn[c] = from /\ conn' = [conn EXCEPT ![c] = to]
      /\ UNCHANGED <<main, waiter, quit, clock, result, exit, cut>>
  BY DEF Process!Transition
<1>2. main # "start" /\ result # "nil"
  BY <1>1 DEF ServerInv, NoneBeforeListen, NoneLeft, TimeIsUp
<1> QED
  BY <1>1, <1>2
     DEF ServerInv, NoneBeforeListen, NoneLeft, TimeIsUp, Process!ShuttingDown,
         Process!Running, CutOnlyAfterGrace, Process!CutOnlyAfterGrace

\* Every step keeps the invariant.
LEMMA ServerNext == ServerInv /\ [Process!Next]_server => ServerInv'
<1> SUFFICES ASSUME ServerInv, [Process!Next]_server PROVE ServerInv'
  OBVIOUS
<1> USE DEF ServerInv, NoneBeforeListen, NoneLeft, TimeIsUp,
            Process!ShuttingDown, Process!Running, CutOnlyAfterGrace,
            Process!CutOnlyAfterGrace
<1>1. CASE Process!Notify \/ Process!Catch \/ Process!Tick \/ Process!GiveUp
  BY <1>1 DEF Process!Notify, Process!Catch, Process!Tick, Process!GiveUp,
              Process!Returns, Process!Deadline
<1>2. CASE Process!Signal
  <2>1. CASE waiter = "start"
    BY <1>2, <2>1, EndPreserves DEF Process!Signal
  <2>2. CASE waiter # "start"
    BY <1>2, <2>2 DEF Process!Signal
  <2> QED
    BY <2>1, <2>2
<1>3. CASE Process!Poll
  <2>1. PICK kept \in SUBSET Process!In("new") :
            /\ conn' = [c \in Conns |->
                   IF conn[c] = "active" \/ c \in kept THEN conn[c]
                                                       ELSE "none"]
            /\ IF Process!In("active") \cup kept = {}
               THEN Process!Returns("nil") ELSE UNCHANGED <<waiter, result>>
    BY <1>3 DEF Process!Poll
  <2>2. /\ waiter = "draining" /\ exit = "running"
        /\ UNCHANGED <<main, clock, exit, cut>>
    BY <1>3 DEF Process!Poll
  <2>3. main = "start" => \A c \in Conns : conn'[c] = "none"
    BY <2>1
  <2>4. CASE Process!In("active") \cup kept = {}
    <3>1. \A c \in Conns : conn'[c] = "none"
      BY <2>1, <2>4 DEF Process!In
    <3> QED
      BY <2>1, <2>2, <2>3, <2>4, <3>1 DEF Process!Returns
  <2>5. CASE Process!In("active") \cup kept # {}
    BY <2>1, <2>2, <2>3, <2>5
  <2> QED
    BY <2>4, <2>5
<1>4. CASE Process!Listen \/ Process!Fail \/ Process!ReturnError
  <2>1. CASE Process!ReturnError
    BY <2>1, EndPreserves DEF Process!ReturnError
  <2>2. CASE Process!Listen \/ Process!Fail
    BY <2>2 DEF Process!Listen, Process!Fail
  <2> QED
    BY <1>4, <2>1, <2>2
<1>5. CASE Process!Closed
  BY <1>5 DEF Process!Closed
<1>6. CASE Process!Return
  <2>1. /\ waiter = "sending" /\ waiter' = "done"
        /\ UNCHANGED <<clock, result>>
    BY <1>6 DEF Process!Return, Process!MayReturn
  <2>2. result # "deadline" => \A c \in Conns : conn[c] # "active"
    BY <2>1
  <2> QED
    BY <1>6, <2>1, <2>2, EndPreserves DEF Process!Return
<1>7. ASSUME NEW c \in Conns, Process!Accept(c) PROVE ServerInv'
  BY <1>7, TransitionPreserves DEF Process!Accept
<1>8. ASSUME NEW c \in Conns, Process!Request(c) PROVE ServerInv'
  BY <1>8, TransitionPreserves DEF Process!Request
<1>9. ASSUME NEW c \in Conns, Process!Respond(c) PROVE ServerInv'
  BY <1>9, TransitionPreserves DEF Process!Respond
<1>10. ASSUME NEW c \in Conns, Process!Close(c) PROVE ServerInv'
  BY <1>10, TransitionPreserves DEF Process!Close
<1>11. CASE UNCHANGED server
  BY <1>11 DEF server
<1> QED
  BY <1>1, <1>2, <1>3, <1>4, <1>5, <1>6, <1>7, <1>8, <1>9, <1>10, <1>11
     DEF Process!Next

\* Of the limiter the composition sees steps of its own only.
LEMMA LimiterSteps == GoroutinesSpec => Spec
<1>1. GoroutinesInit => Init
  BY DEF GoroutinesInit
<1>2. [GoroutinesNext]_<<part, vars, server>> => [Next]_vars
  BY DEF GoroutinesNext
<1> QED
  BY <1>1, <1>2, PTL DEF GoroutinesSpec, Spec

\* Whatever holds of the limiter alone holds of it beside the server.
THEOREM LimiterBesideServer ==
    GoroutinesSpec => [](TypeOK /\ OneResetPerEntry /\ BurstBound) /\ QuotaSpec
  BY LimiterSteps, TypeCorrect, AlwaysOneReset, AlwaysBurstBound,
     ImplementsQuota, PTL

\* Of the process the composition sees steps of its own only.
LEMMA ProcessSteps ==
    GoroutinesSpec => Process!Init /\ [][Process!Next]_server
<1>1. GoroutinesInit => Process!Init
  BY DEF GoroutinesInit
<1>2. [GoroutinesNext]_<<part, vars, server>> => [Process!Next]_server
  BY DEF GoroutinesNext
<1> QED
  BY <1>1, <1>2, PTL DEF GoroutinesSpec

\* The invariant holds in every reachable state.
THEOREM ServerInvariance == GoroutinesSpec => []ServerInv
  BY ServerInit, ServerNext, ProcessSteps, PTL

\* The process cuts requests off only when they had all the time of the context,
\* when a signal came before it catches any, or when Accept had failed.
THEOREM CutsOnlyAfterGrace == GoroutinesSpec => []CutOnlyAfterGrace
<1>1. ServerInv => CutOnlyAfterGrace
  BY DEF ServerInv
<1> QED
  BY <1>1, ServerInvariance, PTL

\* The states the goroutines, the channel and the connections can be in.
LEMMA ServerTypesPreserved ==
    ASSUME Process!TypeOK, [Process!Next]_server
    PROVE  Process!TypeOK'
<1> USE GoroutinesAssumption
    DEF Process!TypeOK, Process!Parameters, Process!End, Process!Returns,
            Process!In, Process!ShuttingDown
<1>1. CASE Process!Notify \/ Process!Catch \/ Process!Tick \/ Process!GiveUp
  BY <1>1 DEF Process!Notify, Process!Catch, Process!Tick, Process!GiveUp
<1>2. CASE Process!Signal
  BY <1>2 DEF Process!Signal, Process!Queued
<1>3. CASE Process!Poll
  <2>1. conn' \in [Conns -> {"none", "new", "active", "idle"}]
    BY <1>3 DEF Process!Poll
  <2>2. waiter' \in {waiter, "sending"} /\ result' \in {result, "nil"}
    BY <1>3 DEF Process!Poll
  <2> QED
    BY <1>3, <2>1, <2>2 DEF Process!Poll
<1>4. CASE \/ Process!Listen \/ Process!Fail \/ Process!ReturnError
           \/ Process!Closed \/ Process!Return
  BY <1>4 DEF Process!Listen, Process!Fail, Process!ReturnError,
              Process!Closed, Process!Return
<1>5. ASSUME NEW c \in Conns,
             \/ Process!Accept(c) \/ Process!Request(c)
             \/ Process!Respond(c) \/ Process!Close(c)
      PROVE  Process!TypeOK'
  BY <1>5 DEF Process!Accept, Process!Request, Process!Respond,
              Process!Close, Process!Transition
<1>6. CASE UNCHANGED server
  BY <1>6 DEF server
<1> QED
  BY <1>1, <1>2, <1>3, <1>4, <1>5, <1>6 DEF Process!Next

\* Every reachable state of the process is well typed.
THEOREM ServerTypeCorrect == GoroutinesSpec => []Process!TypeOK
<1>1. Process!Init => Process!TypeOK
  BY GoroutinesAssumption
     DEF Process!Init, Process!TypeOK, Process!Parameters
<1> QED
  BY <1>1, ServerTypesPreserved, ProcessSteps, PTL
=============================================================================
