------------------------ MODULE Authentication_proofs ------------------------
(***************************************************************************)
(* How long the cache of users keeps a deleted user alive, for any users,  *)
(* requests, times to live and failures.                                   *)
(***************************************************************************)
EXTENDS Authentication, TLAPS

\* The last moment at which u may be served, if its row is gone.
LastServed(u) == goneAt[u] + Timeout + UserExpTime

\* The deletion of a row and the use of a copy of it lie in the past.
Past ==
    /\ \A u \in Users : goneAt[u] <= now
    /\ \A q \in Reqs : started[q] <= now /\ decided[q] <= now

\* Only a cache that is enabled is asked.
CacheUse ==
    ~enabled => \A q \in Reqs : pc[q] \notin {"lookup", "store"}

\* A request is answered in its last step.
Waiting == \A q \in Reqs : pc[q] # "done" => reply[q] = "none"

\* A copy that waits to be stored is of a row that was there after its
\* request had started, so the context of the request dates it.
Pending ==
    \A q \in Reqs : pc[q] = "store" =>
        /\ decided[q] >= started[q]
        /\ row[sub[q]] = "gone" => decided[q] <= goneAt[sub[q]]

\* An entry outlives its row by no more than the two delays.
Entries ==
    \A u \in Users : /\ cached[u] = 0 \/ cached[u] > now
                     /\ cached[u] <= now + UserExpTime
                     /\ row[u] = "gone" => cached[u] <= LastServed(u)

IInv == /\ TypeOK /\ Past /\ CacheUse /\ Waiting /\ Pending /\ Entries
        /\ StaleBound

USE TimesAssumption DEF Times, ValidateToken, Get, Set

\* The times are natural numbers.
LEMMA Numbers ==
    ASSUME TypeOK
    PROVE  /\ now \in Nat
           /\ \A u \in Users : goneAt[u] \in Nat /\ cached[u] \in Nat
           /\ \A q \in Reqs : started[q] \in Nat /\ decided[q] \in Nat
  BY DEF TypeOK

\* Initially nobody is deleted and the cache is empty.
LEMMA InitIInv == Init => IInv
<1> SUFFICES ASSUME Init PROVE IInv
  OBVIOUS
<1>1. TypeOK
  <2>1. PICK v \in Users : v = CHOOSE u \in Users : TRUE
    BY AuthUsersAssumption
  <2>2. sub = [q \in Reqs |-> v]
    BY <2>1 DEF Init
  <2>3. 0 \in Times /\ 0 \in 0..MaxTime + TokenExp
        /\ 0 \in 0..MaxTime + UserExpTime
    OBVIOUS
  <2> QED
    BY <2>2, <2>3 DEF Init, TypeOK
<1> QED
  BY <1>1 DEF Init, IInv, Past, CacheUse, Waiting, Pending, Entries,
              StaleBound

\* Activating a row deletes none.
LEMMA ActivatePreserves ==
    ASSUME IInv, NEW u \in Users, Activate(u)
    PROVE  IInv'
<1>1. TypeOK'
  BY DEF IInv, TypeOK, Activate
<1>2. Past'
  BY Numbers DEF IInv, TypeOK, Past, Activate
<1>3. CacheUse'
  BY Numbers DEF IInv, TypeOK, CacheUse, Activate
<1>4. Waiting'
  BY Numbers DEF IInv, TypeOK, Waiting, Activate
<1>5. Pending'
  BY Numbers DEF IInv, TypeOK, Pending, Activate
<1>6. Entries'
  BY Numbers DEF IInv, TypeOK, Entries, LastServed, Activate
<1>7. StaleBound'
  BY Numbers DEF IInv, TypeOK, StaleBound, Activate
<1> QED
  BY <1>1, <1>2, <1>3, <1>4, <1>5, <1>6, <1>7 DEF IInv

\* What was cached or served before the deletion is older than it.
LEMMA RemovePreserves ==
    ASSUME IInv, NEW u \in Users, Remove(u)
    PROVE  IInv'
<1>1. TypeOK'
  BY DEF IInv, TypeOK, Remove
<1>2. Past'
  BY Numbers DEF IInv, TypeOK, Past, Remove
<1>3. CacheUse'
  BY Numbers DEF IInv, TypeOK, CacheUse, Remove
<1>4. Waiting'
  BY Numbers DEF IInv, TypeOK, Waiting, Remove
<1>5. Pending'
  BY Numbers DEF IInv, TypeOK, Pending, Past, Remove
<1>6. Entries'
  BY Numbers DEF IInv, TypeOK, Entries, LastServed, Remove
<1>7. StaleBound'
  BY Numbers DEF IInv, TypeOK, StaleBound, Past, Remove
<1> QED
  BY <1>1, <1>2, <1>3, <1>4, <1>5, <1>6, <1>7 DEF IInv

\* A token touches neither the cache nor a lookup.
LEMMA CreateTokenPreserves ==
    ASSUME IInv, NEW u \in Users, CreateToken(u)
    PROVE  IInv'
<1>1. TypeOK'
  BY DEF IInv, TypeOK, CreateToken
<1>2. Past'
  BY Numbers DEF IInv, TypeOK, Past, CreateToken
<1>3. CacheUse'
  BY Numbers DEF IInv, TypeOK, CacheUse, CreateToken
<1>4. Waiting'
  BY Numbers DEF IInv, TypeOK, Waiting, CreateToken
<1>5. Pending'
  BY Numbers DEF IInv, TypeOK, Pending, CreateToken
<1>6. Entries'
  BY Numbers DEF IInv, TypeOK, Entries, LastServed, CreateToken
<1>7. StaleBound'
  BY Numbers DEF IInv, TypeOK, StaleBound, CreateToken
<1> QED
  BY <1>1, <1>2, <1>3, <1>4, <1>5, <1>6, <1>7 DEF IInv

\* A request starts now.
LEMMA ArrivePreserves ==
    ASSUME IInv, NEW q \in Reqs, NEW u \in Users, Arrive(q, u)
    PROVE  IInv'
<1>1. TypeOK'
  BY DEF IInv, TypeOK, Arrive, Goto, Answer, world
<1>2. Past'
  BY Numbers DEF IInv, TypeOK, Past, Arrive, Goto, Answer, world
<1>3. CacheUse'
  BY Numbers DEF IInv, TypeOK, CacheUse, Arrive, Goto, Answer, world
<1>4. Waiting'
  BY Numbers DEF IInv, TypeOK, Waiting, Arrive, Goto, Answer, world
<1>5. Pending'
  BY Numbers DEF IInv, TypeOK, Pending, Arrive, Goto, Answer, world
<1>6. Entries'
  BY Numbers DEF IInv, TypeOK, Entries, LastServed, Arrive, Goto, Answer, world
<1>7. StaleBound'
  BY Numbers DEF IInv, TypeOK, StaleBound, Waiting, Arrive, Goto, Answer, world
<1> QED
  BY <1>1, <1>2, <1>3, <1>4, <1>5, <1>6, <1>7 DEF IInv

\* So does the look at a profile.
LEMMA VisitPreserves ==
    ASSUME IInv, NEW q \in Reqs, NEW u \in Users, Visit(q, u)
    PROVE  IInv'
<1>1. TypeOK'
  BY DEF IInv, TypeOK, Visit, Goto, world
<1>2. Past'
  BY Numbers DEF IInv, TypeOK, Past, Visit, Goto, world
<1>3. CacheUse'
  BY Numbers DEF IInv, TypeOK, CacheUse, Visit, Goto, world
<1>4. Waiting'
  BY Numbers DEF IInv, TypeOK, Waiting, Visit, Goto, world
<1>5. Pending'
  BY Numbers DEF IInv, TypeOK, Pending, Visit, Goto, world
<1>6. Entries'
  BY Numbers DEF IInv, TypeOK, Entries, LastServed, Visit, Goto, world
<1>7. StaleBound'
  BY Numbers DEF IInv, TypeOK, StaleBound, Waiting, Visit, Goto, world
<1> QED
  BY <1>1, <1>2, <1>3, <1>4, <1>5, <1>6, <1>7 DEF IInv

\* An entry that is found has not expired.
LEMMA LookupPreserves ==
    ASSUME IInv, NEW q \in Reqs, Lookup(q)
    PROVE  IInv'
<1>1. TypeOK'
  BY DEF IInv, TypeOK, Lookup, Goto, Answer, world
<1>2. Past'
  BY Numbers DEF IInv, TypeOK, Past, Lookup, Goto, Answer, world
<1>3. CacheUse'
  BY Numbers DEF IInv, TypeOK, CacheUse, Lookup, Goto, Answer, world
<1>4. Waiting'
  BY Numbers DEF IInv, TypeOK, Waiting, Lookup, Goto, Answer, world
<1>5. Pending'
  BY Numbers DEF IInv, TypeOK, Pending, Lookup, Goto, Answer, world
<1>6. Entries'
  BY Numbers DEF IInv, TypeOK, Entries, LastServed, Lookup, Goto, Answer, world
<1>7. StaleBound'
  BY Numbers DEF IInv, TypeOK, StaleBound, Entries, LastServed, CacheUse,
                 Lookup, Goto, Answer, world
<1> QED
  BY <1>1, <1>2, <1>3, <1>4, <1>5, <1>6, <1>7 DEF IInv

\* A row that is read is not gone.
LEMMA FetchPreserves ==
    ASSUME IInv, NEW q \in Reqs, Fetch(q)
    PROVE  IInv'
<1>1. TypeOK'
  BY DEF IInv, TypeOK, Fetch, Goto, Answer, world
<1>2. Past'
  BY Numbers DEF IInv, TypeOK, Past, Fetch, Goto, Answer, world
<1>3. CacheUse'
  BY Numbers DEF IInv, TypeOK, CacheUse, Fetch, Goto, Answer, world
<1>4. Waiting'
  BY Numbers DEF IInv, TypeOK, Waiting, Fetch, Goto, Answer, world
<1>5. Pending'
  BY Numbers DEF IInv, TypeOK, Pending, Past, Fetch, Goto, Answer, world
<1>6. Entries'
  BY Numbers DEF IInv, TypeOK, Entries, LastServed, Fetch, Goto, Answer, world
<1>7. StaleBound'
  BY Numbers DEF IInv, TypeOK, StaleBound, Fetch, Goto, Answer, world
<1> QED
  BY <1>1, <1>2, <1>3, <1>4, <1>5, <1>6, <1>7 DEF IInv

\* An entry is stored while the context of its request lives.
LEMMA StorePreserves ==
    ASSUME IInv, NEW q \in Reqs, Store(q)
    PROVE  IInv'
<1>1. TypeOK'
  BY DEF IInv, TypeOK, Store, Answer, ContextAlive, world
<1>2. Past'
  BY Numbers DEF IInv, TypeOK, Past, Store, Answer, ContextAlive, world
<1>3. CacheUse'
  BY Numbers DEF IInv, TypeOK, CacheUse, Store, Answer, ContextAlive, world
<1>4. Waiting'
  BY Numbers DEF IInv, TypeOK, Waiting, Store, Answer, ContextAlive, world
<1>5. Pending'
  BY Numbers DEF IInv, TypeOK, Pending, Store, Answer, ContextAlive, world
<1>6. Entries'
  BY Numbers DEF IInv, TypeOK, Entries, LastServed, Pending, Store, Answer,
                 ContextAlive, world
<1>7. StaleBound'
  BY Numbers DEF IInv, TypeOK, StaleBound, Pending, Past, CacheUse, Store,
                 Answer, ContextAlive, world
<1> QED
  BY <1>1, <1>2, <1>3, <1>4, <1>5, <1>6, <1>7 DEF IInv

\* Time only makes bounds larger.
LEMMA TickPreserves ==
    ASSUME IInv, Tick
    PROVE  IInv'
<1>1. TypeOK'
  BY DEF IInv, TypeOK, Tick, world
<1>2. Past'
  BY Numbers DEF IInv, TypeOK, Past, Tick, world
<1>3. CacheUse'
  BY Numbers DEF IInv, TypeOK, CacheUse, Tick, world
<1>4. Waiting'
  BY Numbers DEF IInv, TypeOK, Waiting, Tick, world
<1>5. Pending'
  BY Numbers DEF IInv, TypeOK, Pending, Tick, world
<1>6. Entries'
  BY Numbers DEF IInv, TypeOK, Entries, LastServed, Tick, world
<1>7. StaleBound'
  BY Numbers DEF IInv, TypeOK, StaleBound, Tick, world
<1> QED
  BY <1>1, <1>2, <1>3, <1>4, <1>5, <1>6, <1>7 DEF IInv

\* Every step keeps the invariant.
LEMMA NextPreserves == IInv /\ [Next]_vars => IInv'
<1> SUFFICES ASSUME IInv, [Next]_vars PROVE IInv'
  OBVIOUS
<1>1. CASE UNCHANGED vars
  BY <1>1 DEF vars, IInv, TypeOK, Past, CacheUse, Waiting, Pending, Entries,
              StaleBound, LastServed
<1> QED
  BY <1>1, ActivatePreserves, RemovePreserves, CreateTokenPreserves,
     ArrivePreserves, VisitPreserves, LookupPreserves, FetchPreserves,
     StorePreserves, TickPreserves
     DEF Next

\* The invariant holds in every reachable state.
THEOREM Invariance == Spec => []IInv
  BY InitIInv, NextPreserves, PTL DEF Spec

\* The type invariant.
THEOREM TypeCorrect == Spec => []TypeOK
<1>1. IInv => TypeOK
  BY DEF IInv
<1> QED
  BY <1>1, Invariance, PTL

\* No entry is kept for longer than UserExpTime from now on.
THEOREM EntriesExpire ==
    Spec => [](\A u \in Users : cached[u] <= now + UserExpTime)
<1>1. IInv => \A u \in Users : cached[u] <= now + UserExpTime
  BY DEF IInv, Entries
<1> QED
  BY <1>1, Invariance, PTL

\* A deleted user is served for less than Timeout + UserExpTime, and not at
\* all without the cache, whatever fails and however requests overlap.
THEOREM AlwaysStaleBound == Spec => []StaleBound
<1>1. IInv => StaleBound
  BY DEF IInv
<1> QED
  BY <1>1, Invariance, PTL

\* A lookup is refused for the three reasons only: Redis is not one of them.
THEOREM CacheAlwaysNeverRefuses == Spec => CacheNeverRefuses
<1> DEFINE Reasons ==
      \A q \in Reqs : reply[q] # "refused" /\ reply'[q] = "refused" =>
          row[sub[q]] # "active" \/ "db" \in Faults \/ ~ContextAlive(q)
<1>1. IInv /\ [Next]_vars => Reasons
  <2> SUFFICES ASSUME IInv, [Next]_vars, NEW q \in Reqs,
                      reply[q] # "refused", reply'[q] = "refused"
               PROVE  \/ row[sub[q]] # "active" \/ "db" \in Faults
                      \/ ~ContextAlive(q)
    OBVIOUS
  <2>1. reply \in [Reqs -> {"none", "served", "expired", "refused"}]
    BY DEF IInv, TypeOK
  <2>2. PICK s \in Reqs : \/ \E u \in Users : Arrive(s, u)
                          \/ Lookup(s) \/ Fetch(s) \/ Store(s)
    BY <2>1 DEF Next, vars, Activate, Remove, CreateToken, Visit, Tick
  <2>3. Fetch(q)
    BY <2>1, <2>2 DEF Arrive, Lookup, Fetch, Store, Answer
  <2> QED
    BY <2>1, <2>3 DEF Fetch, Answer, Goto
<1> QED
  BY <1>1, Invariance, PTL DEF Spec, CacheNeverRefuses
=============================================================================
