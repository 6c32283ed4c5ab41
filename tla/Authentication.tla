--------------------------- MODULE Authentication ---------------------------
(***************************************************************************)
(* Who a request is taken for: createTokenHandler (cmd/api/auth.go) issues *)
(* tokens, AuthTokenMiddleware and getUser (cmd/api/middleware.go) turn a  *)
(* token into a user by way of a Redis cache that nothing invalidates.     *)
(*                                                                         *)
(* The row of a user is changed elsewhere (Registration).  Each call of    *)
(* Redis or PostgreSQL is one step, so the row can go between the step     *)
(* that reads it and the step that caches it.  Time is counted in units.   *)
(***************************************************************************)
EXTENDS Integers

CONSTANTS Users,
          Reqs,          \* requests that look a user up
          UserExpTime,   \* life of an entry of the cache
          TokenExp,      \* life of a token
          Timeout,       \* middleware.Timeout, after which the context is done
          MaxTime,       \* bound on the time
          Faults         \* failures the environment may produce

ASSUME AuthUsersAssumption == Users # {}
ASSUME TimesAssumption ==
    /\ UserExpTime \in Nat \ {0} /\ TokenExp \in Nat \ {0}
    /\ Timeout \in Nat /\ MaxTime \in Nat
ASSUME AuthFaultsAssumption == Faults \subseteq {"redis", "db"}

VARIABLES now,
          enabled,       \* config.redisCfg.enabled
          row,           \* row[u]: the row of u in table users
          goneAt,        \* history: when the row of u was deleted
          token,         \* token[u]: when the newest token of u expires, or 0
          cached,        \* cached[u]: when the entry of u expires, or 0
          pc,            \* pc[q]: next step of request q
          sub,           \* sub[q]: the user it looks up
          started,       \* started[q]: when it arrived
          decided,       \* history: when the row or entry it used was read
          reply

vars == <<now, enabled, row, goneAt, token, cached, pc, sub, started, decided,
          reply>>
world == <<enabled, row, goneAt, token>>

Times == 0..MaxTime

TypeOK ==
    /\ now \in Times
    /\ enabled \in BOOLEAN
    /\ row \in [Users -> {"pending", "active", "gone"}]
    /\ goneAt \in [Users -> Times]
    /\ token \in [Users -> 0..MaxTime + TokenExp]
    /\ cached \in [Users -> 0..MaxTime + UserExpTime]
    /\ pc \in [Reqs -> {"idle", "lookup", "fetch", "store", "done"}]
    /\ sub \in [Reqs -> Users]
    /\ started \in [Reqs -> Times]
    /\ decided \in [Reqs -> Times]
    /\ reply \in [Reqs -> {"none", "served", "expired", "refused"}]

Init ==
    /\ now = 0
    /\ enabled \in BOOLEAN
    /\ row = [u \in Users |-> "pending"]
    /\ goneAt = [u \in Users |-> 0]
    /\ token = [u \in Users |-> 0]
    /\ cached = [u \in Users |-> 0]
    /\ pc = [q \in Reqs |-> "idle"]
    /\ sub = [q \in Reqs |-> CHOOSE u \in Users : TRUE]
    /\ started = [q \in Reqs |-> 0]
    /\ decided = [q \in Reqs |-> 0]
    /\ reply = [q \in Reqs |-> "none"]
-----------------------------------------------------------------------------
Goto(q, from, to) == pc[q] = from /\ pc' = [pc EXCEPT ![q] = to]

Answer(q, status) ==
    /\ pc' = [pc EXCEPT ![q] = "done"]
    /\ reply' = [reply EXCEPT ![q] = status]

ContextAlive(q) == now <= started[q] + Timeout

\* A signed token that has not expired.
ValidateToken(u) == now < token[u]

\* The cache has the user; nil is a miss.
Get(u) == cached[u] # 0

Set(u) == cached' = [cached EXCEPT ![u] = now + UserExpTime]

\* The account is activated, or deleted by the compensation of registration.
Activate(u) ==
    /\ row[u] = "pending"
    /\ row' = [row EXCEPT ![u] = "active"]
    /\ UNCHANGED <<now, enabled, goneAt, token, cached, pc, sub, started,
                   decided, reply>>

Remove(u) ==
    /\ row[u] # "gone"
    /\ row' = [row EXCEPT ![u] = "gone"]
    /\ goneAt' = [goneAt EXCEPT ![u] = now]
    /\ UNCHANGED <<now, enabled, token, cached, pc, sub, started, decided,
                   reply>>

\* createTokenHandler with the right password: GetByEmail finds active rows.
CreateToken(u) ==
    /\ row[u] = "active"
    /\ token' = [token EXCEPT ![u] = now + TokenExp]
    /\ UNCHANGED <<now, enabled, row, goneAt, cached, pc, sub, started,
                   decided, reply>>

\* AuthTokenMiddleware, for somebody who has a token.
Arrive(q, u) ==
    /\ token[u] # 0
    /\ \/ /\ ValidateToken(u)
          /\ Goto(q, "idle", IF enabled THEN "lookup" ELSE "fetch")
          /\ UNCHANGED reply
       \/ /\ ~ValidateToken(u) /\ pc[q] = "idle"
          /\ Answer(q, "expired")
    /\ sub' = [sub EXCEPT ![q] = u]
    /\ started' = [started EXCEPT ![q] = now]
    /\ UNCHANGED <<now, world, cached, decided>>

\* getUserHandler: somebody who is served looks up the profile of u.
Visit(q, u) ==
    /\ Goto(q, "idle", IF enabled THEN "lookup" ELSE "fetch")
    /\ sub' = [sub EXCEPT ![q] = u]
    /\ started' = [started EXCEPT ![q] = now]
    /\ UNCHANGED <<now, world, cached, decided, reply>>

\* Faulty variant: an error of the cache is an error of getUser.
Lookup_ErrorIsFatal(q) ==
    /\ pc[q] = "lookup"
    /\ \/ /\ cached[sub[q]] # 0 /\ ContextAlive(q)
          /\ decided' = [decided EXCEPT ![q] = now]
          /\ Answer(q, "served")
       \/ /\ cached[sub[q]] = 0
          /\ Goto(q, "lookup", "fetch")
          /\ UNCHANGED <<decided, reply>>
       \/ /\ "redis" \in Faults \/ ~ContextAlive(q)
          /\ Answer(q, "refused")
          /\ UNCHANGED decided
    /\ UNCHANGED <<now, world, cached, sub, started>>

\* getUser asks the cache; an error is logged and counts as a miss.
Lookup(q) ==
    /\ pc[q] = "lookup"
    /\ \/ /\ Get(sub[q]) /\ ContextAlive(q)
          /\ decided' = [decided EXCEPT ![q] = now]
          /\ Answer(q, "served")
       \/ /\ ~Get(sub[q]) \/ "redis" \in Faults \/ ~ContextAlive(q)
          /\ Goto(q, "lookup", "fetch")
          /\ UNCHANGED <<decided, reply>>
    /\ UNCHANGED <<now, world, cached, sub, started>>

\* UserStore.GetByID: active rows only.  An error is a 401 of the middleware,
\* a 404 or 500 of getUserHandler.
Fetch(q) ==
    /\ pc[q] = "fetch"
    /\ \/ /\ row[sub[q]] = "active" /\ ContextAlive(q)
          /\ decided' = [decided EXCEPT ![q] = now]
          /\ IF enabled THEN Goto(q, "fetch", "store") /\ UNCHANGED reply
                        ELSE Answer(q, "served")
       \/ /\ row[sub[q]] # "active" \/ "db" \in Faults \/ ~ContextAlive(q)
          /\ Answer(q, "refused")
          /\ UNCHANGED decided
    /\ UNCHANGED <<now, world, cached, sub, started>>

\* Faulty variant: the entry is stored with a context of its own.
Store_Background(q) ==
    /\ pc[q] = "store"
    /\ cached' = [cached EXCEPT ![sub[q]] = now + UserExpTime]
    /\ Answer(q, "served")
    /\ UNCHANGED <<now, world, sub, started, decided>>

\* Faulty variant: an entry that is there gets UserExpTime more.
Store_Extended(q) ==
    /\ pc[q] = "store"
    /\ \/ /\ ContextAlive(q)
          /\ cached' = [cached EXCEPT ![sub[q]] =
                 (IF @ = 0 THEN now ELSE @) + UserExpTime]
       \/ /\ "redis" \in Faults \/ ~ContextAlive(q)
          /\ UNCHANGED cached
    /\ Answer(q, "served")
    /\ UNCHANGED <<now, world, sub, started, decided>>

\* The user read before is cached for UserExpTime; an error is logged.
Store(q) ==
    /\ pc[q] = "store"
    /\ \/ ContextAlive(q) /\ Set(sub[q])
       \/ /\ "redis" \in Faults \/ ~ContextAlive(q)
          /\ UNCHANGED cached
    /\ Answer(q, "served")
    /\ UNCHANGED <<now, world, sub, started, decided>>

\* Redis drops an entry when its time is over.
Tick ==
    /\ now < MaxTime
    /\ now' = now + 1
    /\ cached' = [u \in Users |-> IF cached[u] > now' THEN cached[u] ELSE 0]
    /\ UNCHANGED <<world, pc, sub, started, decided, reply>>

Next ==
    \/ \E u \in Users : Activate(u) \/ Remove(u) \/ CreateToken(u)
    \/ \E q \in Reqs : \/ \E u \in Users : Arrive(q, u) \/ Visit(q, u)
                       \/ Lookup(q) \/ Fetch(q) \/ Store(q)
    \/ Tick

Spec == Init /\ [][Next]_vars
-----------------------------------------------------------------------------
(* Properties                                                              *)

\* How long a deleted user is still served, or shown: without the cache not
\* at all; with it for less than the life of an entry after the last moment at
\* which a request that had read the row could still store it.
StaleBound ==
    \A q \in Reqs : reply[q] = "served" /\ row[sub[q]] = "gone" =>
        decided[q] < goneAt[sub[q]] + (IF enabled THEN Timeout + UserExpTime
                                                  ELSE 1)

\* The cache never costs a user his access: a lookup is refused only if at
\* that moment the user is not active, the database failed, or its time was
\* up.  A failing Redis refuses nobody.
CacheNeverRefuses ==
    [][\A q \in Reqs : reply[q] # "refused" /\ reply'[q] = "refused" =>
           row[sub[q]] # "active" \/ "db" \in Faults \/ ~ContextAlive(q)]_vars
=============================================================================
