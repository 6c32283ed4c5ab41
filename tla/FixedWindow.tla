----------------------------- MODULE FixedWindow -----------------------------
(***************************************************************************)
(* internal/ratelimiter/fixed-window.go, the limiter RateLimiterMiddleware *)
(* asks about every request: a map of counters behind a mutex, and for     *)
(* each entry a goroutine that sleeps for the window and deletes it.       *)
(*                                                                         *)
(* Each critical section is one step.  Time is counted in units; a         *)
(* goroutine may run any time after its sleep is over.                     *)
(***************************************************************************)
EXTENDS History

CONSTANTS Clients,     \* keys of the map: values of r.RemoteAddr
          Limit,       \* RATELIMITER_REQUESTS_COUNT, of any sign
          Window,      \* the time frame, in units
          LastRequest  \* bound: no request comes after this time

ASSUME LimitAssumption == Limit \in Int
ASSUME WindowAssumption == Window \in Nat \ {0}
ASSUME LastRequestAssumption == LastRequest \in Nat

VARIABLES now,
          clients,     \* clients[c]: the counter of c; 0 when c has no entry
          sleeping,    \* sleeping[c][t]: resets of c that sleep until t
          opened,      \* history: when the entry of c was made
          since,       \* history: since[c][t], requests of c allowed from t on
          answer       \* answer[c]: the last answer to c

vars == <<now, clients, sleeping, opened, since, answer>>

Horizon == LastRequest + Window
Times == 0..Horizon

\* What one window admits: a limit of zero or less still admits the request
\* that makes the entry.
PerWindow == IF Limit > 1 THEN Limit ELSE 1

TypeOK ==
    /\ now \in Times
    /\ clients \in [Clients -> 0..PerWindow]
    /\ sleeping \in [Clients -> [Times -> Nat]]
    /\ opened \in [Clients -> Times]
    /\ since \in [Clients -> [Times -> Nat]]
    /\ answer \in [Clients -> {"none", "allow", "deny"}]

Init ==
    /\ now = 0
    /\ clients = [c \in Clients |-> 0]
    /\ sleeping = [c \in Clients |-> [t \in Times |-> 0]]
    /\ opened = [c \in Clients |-> 0]
    /\ since = [c \in Clients |-> [t \in Times |-> 0]]
    /\ answer = [c \in Clients |-> "none"]

Count(c, n) ==
    /\ clients' = [clients EXCEPT ![c] = n]
    /\ since' = [since EXCEPT ![c] = Recorded(@, now)]
    /\ answer' = [answer EXCEPT ![c] = "allow"]

\* FixedWindowAllow without an entry: make one and start its reset.
AllowFirst(c) ==
    /\ now <= LastRequest /\ clients[c] = 0
    /\ Count(c, 1)
    /\ sleeping' = [sleeping EXCEPT ![c][now + Window] = @ + 1]
    /\ opened' = [opened EXCEPT ![c] = now]
    /\ UNCHANGED now

\* Faulty variant: every admitted request starts a reset.
AllowMore_Reset(c) ==
    /\ now <= LastRequest /\ clients[c] > 0 /\ clients[c] < Limit
    /\ Count(c, clients[c] + 1)
    /\ sleeping' = [sleeping EXCEPT ![c][now + Window] = @ + 1]
    /\ UNCHANGED <<now, opened>>

\* Faulty variant: count <= rl.limit.
AllowMore_OffByOne(c) ==
    /\ now <= LastRequest /\ clients[c] > 0 /\ clients[c] <= Limit
    /\ Count(c, clients[c] + 1)
    /\ UNCHANGED <<now, sleeping, opened>>

\* ... with an entry below the limit.
AllowMore(c) ==
    /\ now <= LastRequest /\ clients[c] > 0 /\ clients[c] < Limit
    /\ Count(c, clients[c] + 1)
    /\ UNCHANGED <<now, sleeping, opened>>

\* Faulty variant: the limiter refuses at the last request of the quota.
Deny_Early(c) ==
    /\ now <= LastRequest /\ clients[c] > 0 /\ clients[c] >= Limit - 1
    /\ answer' = [answer EXCEPT ![c] = "deny"]
    /\ UNCHANGED <<now, clients, sleeping, opened, since>>

\* ... with an entry at the limit: the answer says to retry after Window.
Deny(c) ==
    /\ now <= LastRequest /\ clients[c] > 0 /\ clients[c] >= Limit
    /\ answer' = [answer EXCEPT ![c] = "deny"]
    /\ UNCHANGED <<now, clients, sleeping, opened, since>>

\* Faulty variant: the goroutine does not sleep.
ResetCount_NoSleep(c, t) ==
    /\ sleeping[c][t] > 0
    /\ sleeping' = [sleeping EXCEPT ![c][t] = @ - 1]
    /\ clients' = [clients EXCEPT ![c] = 0]
    /\ UNCHANGED <<now, opened, since, answer>>

\* Faulty variant: the goroutine ends without deleting the entry.
ResetCount_Lost(c, t) ==
    /\ sleeping[c][t] > 0 /\ t <= now
    /\ sleeping' = [sleeping EXCEPT ![c][t] = @ - 1]
    /\ UNCHANGED <<now, clients, opened, since, answer>>

\* resetCount wakes up and deletes the entry of its client.
ResetCount(c, t) ==
    /\ sleeping[c][t] > 0 /\ t <= now
    /\ sleeping' = [sleeping EXCEPT ![c][t] = @ - 1]
    /\ clients' = [clients EXCEPT ![c] = 0]
    /\ UNCHANGED <<now, opened, since, answer>>

Tick ==
    /\ now < Horizon
    /\ now' = now + 1
    /\ UNCHANGED <<clients, sleeping, opened, since, answer>>

Next ==
    \/ \E c \in Clients : AllowFirst(c) \/ AllowMore(c) \/ Deny(c)
    \/ \E c \in Clients, t \in Times : ResetCount(c, t)
    \/ Tick

Spec == Init /\ [][Next]_vars

\* Time passes, and a goroutine whose sleep is over gets the mutex.
Fairness ==
    /\ WF_vars(Tick)
    /\ \A c \in Clients, t \in Times : WF_vars(ResetCount(c, t))

FairSpec == Spec /\ Fairness
-----------------------------------------------------------------------------
(* Properties                                                              *)

\* An entry has exactly one goroutine that will delete it, due Window after
\* the entry was made (so the Retry-After of a refusal is long enough), and a
\* client without an entry has none: no reset cuts a later window short.
OneResetPerEntry ==
    \A c \in Clients :
        /\ opened[c] <= now /\ opened[c] <= LastRequest
        /\ \A t \in Times : sleeping[c][t] =
               IF clients[c] > 0 /\ t = opened[c] + Window THEN 1 ELSE 0

\* The limiter is the quota it stands for.
QuotaOfWindow ==
    INSTANCE Quota WITH used <- clients

QuotaSpec == QuotaOfWindow!Spec

\* In any stretch of time as long as the window a client gets at most two
\* windows' worth of requests, however late the goroutines run.
BurstBound ==
    \A c \in Clients, t \in Times :
        Within(since[c], t, Window) <= 2 * PerWindow

\* A client that is refused gets a new window.
RefusedGetsWindow ==
    \A c \in Clients : answer[c] = "deny" ~> clients[c] = 0
=============================================================================
