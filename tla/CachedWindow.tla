---------------------------- MODULE CachedWindow ------------------------------
(***************************************************************************)
(* FixedWindowCachedAllow of internal/ratelimiter/fixed-window.go: the     *)
(* fixed window kept in Redis, for servers that share it.  INCR, EXPIRE    *)
(* and TTL are three calls of Redis, each atomic, with other requests and  *)
(* time in between.  Keys are independent: this is the key of one client.  *)
(***************************************************************************)
EXTENDS History

CONSTANTS Reqs,        \* requests that may overlap, of any server
          Limit,       \* requests in a window, of any sign
          Window,      \* seconds
          Second,      \* ticks of a second
          Faults,      \* calls of Redis may fail, and servers may stop
          MaxCount,    \* bound on the key's value
          LastRequest  \* bound: no request begins or ends after this time

\* What the constants are taken to be.
Parameters ==
    /\ Limit \in Int /\ Window \in Nat \ {0} /\ Second \in Nat \ {0}
    /\ Faults \in BOOLEAN
    /\ MaxCount \in Nat /\ LastRequest \in Nat

VARIABLES now,
          count,       \* the value of the key; 0 when there is no key
          expiry,      \* when the key expires, or Never
          pc,          \* pc[q]: "idle", or the call q makes next
          answer,      \* answer[q]: the last answer to q
          orphaned,    \* history: the call after which the key was to be given
                       \* an expiry has failed since the key was made
          since        \* history: since[s], requests allowed from s on

vars == <<now, count, expiry, pc, answer, orphaned, since>>

Span == Window * Second
Horizon == LastRequest + Span
Times == 0..Horizon
Never == -1

\* An allowed request is told 0, a refused one how many ticks to wait.
Errored == -1
None == -2

TypeOK ==
    /\ now \in Times
    /\ count \in 0..MaxCount
    /\ expiry \in Times \cup {Never}
    /\ count = 0 => expiry = Never
    /\ pc \in [Reqs -> {"idle", "expire", "ttl"}]
    /\ answer \in [Reqs -> {None, Errored, 0} \cup 1..Span]
    /\ orphaned \in BOOLEAN
    /\ since \in [Times -> Nat]

Init ==
    /\ now = 0
    /\ count = 0
    /\ expiry = Never
    /\ pc = [q \in Reqs |-> "idle"]
    /\ answer = [q \in Reqs |-> None]
    /\ orphaned = FALSE
    /\ since = [t \in Times |-> 0]
-----------------------------------------------------------------------------
Reply(q, a) ==
    /\ pc' = [pc EXCEPT ![q] = "idle"]
    /\ answer' = [answer EXCEPT ![q] = a]
    /\ since' = IF a = 0 THEN Recorded(since, now) ELSE since

GoTo(q, call) ==
    /\ pc' = [pc EXCEPT ![q] = call]
    /\ UNCHANGED <<answer, since>>

\* What follows once it is known that the value of the key was n.
Decide(q, n) == IF n <= Limit THEN Reply(q, 0) ELSE GoTo(q, "ttl")

\* Faulty variant: the request that exceeds the limit starts the window.
AfterIncr_AtLimit(q, n) ==
    IF n = Limit + 1 THEN GoTo(q, "expire") ELSE Decide(q, n)

AfterIncr(q, n) == IF n = 1 THEN GoTo(q, "expire") ELSE Decide(q, n)

Incr(q) ==
    /\ pc[q] = "idle" /\ now <= LastRequest /\ count < MaxCount
    /\ count' = count + 1
    /\ AfterIncr(q, count + 1)
    /\ UNCHANGED <<now, expiry, orphaned>>

Expire(q) ==
    /\ pc[q] = "expire"
    /\ expiry' = IF count > 0 THEN now + Span ELSE Never
    /\ Decide(q, 1)
    /\ UNCHANGED <<now, count, orphaned>>

\* Redis rounds the time a key has left to whole seconds, and has negative
\* answers for a key without expiry and for no key.
SecondsLeft == IF expiry = Never THEN -1
               ELSE (expiry - now + Second \div 2) \div Second

RetryAfter == IF SecondsLeft <= 0 THEN Span ELSE SecondsLeft * Second

TTL(q) ==
    /\ pc[q] = "ttl"
    /\ Reply(q, RetryAfter)
    /\ UNCHANGED <<now, count, expiry, orphaned>>

\* A call has no effect, and an error is returned.  A server that stops has
\* the same effect.
CallFails(q) ==
    /\ Faults
    /\ pc[q] = "idle" => now <= LastRequest
    /\ orphaned' = (orphaned \/ pc[q] = "expire")
    /\ Reply(q, Errored)
    /\ UNCHANGED <<now, count, expiry>>

\* INCR or EXPIRE takes effect and its answer is lost.
AnswerLost(q) ==
    /\ Faults
    /\ \/ /\ pc[q] = "idle" /\ now <= LastRequest /\ count < MaxCount
          /\ count' = count + 1
          /\ orphaned' = (orphaned \/ count = 0)
          /\ UNCHANGED expiry
       \/ /\ pc[q] = "expire"
          /\ expiry' = now + Span
          /\ UNCHANGED <<count, orphaned>>
    /\ Reply(q, Errored)
    /\ UNCHANGED now

\* Time passes, and Redis deletes the key when it is due.
Tick ==
    /\ now < Horizon
    /\ now = LastRequest => \A q \in Reqs : pc[q] = "idle"
    /\ now' = now + 1
    /\ IF expiry = now + 1
       THEN count' = 0 /\ expiry' = Never /\ orphaned' = FALSE
       ELSE UNCHANGED <<count, expiry, orphaned>>
    /\ UNCHANGED <<pc, answer, since>>

Call(q) == Expire(q) \/ TTL(q) \/ CallFails(q) \/ AnswerLost(q)

Next == (\E q \in Reqs : Incr(q) \/ Call(q)) \/ Tick

Spec == Init /\ [][Next]_vars
-----------------------------------------------------------------------------
(* Properties                                                              *)

\* A key without expiry, which no request's EXPIRE is about to give one, is
\* the remains of a failure: nothing but INCR of the first request is followed
\* by EXPIRE, so the order of the calls alone must never leave one behind.
ExpiryIsComing ==
    count > 0 /\ expiry = Never =>
        orphaned \/ \E q \in Reqs : pc[q] = "expire"

\* However late EXPIRE comes, and with any failures, a span of one window and
\* a tick meets two lives of the key at most.
BurstBound ==
    \A s \in Times :
        Within(since, s, Span + 1) <= 2 * (IF Limit > 0 THEN Limit ELSE 0)
=============================================================================
