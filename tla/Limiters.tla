------------------------------- MODULE Limiters -------------------------------
(***************************************************************************)
(* The limiters that FixedWindowAllow could be replaced by: the buckets    *)
(* (TokenBucket, LeakyBucket), the sliding windows (SlidingWindow,         *)
(* SlidingCounter), the fixed window that is reset by calls                *)
(* (WindowCounter) and the one kept in Redis (CachedWindow).  A server has *)
(* one of them, and they share no state: each behaviour is one of one      *)
(* limiter.                                                                *)
(***************************************************************************)
EXTENDS TokenBucket

CONSTANTS Interval,    \* of the windows, in ticks
          WindowRate,  \* requests per window that is reset
          SlidingRate, \* per window that slides, in parts of a request
          WindowTime,  \* bound on the time of the windows
          Limit, Window, Faults, MaxCount, LastRequest  \* of CachedWindow

VARIABLES limiter,
          lNow, lMade, water, lastLeak, lPc, lClient, lRefused, lSince,
          wNow, wMade, counter, wPc, wClient, wRefused, wSince,
          sNow, previousCount, currentCount, windowStart, allowed, sSince,
          fNow, fCount, fStart, fAllowed, fSince,
          rNow, count, expiry, rPc, answer, orphaned, rSince

leaky == <<lNow, lMade, water, lastLeak, lPc, lClient, lRefused, lSince>>
sliding == <<wNow, wMade, counter, wPc, wClient, wRefused, wSince>>
single == <<sNow, previousCount, currentCount, windowStart, allowed, sSince>>
fixed == <<fNow, fCount, fStart, fAllowed, fSince>>
redis == <<rNow, count, expiry, rPc, answer, orphaned, rSince>>

Leaky == INSTANCE LeakyBucket WITH
    now <- lNow, made <- lMade, pc <- lPc, client <- lClient,
    refused <- lRefused, since <- lSince

Sliding == INSTANCE SlidingWindow WITH
    Rate <- OneIfNone(SlidingRate), MaxTime <- WindowTime,
    now <- wNow, made <- wMade, pc <- wPc, client <- wClient,
    refused <- wRefused, since <- wSince

Single == INSTANCE SlidingCounter WITH
    Rate <- SlidingRate, MaxTime <- WindowTime, now <- sNow, since <- sSince

Fixed == INSTANCE WindowCounter WITH
    Rate <- WindowRate, MaxTime <- WindowTime, now <- fNow,
    count <- fCount, windowStart <- fStart, allowed <- fAllowed,
    since <- fSince

Redis == INSTANCE CachedWindow WITH
    now <- rNow, pc <- rPc, since <- rSince

ASSUME LimitersAssumption ==
    /\ Leaky!Parameters /\ Sliding!Parameters
    /\ Single!Parameters /\ Fixed!Parameters /\ Redis!Parameters

LimitersInit ==
    /\ limiter \in {"token", "leaky", "sliding", "single", "fixed", "redis"}
    /\ Init /\ Leaky!Init /\ Sliding!Init /\ Single!Init
    /\ Fixed!Init /\ Redis!Init

LimitersNext ==
    /\ UNCHANGED limiter
    /\ IF limiter = "token" THEN Next ELSE UNCHANGED vars
    /\ IF limiter = "leaky" THEN Leaky!Next ELSE UNCHANGED leaky
    /\ IF limiter = "sliding" THEN Sliding!Next ELSE UNCHANGED sliding
    /\ IF limiter = "single" THEN Single!Next ELSE UNCHANGED single
    /\ IF limiter = "fixed" THEN Fixed!Next ELSE UNCHANGED fixed
    /\ IF limiter = "redis" THEN Redis!Next ELSE UNCHANGED redis

LimitersSpec ==
    /\ LimitersInit
    /\ [][LimitersNext]_<<limiter, vars, leaky, sliding, single, fixed, redis>>
-----------------------------------------------------------------------------
\* The type invariants of all limiters.
TypesOK ==
    CASE limiter = "token" -> TypeOK
      [] limiter = "leaky" -> Leaky!TypeOK
      [] limiter = "sliding" -> Sliding!TypeOK
      [] limiter = "single" -> Single!TypeOK
      [] limiter = "fixed" -> Fixed!TypeOK
      [] limiter = "redis" -> Redis!TypeOK

\* Every limiter bounds the requests in any span of time: by what fits into an
\* empty bucket and has drained for LeakyBucketAllow, by the rate, rounded up,
\* and the share of the span for the sliding windows, by whole windows for
\* FixedWindowCounter.Allow and FixedWindowCachedAllow.  The two counts of
\* SlidingWindowAllow are the requests really admitted.
BurstBound ==
    /\ limiter = "leaky" => Leaky!RateBound
    /\ limiter = "sliding" => Sliding!BurstBound /\ Sliding!CountersAreTrue
    /\ limiter = "single" => Single!BurstBound
    /\ limiter = "fixed" => Fixed!BurstBound
    /\ limiter = "redis" => Redis!BurstBound

\* SlidingWindowCounter.Allow and FixedWindowCounter.Allow refuse nobody for
\* requests long past, and FixedWindowCachedAllow leaves no key without expiry,
\* but by a failure.
NeverLockedOut ==
    /\ Single!NeverLockedOut
    /\ Fixed!RefusalIsOwed
    /\ []Redis!ExpiryIsComing

\* The waiting times that LeakyBucketAllow and SlidingWindowAllow tell are exact
\* to a tick, but for SlidingWindowAllow at a rate that is not whole: the end of
\* a full window is told too early by the time its count needs to come down to
\* the rate.
RetriesAreExact == Leaky!RetryIsExact /\ Sliding!RetryIsExact
=============================================================================
