----------------------------- MODULE RateLimiter -----------------------------
(***************************************************************************)
(* The gateway's rate limiter (pensyve-mcp-gateway/src/rate_limit.rs) for  *)
(* one tenant.  A check reads the clock, sends a script to the Redis all   *)
(* pods share, and waits for it; when the answer does not come in time, or *)
(* Redis is down, it decides by a bucket in the memory of the pod, with    *)
(* the time it read at first.  The script is not called back: it may still *)
(* run, after the check or never.                                          *)
(*                                                                         *)
(* What the script does is one step; expiry of its keys comes after        *)
(* their content is of no use and is left out.                             *)
(***************************************************************************)
EXTENDS Integers, FiniteSets, FiniteSetsExt

CONSTANTS
    Requests, \* numbered; they arrive in the order of their numbers
    Pods,
    Rpm,      \* rpm_limit
    Daily,    \* daily_limit
    Window,   \* the window of a minute, in ticks
    Midnight, \* when the day ends, in ticks
    Lag,      \* ticks a check or its script may be behind the clock it read
    MaxTime   \* bound of the model

ASSUME RateAssumption ==
    /\ Requests \subseteq Nat /\ "redis" \notin Pods
    /\ {Rpm, Daily, Window, Midnight} \subseteq Nat \ {0}
    /\ Lag \in Nat /\ Lag < Window /\ MaxTime \in Nat

Days == {0, 1}
Day(t) == IF t < Midnight THEN 0 ELSE 1

VARIABLES
    time,
    zset,   \* rl:{tenant}: members [score, seq]; the request is the seq
    quota,  \* quota:{tenant}:{day}
    bucket, \* per pod: the timestamps of its FallbackBucket, with the requests
            \* they are of and the turns in which they were pushed
    req     \* what became of a request

rvars == <<time, zset, quota, bucket, req>>

\* at: where its check is.  script: what became of its script.  by: who
\* admitted it (Redis may have although its answer was too late).
Unasked ==
    [at |-> "idle", pod |-> 0, now |-> 0, day |-> 0, script |-> "none",
     retry |-> 0, reason |-> "none", by |-> {}]

\* A request that was denied and has no script under way is of no interest.
Refused == [Unasked EXCEPT !.at = "refused"]

RInit ==
    /\ time = 0
    /\ zset = {}
    /\ quota = [d \in Days |-> 0]
    /\ bucket = [p \in Pods |-> {}]
    /\ req = [q \in Requests |-> Unasked]

Shared == <<zset, quota>>

\* check reads the clock.
Arrive(q, p) ==
    /\ req[q].at = "idle" /\ \A r \in Requests : r < q => req[r].at # "idle"
    /\ req' = [req EXCEPT ![q].at = "checking", ![q].pod = p, ![q].now = time]
    /\ UNCHANGED <<time, Shared, bucket>>

\* check_redis reads it again for the day and sends the script.
SendScript(q) ==
    /\ req[q].at = "checking"
    /\ req' = [req EXCEPT ![q].at = "sent", ![q].day = Day(time), ![q].script = "pending"]
    /\ UNCHANGED <<time, Shared, bucket>>

\* ZREMRANGEBYSCORE
Pruned(now) == {m \in zset : m.score > now - Window}

\* Variant: seconds alone are the members.
MemberBySecond(q) == [score |-> req[q].now, seq |-> Min(Requests)]

\* Members are unique: two requests of one second are two members.
Member(q) == [score |-> req[q].now, seq |-> q]

AtLeastOne(n) == IF n > 1 THEN n ELSE 1

\* Variant: the time since the oldest.
RetrySince(oldest, now) == AtLeastOne(now - oldest)

\* Until the day is over; the second one outlasts the model.
UntilMidnight(now) == AtLeastOne((IF Day(now) = 0 THEN Midnight ELSE MaxTime + 1) - now)

\* Until the oldest request has left the window.
RetryAfter(oldest, now) == AtLeastOne(oldest + Window - now)

Denied(q, reason, retry) ==
    req' = [req EXCEPT ![q].script = "denied", ![q].reason = reason, ![q].retry = retry]

\* Variant: a denial keeps the quota the script took first.
KeepQuota(q) == quota' = [quota EXCEPT ![req[q].day] = @ + 1]

\* A denial gives it back.
GiveBack(q) == UNCHANGED quota

\* RATE_LIMIT_LUA
Script(q) ==
    LET now == req[q].now
        kept == Pruned(now)
        count == quota[req[q].day] + 1
    IN
    \/ /\ Cardinality(kept) >= Rpm
       /\ zset' = kept
       /\ Denied(q, "rpm", RetryAfter(Min({m.score : m \in kept}), now))
       /\ GiveBack(q)
    \/ /\ Cardinality(kept) < Rpm /\ count > Daily
       /\ zset' = kept
       /\ Denied(q, "daily", UntilMidnight(now))
       /\ GiveBack(q)
    \/ /\ Cardinality(kept) < Rpm /\ count <= Daily
       /\ zset' = kept \union {Member(q)}
       /\ quota' = [quota EXCEPT ![req[q].day] = count]
       /\ req' = [req EXCEPT ![q].script = "admitted", ![q].by = @ \union {"redis"}]

\* Redis runs the script, however late within Lag, or never.
RunScript(q) ==
    /\ req[q].script = "pending" /\ time - req[q].now <= Lag
    /\ Script(q)
    /\ UNCHANGED <<time, bucket>>

\* The answer is there in time.
TakeAnswer(q) ==
    /\ req[q].at = "sent" /\ req[q].script \in {"admitted", "denied"}
    /\ req' = [req EXCEPT ![q] = IF @.script = "admitted" THEN [@ EXCEPT !.at = "passed"] ELSE Refused]
    /\ UNCHANGED <<time, Shared, bucket>>

AdmittedBy(who) == {q \in Requests : who \in req[q].by}

Retained(p, now) == {e \in bucket[p] : e.at > now - Window}

\* The first of the vector, which need not be the oldest.
FirstPushed(kept) == CHOOSE e \in kept : \A f \in kept : e.turn <= f.turn

Pushed(p, kept, q) ==
    kept \union {[at |-> req[q].now, seq |-> q, turn |-> Cardinality(AdmittedBy(p))]}

\* check_fallback.  The daily quota is not enforced.
CheckFallback(q) ==
    LET p == req[q].pod
        now == req[q].now
        kept == Retained(p, now)
    IN
    \/ /\ Cardinality(kept) < Rpm
       /\ bucket' = [bucket EXCEPT ![p] = Pushed(p, kept, q)]
       /\ req' = [req EXCEPT ![q].at = "passed", ![q].by = @ \union {p}]
    \/ /\ Cardinality(kept) >= Rpm
       /\ bucket' = [bucket EXCEPT ![p] = kept]
       /\ req' = [req EXCEPT ![q].at = "refused", ![q].reason = "fallback",
                             ![q].retry = RetryAfter(FirstPushed(kept).at, now)]

\* 150 ms are over, Redis answers with an error, or there is none.
FallBack(q) ==
    /\ req[q].at \in {"checking", "sent"}
    /\ CheckFallback(q)
    /\ UNCHANGED <<time, Shared>>

\* The check of another tenant sweeps the buckets of its pod.
EvictIdle(p) ==
    /\ \E now \in time - Lag .. time : bucket' = [bucket EXCEPT ![p] = Retained(p, now)]
    /\ UNCHANGED <<time, Shared, req>>

Tick ==
    /\ time < MaxTime
    /\ \A q \in Requests : req[q].at \in {"checking", "sent"} => time - req[q].now < Lag
    /\ time' = time + 1
    /\ UNCHANGED <<Shared, bucket, req>>

RNext ==
    \/ Tick
    \/ \E p \in Pods : EvictIdle(p)
    \/ \E q \in Requests :
        \/ \E p \in Pods : Arrive(q, p)
        \/ SendScript(q) \/ RunScript(q) \/ TakeAnswer(q) \/ FallBack(q)

RSpec == RInit /\ [][RNext]_rvars

-----------------------------------------------------------------------------

\* Whatever order the scripts of pods run in, Redis admits no more than Rpm
\* requests of any Window - Lag ticks, and no pod does by its bucket.  Of a whole
\* window it is so only if no script is late (Lag = 0): a late one finds what one
\* with a later clock has left (RATE_LIMIT_LUA, check_fallback).
WindowHolds ==
    \A who \in Pods \union {"redis"} : \A t \in 0 .. time :
        Cardinality({q \in AdmittedBy(who) : req[q].now \in t .. t + Window - Lag - 1}) <= Rpm

\* What is counted against the quota of a day are the requests admitted under
\* its key, those whose answers came too late among them, and no denied one:
\* nobody is admitted beyond the quota by Redis, and nobody loses it to denials.
QuotaIsAdmissions ==
    \A d \in Days : quota[d] = Cardinality({q \in AdmittedBy("redis") : req[q].day = d})

\* Who is denied by a window and comes again after Retry-After finds room in it,
\* if nobody is admitted before: no more than Rpm - 1 of the requests counted
\* now are still in it then.
RetryFindsRoom ==
    [][\A q \in Requests :
        /\ req'[q].reason = "rpm" /\ req[q].reason = "none" =>
            Cardinality({m \in zset' : m.score > req'[q].now + req'[q].retry - Window}) < Rpm
        /\ req'[q].reason = "fallback" /\ req[q].reason # "fallback" =>
            Cardinality({e \in bucket'[req[q].pod] :
                             e.at > req'[q].now + req'[q].retry - Window}) < Rpm]_rvars
=============================================================================
