--------------------------- MODULE CircuitBreaker ---------------------------
(***************************************************************************)
(* The circuit breaker of pensyve-mcp-gateway/src/circuit_breaker.rs: the  *)
(* in-memory FallbackState of each gateway pod, the Redis keys the pods    *)
(* share, and the callers (validate_api_key and validate_remote of         *)
(* auth.rs) between check, the remote call and the recorded outcome.       *)
(*                                                                         *)
(* The local state changes under its mutex in one step.  Redis commands    *)
(* are one step each, as every one is awaited; any of them may be lost,    *)
(* and the 100 ms timeout may cut off the rest.  A caller may be dropped   *)
(* at any await.                                                           *)
(*                                                                         *)
(* Time is discrete.  A timestamp is its age, kept up to the age at which  *)
(* the code stops telling it from older ones.                              *)
(*                                                                         *)
(* One behaviour is one deployment: `config' is what the environment and   *)
(* the client libraries fix for its pods when they start.                  *)
(***************************************************************************)
EXTENDS Integers, Sequences

CONSTANTS
    Pods,
    Callers,
    Configs    \* the deployments

VARIABLES
    config,    \* the deployment
    state,     \* FallbackState.state
    since,     \* age of opened_at while Open, of half_opened_at while HalfOpen
    failures,  \* ages of FallbackState.failures, oldest first
    redis,     \* ages of the keys pensyve:cb:<name>:*, Absent for no key
    count,     \* value of the key `failures'
    pc,        \* where a caller is
    age,       \* ticks since it got there
    todo,      \* Redis commands it has still to send
    found,     \* the key its preflight has found and goes by, or "none"
    mishaps, faults,  \* the bounded counts
    holder,    \* history: the caller whose claim the key `probe' stands for
    overridden \* history: callers whose key was deleted while they have the probe

PodOf == config.podOf               \* the pod of each caller
Shared == config.shared             \* whether the pods have a Redis connection
Threshold == config.threshold       \* failure_threshold
Window == config.window             \* window_secs
Cooldown == config.cooldown         \* cooldown_secs
ProbeTimeout == config.probeTimeout \* HALF_OPEN_PROBE_TIMEOUT
CallTimeout == config.callTimeout   \* the HTTP client's timeout
MaxMishaps == config.maxMishaps     \* bound on callers dropped and commands lost
MaxFailures == config.maxFailures   \* bound on failures of the remote service

Config ==
    [podOf : UNION {[C -> Pods] : C \in SUBSET Callers}, shared : BOOLEAN,
     threshold : Nat, window : Nat, cooldown : Nat, probeTimeout : Nat,
     callTimeout : Nat, maxMishaps : Nat, maxFailures : Nat]

\* A call, with a wait for Redis, is over before a cooldown or a probe's time is
\* (3 s and 100 ms against 30 s and 30 s by default).
ConfigAssumption ==
    /\ Configs \subseteq Config
    /\ \A g \in Configs :
           g.callTimeout < g.cooldown /\ g.callTimeout + 1 < g.probeTimeout
ASSUME ConfigAssumption

podVars == <<state, since, failures>>
redisVars == <<redis, count>>
boundVars == <<mishaps, faults>>
vars == <<config, state, since, failures, redis, count, pc, age, todo, found,
          mishaps, faults, holder, overridden>>

Absent == -1
Keys == {"state", "opened_at", "failures", "probe", "closed"}
TTL == [k \in Keys |-> CASE k = "failures" -> Window
                         [] k = "probe" -> ProbeTimeout
                         [] OTHER -> Cooldown]

Old == IF Cooldown > ProbeTimeout THEN Cooldown ELSE ProbeTimeout

\* "reading"  in redis_preflight_decision     "calling"  let through, circuit closed
\* "claiming" in claim_redis_probe            "probing"  let through as the probe
\* "claimed"  the claim succeeded             "writing"  telling Redis the outcome
PCs == {"idle", "reading", "claiming", "claimed", "calling", "probing", "writing"}

Del(k) == [op |-> "del", key |-> k]
Set(k) == [op |-> "set", key |-> k]
Expire == [op |-> "expire", key |-> "failures"]
\* INCR failures; `opened' is opened_now of record_failure.
Incr(opened) == [op |-> IF opened THEN "incr_opened" ELSE "incr", key |-> "failures"]

CloseKeys == <<Del("state"), Del("failures"), Del("opened_at"), Del("probe"), Set("closed")>>
OpenKeys == <<Del("closed"), Del("probe"), Set("state"), Set("opened_at")>>

Init ==
    /\ config \in Configs
    /\ state = [p \in Pods |-> "Closed"]
    /\ since = [p \in Pods |-> 0]
    /\ failures = [p \in Pods |-> <<>>]
    /\ redis = [k \in Keys |-> Absent]
    /\ count = 0
    /\ pc = [c \in Callers |-> "idle"]
    /\ age = [c \in Callers |-> 0]
    /\ todo = [c \in Callers |-> <<>>]
    /\ found = [c \in Callers |-> "none"]
    /\ mishaps = 0 /\ faults = 0
    /\ holder = {} /\ overridden = {}

Goto(c, l, cmds) ==
    /\ pc' = [pc EXCEPT ![c] = l]
    /\ age' = [age EXCEPT ![c] = 0]
    /\ todo' = [todo EXCEPT ![c] = cmds]
    /\ found' = [found EXCEPT ![c] = "none"]

Reject(c) == Goto(c, "idle", <<>>)

SetState(p, s, a) ==
    /\ state' = [state EXCEPT ![p] = s]
    /\ since' = [since EXCEPT ![p] = a]

-----------------------------------------------------------------------------
(* check                                                                   *)

\* Variant: a probe that never reports is not replaced.
DueOpenOnly(p) == state[p] = "Open" /\ since[p] >= Cooldown

\* Variant: a half-open circuit lets the next request probe as well.
DueHalfOpen(p) == state[p] = "HalfOpen" \/ (state[p] = "Open" /\ since[p] >= Cooldown)

\* Whether the circuit may be probed: after the cooldown, or in place of a
\* probe that has been out for too long.
Due(p) ==
    \/ state[p] = "Open" /\ since[p] >= Cooldown
    \/ state[p] = "HalfOpen" /\ since[p] >= ProbeTimeout

\* The in-memory part: let through, reject, or ask Redis for the probe.
LocalCheck(c) ==
    LET p == PodOf[c]
    IN  /\ \/ /\ state[p] = "Closed"
              /\ Goto(c, "calling", <<>>)
              /\ UNCHANGED <<state, since>>
           \/ /\ state[p] # "Closed" /\ ~Due(p)
              /\ Reject(c)
              /\ UNCHANGED <<state, since>>
           \/ /\ Due(p) /\ Shared
              /\ Goto(c, "claiming", <<>>)
              /\ UNCHANGED <<state, since>>
           \/ /\ Due(p) /\ ~Shared
              /\ SetState(p, "HalfOpen", 0)
              /\ Goto(c, "probing", <<>>)
        /\ UNCHANGED failures

\* check begins: with Redis it reads the keys, without it decides at once.
Check(c) ==
    /\ pc[c] = "idle"
    /\ \/ /\ Shared
          /\ Goto(c, "reading", <<"state", "closed", "probe">>)
          /\ UNCHANGED podVars
       \/ ~Shared /\ LocalCheck(c)
    /\ UNCHANGED <<redisVars, boundVars>>

\* One GET of redis_preflight_decision; one that fails counts as no key.  The
\* GETs whose answers the decision would ignore are left out.
Get(c, lost) ==
    LET k == Head(todo[c])
    IN  /\ pc[c] = "reading" /\ todo[c] # <<>>
        /\ IF ~lost /\ redis[k] # Absent
             THEN /\ found' = [found EXCEPT ![c] = k]
                  /\ todo' = [todo EXCEPT ![c] = <<>>]
             ELSE /\ todo' = [todo EXCEPT ![c] = Tail(@)]
                  /\ UNCHANGED found
        /\ UNCHANGED <<podVars, redisVars, pc, age>>

\* mirror_open_from_redis
MirrorOpen(p, opened) ==
    /\ SetState(p, "Open", IF opened = Absent THEN 0 ELSE opened)
    /\ UNCHANGED failures

\* close_fallback_state
CloseFallback(p) ==
    /\ failures' = [failures EXCEPT ![p] = IF state[p] = "Closed" THEN @ ELSE <<>>]
    /\ SetState(p, "Closed", 0)

\* The last GET (opened_at), the decision, and the in-memory part if it is to
\* continue.
Decide(c, lost) ==
    LET p == PodOf[c]
    IN  /\ pc[c] = "reading" /\ todo[c] = <<>>
        /\ \/ /\ found[c] = "state"
              /\ MirrorOpen(p, IF lost THEN Absent ELSE redis["opened_at"])
              /\ Reject(c)
           \/ /\ found[c] = "closed"
              /\ CloseFallback(p)
              /\ Goto(c, "calling", <<>>)
           \/ /\ found[c] = "probe"
              /\ Reject(c)
              /\ UNCHANGED podVars
           \/ /\ found[c] = "none"
              /\ LocalCheck(c)
        /\ UNCHANGED redisVars

\* Variant: SET without NX.
ProbeFreeAlways == TRUE

\* SET NX: the key is there for one claim.
ProbeFree == redis["probe"] = Absent

\* claim_redis_probe.  When Redis does not answer the claim is granted.
Claim(c, lost) ==
    /\ pc[c] = "claiming"
    /\ \/ /\ ~ProbeFree /\ ~lost
          /\ Reject(c)
          /\ UNCHANGED redis
       \/ /\ ProbeFree \/ lost
          /\ pc' = [pc EXCEPT ![c] = "claimed"]
          /\ redis' = IF lost THEN redis ELSE [redis EXCEPT !["probe"] = 0]
          /\ UNCHANGED <<age, todo, found>>
    /\ UNCHANGED <<podVars, count>>

\* check with the claim: `now' was read before the claim.
EnterProbe(c) ==
    LET p == PodOf[c]
    IN  /\ pc[c] = "claimed"
        /\ IF state[p] = "Closed"
             THEN Goto(c, "calling", <<>>) /\ UNCHANGED <<state, since>>
             ELSE SetState(p, "HalfOpen", age[c]) /\ Goto(c, "probing", <<>>)
        /\ UNCHANGED <<failures, redisVars, boundVars>>

-----------------------------------------------------------------------------
(* The outcome                                                             *)

Tell(c, cmds) == IF Shared THEN Goto(c, "writing", cmds) ELSE Goto(c, "idle", <<>>)

\* record_success
Success(c) ==
    LET p == PodOf[c]
    IN  /\ pc[c] \in {"calling", "probing"}
        /\ SetState(p, "Closed", 0)
        /\ failures' = [failures EXCEPT ![p] = <<>>]
        /\ Tell(c, CloseKeys)
        /\ UNCHANGED <<redisVars, boundVars>>

\* record_failure
Failure(c) ==
    LET p == PodOf[c]
        now == Append(failures[p], 0)
    IN  /\ pc[c] \in {"calling", "probing"}
        /\ faults < MaxFailures
        /\ faults' = faults + 1
        /\ \/ /\ state[p] = "Closed" /\ Len(now) < Threshold
              /\ failures' = [failures EXCEPT ![p] = now]
              /\ Tell(c, <<Incr(FALSE)>>)
              /\ UNCHANGED <<state, since>>
           \/ /\ state[p] = "Closed" /\ Len(now) >= Threshold
              /\ failures' = [failures EXCEPT ![p] = now]
              /\ SetState(p, "Open", 0)
              /\ Tell(c, <<Incr(TRUE)>>)
           \/ /\ state[p] = "HalfOpen"
              /\ failures' = [failures EXCEPT ![p] = <<>>]
              /\ SetState(p, "Open", 0)
              /\ Tell(c, <<Incr(TRUE)>>)
           \/ /\ state[p] = "Open"
              /\ SetState(p, "Open", 0)
              /\ Tell(c, <<Incr(FALSE)>>)
              /\ UNCHANGED failures
        /\ UNCHANGED <<redisVars, mishaps>>

\* One command of record_success or record_failure.  After INCR the circuit is
\* opened for all pods if this one opened or the shared count is high enough.
Put(c, lost) ==
    LET cmd == Head(todo[c])
        k == cmd.key
        incr == cmd.op \in {"incr", "incr_opened"}
        opens == cmd.op = "incr_opened" \/ (~lost /\ count + 1 >= Threshold)
        rest == IF incr
                THEN (IF lost THEN <<>> ELSE <<Expire>>) \o (IF opens THEN OpenKeys ELSE <<>>)
                ELSE Tail(todo[c])
    IN  /\ pc[c] = "writing"
        /\ IF rest = <<>>
             THEN Goto(c, "idle", <<>>)
             ELSE todo' = [todo EXCEPT ![c] = rest] /\ UNCHANGED <<pc, age, found>>
        /\ \/ lost /\ UNCHANGED redisVars
           \/ /\ ~lost /\ incr
              /\ count' = IF count < Threshold THEN count + 1 ELSE count
              /\ UNCHANGED redis
           \/ /\ ~lost /\ cmd.op = "expire"
              /\ redis' = [redis EXCEPT ![k] = IF count > 0 THEN 0 ELSE Absent]
              /\ UNCHANGED count
           \/ /\ ~lost /\ cmd.op = "del"
              /\ redis' = [redis EXCEPT ![k] = Absent]
              /\ count' = IF k = "failures" THEN 0 ELSE count
           \/ /\ ~lost /\ cmd.op = "set"
              /\ redis' = [redis EXCEPT ![k] = 0]
              /\ UNCHANGED count
        /\ UNCHANGED podVars

Redis(c) ==
    \E lost \in BOOLEAN :
        /\ lost => mishaps < MaxMishaps
        /\ mishaps' = IF lost THEN mishaps + 1 ELSE mishaps
        /\ Get(c, lost) \/ Decide(c, lost) \/ Claim(c, lost) \/ Put(c, lost)
        /\ UNCHANGED faults

\* REDIS_TIMEOUT: the preflight finds nothing, the rest of the outcome is not
\* told.  (That of the claim is a lost SET.)
Timeout(c) ==
    /\ Shared
    /\ mishaps < MaxMishaps
    /\ mishaps' = mishaps + 1
    /\ \/ pc[c] = "reading" /\ LocalCheck(c)
       \/ pc[c] = "writing" /\ Goto(c, "idle", <<>>) /\ UNCHANGED podVars
    /\ UNCHANGED <<redisVars, faults>>

\* The request is dropped at an await.
Drop(c) ==
    /\ pc[c] # "idle"
    /\ mishaps < MaxMishaps
    /\ mishaps' = mishaps + 1
    /\ Goto(c, "idle", <<>>)
    /\ UNCHANGED <<podVars, redisVars, faults>>

-----------------------------------------------------------------------------
Older(a, limit) == IF a < limit THEN a + 1 ELSE limit

\* A key after one more tick.
Aged(k) == IF redis[k] = Absent \/ redis[k] + 1 >= TTL[k] THEN Absent ELSE redis[k] + 1

\* Calls end within CallTimeout; what waits for Redis, within a tick.
Tick ==
    /\ \A c \in Callers :
           pc[c] # "idle" => age[c] < IF pc[c] \in {"calling", "probing"} THEN CallTimeout ELSE 1
    /\ since' = [p \in Pods |-> IF state[p] = "Closed" THEN 0 ELSE Older(since[p], Old)]
    /\ failures' = [p \in Pods |->
           LET young == SelectSeq(failures[p], LAMBDA a : a < Window)
           IN  [i \in DOMAIN young |-> young[i] + 1]]
    /\ redis' = [k \in Keys |-> Aged(k)]
    /\ count' = IF redis["failures"] # Absent /\ redis'["failures"] = Absent THEN 0 ELSE count
    /\ age' = [c \in Callers |-> IF pc[c] = "idle" THEN 0 ELSE age[c] + 1]
    /\ holder' = IF redis'["probe"] = Absent THEN {} ELSE holder
    /\ UNCHANGED <<config, state, pc, todo, found, boundVars, overridden>>

\* The callers that have the probe or are about to have it.
AtProbe == {d \in Callers : pc[d] \in {"claimed", "probing"}}

\* The history, at a step of c.
Record(c) ==
    LET deleted == redis'["probe"] = Absent
        claims == pc[c] = "claiming" /\ pc'[c] = "claimed" /\ mishaps' = mishaps
    IN  /\ holder' = IF deleted THEN {} ELSE IF claims THEN {c} ELSE holder
        /\ overridden' = (overridden \union (IF deleted THEN holder ELSE {})) \intersect AtProbe'

Step(c) ==
    /\ c \in DOMAIN PodOf
    /\ Check(c) \/ Redis(c) \/ EnterProbe(c) \/ Success(c)
    /\ Record(c)
    /\ UNCHANGED config

\* What the environment does to a request.
Mishap(c) ==
    /\ c \in DOMAIN PodOf
    /\ Failure(c) \/ Timeout(c) \/ Drop(c)
    /\ Record(c)
    /\ UNCHANGED config

Next ==
    \/ \E c \in Callers : Step(c) \/ Mishap(c)
    \/ Tick

Spec == Init /\ [][Next]_vars

(***************************************************************************)
(* Requests keep coming and end, time passes.  Failures, lost commands and *)
(* dropped callers are bounded, nothing else is.                           *)
(***************************************************************************)
FairSpec ==
    /\ Spec
    /\ \A c \in Callers : WF_vars(Step(c))
    /\ WF_vars(Tick)

-----------------------------------------------------------------------------
Through(c) == pc[c] \in {"calling", "probing"}

\* While a pod without Redis is half open the probe is its only request on the
\* way to the service: neither a second probe nor one let through before the
\* circuit opened, whoever was dropped before (CircuitState::HalfOpen: `A single
\* probe is permitted through').
HalfOpenIsQuiet ==
    ~Shared => \A c, d \in DOMAIN PodOf :
        /\ PodOf[c] = PodOf[d] /\ state[PodOf[c]] = "HalfOpen"
        /\ Through(c) /\ Through(d)
        => c = d

\* One probe at a time in the whole fleet (module documentation: `a single
\* probe request is allowed through').
OneProbe == \A c, d \in Callers : pc[c] = "probing" /\ pc[d] = "probing" => c = d

\* The pods' claims in Redis see to that for any number of pods and callers, with
\* their commands in any order (claim_redis_probe: `SET NX EX'), while Redis
\* answers and no caller is dropped.  The one way to a second probe is that a call
\* let through earlier reports while the first is under way: its outcome deletes
\* the key, whoever's claim that is (record_success, record_failure).
OneProbeUndisturbed ==
    Shared /\ mishaps = 0 => \A c, d \in Callers \ overridden :
        pc[c] = "probing" /\ pc[d] = "probing" => c = d

\* Once the service is healthy again every pod closes its circuit for good: no
\* probe that was dropped, no key that was left behind and no lost command
\* keeps it open or half open (the timeout and the TTLs are there for that).
Recovers == <>[](\A p \in Pods : state[p] = "Closed")
=============================================================================
