------------------------ MODULE CircuitBreakerProofs ------------------------
(***************************************************************************)
(* Proofs about CircuitBreaker, for any number of pods and callers and any *)
(* deployment whose calls end before a cooldown and a probe's time do.     *)
(*                                                                         *)
(* Without Redis the argument is about ages: a request on its way through  *)
(* a pod that is not closed is at least as old as the pod's state, so none *)
(* is left when the cooldown or the probe's time is over.                  *)
(*                                                                         *)
(* With Redis it is about the key `probe': a caller that has the probe has *)
(* the key, which is not older than the caller (plus the wait before the   *)
(* call), so it cannot expire under it.                                    *)
(***************************************************************************)
EXTENDS CircuitBreaker, TLAPS

Typed ==
    /\ config \in Configs
    /\ state \in [Pods -> {"Closed", "Open", "HalfOpen"}]
    /\ since \in [Pods -> Int]
    /\ redis \in [Keys -> Nat \union {Absent}]
    /\ pc \in [Callers -> PCs]
    /\ age \in [Callers -> Nat]
    /\ mishaps \in Nat

\* Nobody is older than Tick lets him become.
Prompt ==
    \A c \in Callers :
        pc[c] # "idle" => age[c] <= IF Through(c) THEN CallTimeout ELSE 1

\* Without Redis: a pod that is not closed is not older in its state than the
\* requests it has let through.
Quiet ==
    ~Shared =>
        /\ \A c \in Callers : pc[c] \in {"idle", "calling", "probing"}
        /\ \A c \in DOMAIN PodOf :
               Through(c) /\ state[PodOf[c]] # "Closed" => since[PodOf[c]] <= age[c]
        /\ HalfOpenIsQuiet

\* With Redis: who has the probe has the key, if no one has deleted it.
Claimed ==
    Shared /\ mishaps = 0 => \A c \in AtProbe \ overridden :
        /\ holder = {c}
        /\ redis["probe"] # Absent
        /\ redis["probe"] <= IF pc[c] = "claimed" THEN age[c] ELSE age[c] + 1

Inv == Typed /\ Prompt /\ Quiet /\ Claimed

-----------------------------------------------------------------------------
(* The deployment and the clock.                                           *)

LEMMA ConfigFacts ==
    ASSUME config \in Configs
    PROVE  /\ Shared \in BOOLEAN
           /\ CallTimeout \in Nat /\ Cooldown \in Nat /\ ProbeTimeout \in Nat
           /\ Window \in Nat /\ Threshold \in Nat /\ MaxMishaps \in Nat
           /\ CallTimeout < Cooldown /\ CallTimeout + 1 < ProbeTimeout
           /\ DOMAIN PodOf \subseteq Callers
           /\ \A c \in DOMAIN PodOf : PodOf[c] \in Pods
<1>1. config \in Config /\ config.callTimeout < config.cooldown
      /\ config.callTimeout + 1 < config.probeTimeout
  BY ConfigAssumption DEF ConfigAssumption
<1>2. /\ config.shared \in BOOLEAN
      /\ config.callTimeout \in Nat /\ config.cooldown \in Nat /\ config.probeTimeout \in Nat
      /\ config.window \in Nat /\ config.threshold \in Nat /\ config.maxMishaps \in Nat
      /\ config.podOf \in UNION {[C -> Pods] : C \in SUBSET Callers}
  BY <1>1 DEF Config
<1>3. PICK C \in SUBSET Callers : config.podOf \in [C -> Pods]
  BY <1>2
<1> QED
  BY <1>1, <1>2, <1>3
     DEF Shared, CallTimeout, Cooldown, ProbeTimeout, Window, Threshold, MaxMishaps, PodOf

\* One more tick keeps the types, and a key that is not about to expire.
LEMMA AgedKey ==
    ASSUME config \in Configs, redis \in [Keys -> Nat \union {Absent}], NEW k \in Keys
    PROVE  /\ Aged(k) \in Nat \union {Absent}
           /\ redis[k] # Absent /\ redis[k] + 1 < TTL[k] => Aged(k) = redis[k] + 1
<1>1. redis[k] \in Nat \union {Absent}
  OBVIOUS
<1>2. CASE redis[k] = Absent \/ redis[k] + 1 >= TTL[k]
  <2>1. Aged(k) = Absent
    BY <1>2 DEF Aged
  <2>2. redis[k] # Absent => ~(redis[k] + 1 < TTL[k])
    <3>1. TTL[k] \in Int
      BY ConfigFacts DEF TTL
    <3> QED
      BY <1>1, <1>2, <3>1 DEF Absent
  <2> QED
    BY <2>1, <2>2
<1>3. CASE ~(redis[k] = Absent \/ redis[k] + 1 >= TTL[k])
  BY <1>1, <1>3 DEF Aged, Absent
<1> QED
  BY <1>2, <1>3

-----------------------------------------------------------------------------
(* Types and ages.                                                         *)

Base == Typed /\ Prompt

\* A caller that goes somewhere else starts at age zero with its commands.
LEMMA GotoStep ==
    ASSUME Base, config' = config, NEW c \in Callers, NEW l \in PCs, NEW cmds,
           Goto(c, l, cmds)
    PROVE  /\ pc' \in [Callers -> PCs] /\ age' \in [Callers -> Nat]
           /\ pc'[c] = l /\ age'[c] = 0
           /\ \A d \in Callers \ {c} : pc'[d] = pc[d] /\ age'[d] = age[d]
           /\ Prompt'
<1>1. /\ pc \in [Callers -> PCs] /\ age \in [Callers -> Nat] /\ config \in Configs
  BY DEF Base, Typed
<1>2. pc' = [pc EXCEPT ![c] = l] /\ age' = [age EXCEPT ![c] = 0]
  BY DEF Goto
<1>3. /\ pc' \in [Callers -> PCs] /\ age' \in [Callers -> Nat]
      /\ pc'[c] = l /\ age'[c] = 0
      /\ \A d \in Callers \ {c} : pc'[d] = pc[d] /\ age'[d] = age[d]
  BY <1>1, <1>2
<1>4. Prompt'
  <2> SUFFICES ASSUME NEW d \in Callers, pc'[d] # "idle"
               PROVE  age'[d] <= IF Through(d)' THEN CallTimeout' ELSE 1
    BY DEF Prompt
  <2>1. CallTimeout' = CallTimeout /\ CallTimeout \in Nat
    BY <1>1, ConfigFacts DEF CallTimeout
  <2>2. CASE d = c
    BY <1>3, <2>1, <2>2
  <2>3. CASE d # c
    BY <1>3, <2>1, <2>3 DEF Prompt, Base, Through
  <2> QED
    BY <2>2, <2>3
<1> QED
  BY <1>3, <1>4

Podly ==
    /\ state \in [Pods -> {"Closed", "Open", "HalfOpen"}]
    /\ since \in [Pods -> Int]

LEMMA SetStateStep ==
    ASSUME Podly, NEW p \in Pods, NEW s \in {"Closed", "Open", "HalfOpen"}, NEW a \in Int,
           SetState(p, s, a)
    PROVE  /\ Podly'
           /\ state'[p] = s /\ since'[p] = a
           /\ \A q \in Pods \ {p} : state'[q] = state[q] /\ since'[q] = since[q]
BY DEF Podly, SetState

\* The in-memory part of check.
LEMMA LocalCheckStep ==
    ASSUME Base, config' = config, NEW c \in DOMAIN PodOf, LocalCheck(c)
    PROVE  /\ Podly'
           /\ pc' \in [Callers -> PCs] /\ age' \in [Callers -> Nat]
           /\ pc'[c] \in {"idle", "calling", "claiming", "probing"}
           /\ Shared => pc'[c] # "probing"
           /\ \A d \in Callers \ {c} : pc'[d] = pc[d] /\ age'[d] = age[d]
           /\ Prompt'
<1>0. c \in Callers /\ PodOf[c] \in Pods /\ Podly
  BY ConfigFacts DEF Base, Typed, Podly
<1>1. PICK l \in {"idle", "calling", "claiming", "probing"} :
        Goto(c, l, <<>>) /\ (Shared => l # "probing")
  BY DEF LocalCheck, Reject
<1>2. Podly'
  <2>1. CASE UNCHANGED <<state, since>>
    BY <1>0, <2>1 DEF Podly
  <2>2. CASE SetState(PodOf[c], "HalfOpen", 0)
    BY <1>0, <2>2, SetStateStep
  <2> QED
    BY <2>1, <2>2 DEF LocalCheck
<1>3. l \in PCs
  BY DEF PCs
<1> QED
  BY <1>0, <1>1, <1>2, <1>3, GotoStep

-----------------------------------------------------------------------------
(* A step of a caller: what it leaves of the invariant's first half, that  *)
(* nobody else moves, and what it does about the probe.                    *)

Callerly ==
    /\ pc \in [Callers -> PCs] /\ age \in [Callers -> Nat]
    /\ Prompt

Redisly == redis \in [Keys -> Nat \union {Absent}]

Others(c) == \A d \in Callers \ {c} : pc'[d] = pc[d] /\ age'[d] = age[d]

Away(c) == pc'[c] \notin {"claimed", "probing"} /\ redis'["probe"] \in {redis["probe"], Absent, 0}

LEMMA TakeApart == Base => Callerly /\ Redisly /\ Podly
BY DEF Base, Typed, Callerly, Redisly, Podly

LEMMA GetStep ==
    ASSUME Base, config' = config, NEW c \in DOMAIN PodOf, NEW lost \in BOOLEAN, Get(c, lost)
    PROVE  Podly' /\ Redisly' /\ Callerly' /\ Others(c) /\ Away(c)
<1>0. c \in Callers /\ Podly /\ Redisly /\ Callerly
  BY ConfigFacts, TakeApart DEF Base, Typed
<1>1. UNCHANGED <<state, since, redis, pc, age>> /\ pc[c] = "reading"
  BY DEF Get, podVars, redisVars
<1>2. Prompt'
  BY <1>0, <1>1 DEF Callerly, Prompt, Through, CallTimeout
<1> QED
  BY <1>0, <1>1, <1>2 DEF Callerly, Podly, Redisly, Others, Away

LEMMA DecideStep ==
    ASSUME Base, config' = config, NEW c \in DOMAIN PodOf, NEW lost \in BOOLEAN, Decide(c, lost)
    PROVE  /\ Podly' /\ Redisly' /\ Callerly' /\ Others(c)
           /\ Shared => Away(c)
<1>0. c \in Callers /\ PodOf[c] \in Pods /\ Podly /\ Redisly /\ Callerly
  BY ConfigFacts, TakeApart DEF Base, Typed
<1>1. UNCHANGED redis
  BY DEF Decide, redisVars
<1>2. CASE LocalCheck(c)
  BY <1>0, <1>1, <1>2, LocalCheckStep DEF Callerly, Redisly, Others, Away
<1>3. CASE ~LocalCheck(c)
  <2>1. PICK l \in {"idle", "calling"} : Goto(c, l, <<>>)
    BY <1>3 DEF Decide, Reject
  <2>2. Podly'
    <3>1. CASE MirrorOpen(PodOf[c], IF lost THEN Absent ELSE redis["opened_at"])
      <4>1. redis["opened_at"] \in Nat \union {Absent}
        BY <1>0 DEF Redisly, Keys
      <4>2. PICK a \in Int : SetState(PodOf[c], "Open", a)
        BY <3>1, <4>1 DEF MirrorOpen
      <4> QED
        BY <1>0, <4>2, SetStateStep
    <3>2. CASE CloseFallback(PodOf[c])
      BY <1>0, <3>2, SetStateStep DEF CloseFallback
    <3>3. CASE UNCHANGED podVars
      BY <1>0, <3>3 DEF podVars, Podly
    <3> QED
      BY <1>3, <3>1, <3>2, <3>3 DEF Decide
  <2>3. l \in PCs
    BY DEF PCs
  <2> QED
    BY <1>0, <1>1, <2>1, <2>2, <2>3, GotoStep DEF Callerly, Redisly, Others, Away
<1> QED
  BY <1>2, <1>3

LEMMA ClaimStep ==
    ASSUME Base, config' = config, NEW c \in DOMAIN PodOf, NEW lost \in BOOLEAN, Claim(c, lost)
    PROVE  /\ Podly' /\ Redisly' /\ Callerly' /\ Others(c)
           /\ \/ Away(c)
              \/ lost
              \/ /\ pc[c] = "claiming" /\ pc'[c] = "claimed" /\ age'[c] = age[c]
                 /\ redis["probe"] = Absent /\ redis'["probe"] = 0
<1>0. c \in Callers /\ Podly /\ Redisly /\ Callerly
  BY ConfigFacts, TakeApart DEF Base, Typed
<1>1. UNCHANGED <<state, since>> /\ pc[c] = "claiming"
  BY DEF Claim, podVars
<1>2. Podly'
  BY <1>0, <1>1 DEF Podly
<1>3. CASE Reject(c) /\ UNCHANGED redis
  <2>1. Goto(c, "idle", <<>>) /\ "idle" \in PCs
    BY <1>3 DEF Reject, PCs
  <2> QED
    BY <1>0, <1>2, <1>3, <2>1, GotoStep DEF Callerly, Redisly, Others, Away
<1>4. CASE /\ ProbeFree \/ lost
           /\ pc' = [pc EXCEPT ![c] = "claimed"]
           /\ redis' = IF lost THEN redis ELSE [redis EXCEPT !["probe"] = 0]
           /\ UNCHANGED <<age, todo, found>>
  <2>1. "claimed" \in PCs /\ "probe" \in Keys
    BY DEF PCs, Keys
  <2>2. /\ pc' \in [Callers -> PCs] /\ pc'[c] = "claimed"
        /\ \A d \in Callers \ {c} : pc'[d] = pc[d]
    BY <1>0, <1>4, <2>1 DEF Callerly
  <2>3. Redisly' /\ (~lost => redis'["probe"] = 0 /\ redis["probe"] = Absent)
    BY <1>0, <1>4, <2>1 DEF Redisly, ProbeFree
  <2>4. Prompt'
    <3>1. age[c] <= 1
      BY <1>0, <1>1 DEF Callerly, Prompt, Through
    <3>2. ~Through(c)'
      BY <2>2 DEF Through
    <3>3. CallTimeout' = CallTimeout
      BY DEF CallTimeout
    <3> QED
      BY <1>0, <1>4, <2>2, <3>1, <3>2, <3>3 DEF Callerly, Prompt, Through
  <2> QED
    BY <1>0, <1>1, <1>2, <1>4, <2>2, <2>3, <2>4 DEF Callerly, Others
<1> QED
  BY <1>3, <1>4 DEF Claim

LEMMA EnterStep ==
    ASSUME Base, config' = config, NEW c \in DOMAIN PodOf, EnterProbe(c)
    PROVE  /\ Podly' /\ Redisly' /\ Callerly' /\ Others(c) /\ UNCHANGED redis
           /\ pc[c] = "claimed" /\ age'[c] = 0
           /\ Away(c) \/ pc'[c] = "probing"
<1>0. c \in Callers /\ PodOf[c] \in Pods /\ Podly /\ Redisly /\ Callerly
  BY ConfigFacts, TakeApart DEF Base, Typed
<1>1. pc[c] = "claimed" /\ UNCHANGED redis
  BY DEF EnterProbe, redisVars
<1>2. PICK l \in {"calling", "probing"} : Goto(c, l, <<>>)
  BY DEF EnterProbe
<1>3. Podly'
  <2>1. CASE UNCHANGED <<state, since>>
    BY <1>0, <2>1 DEF Podly
  <2>2. CASE SetState(PodOf[c], "HalfOpen", age[c])
    <3>1. age[c] \in Int
      BY <1>0 DEF Callerly
    <3> QED
      BY <1>0, <2>2, <3>1, SetStateStep
  <2> QED
    BY <2>1, <2>2 DEF EnterProbe
<1>4. l \in PCs
  BY DEF PCs
<1> QED
  BY <1>0, <1>1, <1>2, <1>3, <1>4, GotoStep DEF Callerly, Redisly, Others, Away

LEMMA PutStep ==
    ASSUME Base, config' = config, NEW c \in DOMAIN PodOf, NEW lost \in BOOLEAN, Put(c, lost)
    PROVE  /\ Podly' /\ Redisly' /\ Callerly' /\ Others(c) /\ Away(c)
           /\ UNCHANGED <<state, since>>
<1>0. c \in Callers /\ Podly /\ Redisly /\ Callerly
  BY ConfigFacts, TakeApart DEF Base, Typed
<1>1. UNCHANGED <<state, since>> /\ pc[c] = "writing"
  BY DEF Put, podVars
<1>2. \/ Goto(c, "idle", <<>>)
      \/ UNCHANGED <<pc, age>>
  BY DEF Put
<1>3. \/ UNCHANGED redis
      \/ \E a \in {0, Absent} : redis' = [redis EXCEPT ![Head(todo[c]).key] = a]
  BY DEF Put, redisVars
<1>4. Redisly' /\ redis'["probe"] \in {redis["probe"], Absent, 0}
  <2>1. "probe" \in Keys
    BY DEF Keys
  <2>2. ASSUME NEW k, NEW a \in {0, Absent}, redis' = [redis EXCEPT ![k] = a]
        PROVE  Redisly' /\ redis'["probe"] \in {redis["probe"], Absent, 0}
    <3>1. a \in Nat \union {Absent} /\ redis \in [Keys -> Nat \union {Absent}]
      BY <1>0 DEF Redisly
    <3>2. Redisly'
      BY <2>2, <3>1, Zenon DEF Redisly
    <3>3. redis'["probe"] = IF k = "probe" THEN a ELSE redis["probe"]
      BY <2>1, <2>2, <3>1
    <3> QED
      BY <3>2, <3>3
  <2>3. CASE UNCHANGED redis
    BY <1>0, <2>3 DEF Redisly
  <2>4. CASE \E a \in {0, Absent} : redis' = [redis EXCEPT ![Head(todo[c]).key] = a]
    BY <2>2, <2>4, Zenon
  <2> QED
    BY <1>3, <2>3, <2>4
<1>5. CASE Goto(c, "idle", <<>>)
  <2>1. "idle" \in PCs
    BY DEF PCs
  <2> QED
    BY <1>0, <1>1, <1>4, <1>5, <2>1, GotoStep DEF Callerly, Podly, Others, Away
<1>6. CASE UNCHANGED <<pc, age>>
  <2>1. Prompt'
    BY <1>0, <1>6 DEF Callerly, Prompt, Through, CallTimeout
  <2> QED
    BY <1>0, <1>1, <1>4, <1>6, <2>1 DEF Callerly, Podly, Others, Away
<1> QED
  BY <1>2, <1>5, <1>6

LEMMA CheckStep ==
    ASSUME Base, config' = config, NEW c \in DOMAIN PodOf, Check(c)
    PROVE  /\ Podly' /\ Redisly' /\ Callerly' /\ Others(c)
           /\ Shared => Away(c)
<1>0. c \in Callers /\ Podly /\ Redisly /\ Callerly
  BY ConfigFacts, TakeApart DEF Base, Typed
<1>1. UNCHANGED redis
  BY DEF Check, redisVars
<1>2. CASE ~Shared /\ LocalCheck(c)
  BY <1>0, <1>1, <1>2, LocalCheckStep DEF Callerly, Redisly, Others
<1>3. CASE Goto(c, "reading", <<"state", "closed", "probe">>) /\ UNCHANGED podVars
  <2>1. "reading" \in PCs
    BY DEF PCs
  <2> QED
    BY <1>0, <1>1, <1>3, <2>1, GotoStep DEF Callerly, Podly, podVars, Redisly, Others, Away
<1> QED
  BY <1>2, <1>3 DEF Check

LEMMA OutcomeStep ==
    ASSUME Base, config' = config, NEW c \in DOMAIN PodOf, Success(c) \/ Failure(c)
    PROVE  /\ Podly' /\ Redisly' /\ Callerly' /\ Others(c) /\ Away(c)
           /\ pc'[c] \in {"idle", "writing"} /\ (~Shared => pc'[c] = "idle")
<1>0. c \in Callers /\ PodOf[c] \in Pods /\ Podly /\ Redisly /\ Callerly
  BY ConfigFacts, TakeApart DEF Base, Typed
<1>1. UNCHANGED redis
  BY DEF Success, Failure, redisVars
<1>2. PICK cmds : Tell(c, cmds)
  BY DEF Success, Failure
<1>3. PICK l \in {"idle", "writing"} :
          (\E told : Goto(c, l, told)) /\ (~Shared => l = "idle")
  <2>1. CASE Shared
    BY <1>2, <2>1, Zenon DEF Tell
  <2>2. CASE ~Shared
    BY <1>2, <2>2, Zenon DEF Tell
  <2> QED
    BY <2>1, <2>2
<1>4. l \in PCs
  BY DEF PCs
<1>5. Podly'
  <2>1. CASE UNCHANGED <<state, since>>
    BY <1>0, <2>1 DEF Podly
  <2>2. CASE \E t \in {"Closed", "Open"} : SetState(PodOf[c], t, 0)
    BY <1>0, <2>2, SetStateStep
  <2> QED
    BY <2>1, <2>2 DEF Success, Failure
<1> QED
  BY <1>0, <1>1, <1>3, <1>4, <1>5, GotoStep DEF Callerly, Redisly, Others, Away

LEMMA LossStep ==
    ASSUME Base, config' = config, NEW c \in DOMAIN PodOf, Timeout(c) \/ Drop(c)
    PROVE  Podly' /\ Redisly' /\ Callerly' /\ Others(c) /\ mishaps' = mishaps + 1
<1>0. c \in Callers /\ Podly /\ Redisly /\ Callerly
  BY ConfigFacts, TakeApart DEF Base, Typed
<1>1. UNCHANGED redis /\ mishaps' = mishaps + 1
  BY DEF Timeout, Drop, redisVars
<1>2. CASE LocalCheck(c)
  BY <1>0, <1>1, <1>2, LocalCheckStep DEF Callerly, Redisly, Others
<1>3. CASE Goto(c, "idle", <<>>) /\ UNCHANGED podVars
  <2>1. "idle" \in PCs
    BY DEF PCs
  <2> QED
    BY <1>0, <1>1, <1>3, <2>1, GotoStep DEF Callerly, Podly, podVars, Redisly, Others
<1> QED
  BY <1>2, <1>3 DEF Timeout, Drop

LEMMA TickStep ==
    ASSUME Base, Tick
    PROVE  /\ config' = config /\ mishaps' = mishaps /\ UNCHANGED <<state, pc>>
           /\ Podly' /\ Redisly' /\ Callerly'
           /\ \A p \in Pods : since'[p] <= since[p] + 1 \/ state[p] = "Closed"
           /\ \A d \in Callers : pc[d] # "idle" =>
                  /\ age'[d] = age[d] + 1
                  /\ age[d] < IF Through(d) THEN CallTimeout ELSE 1
<1>0. Podly /\ Redisly /\ Callerly /\ config \in Configs
  BY TakeApart DEF Base, Typed
<1>1. config' = config /\ mishaps' = mishaps /\ UNCHANGED <<state, pc>>
  BY DEF Tick, boundVars
<1>2. /\ CallTimeout \in Nat /\ Cooldown \in Nat /\ ProbeTimeout \in Nat
      /\ CallTimeout' = CallTimeout
  BY <1>0, <1>1, ConfigFacts DEF CallTimeout
<1>3. Podly' /\ \A p \in Pods : since'[p] <= since[p] + 1 \/ state[p] = "Closed"
  <2>1. since' = [p \in Pods |-> IF state[p] = "Closed" THEN 0 ELSE Older(since[p], Old)]
    BY DEF Tick
  <2>2. \A a \in Int : Older(a, Old) \in Int /\ Older(a, Old) <= a + 1
    BY <1>2 DEF Older, Old
  <2> QED
    BY <1>0, <1>1, <2>1, <2>2 DEF Podly
<1>4. Redisly'
  BY <1>0, AgedKey DEF Redisly, Tick
<1>5. age' = [d \in Callers |-> IF pc[d] = "idle" THEN 0 ELSE age[d] + 1]
  BY DEF Tick
<1>6. \A d \in Callers : pc[d] # "idle" =>
          age'[d] = age[d] + 1 /\ age[d] < IF Through(d) THEN CallTimeout ELSE 1
  <2>1. \A d \in Callers : pc[d] # "idle" => age[d] < IF Through(d) THEN CallTimeout ELSE 1
    BY DEF Tick, Through
  <2> QED
    BY <1>5, <2>1
<1>7. age' \in [Callers -> Nat]
  BY <1>0, <1>5 DEF Callerly
<1>8. Prompt'
  <2> SUFFICES ASSUME NEW d \in Callers, pc[d] # "idle"
               PROVE  age'[d] <= IF Through(d) THEN CallTimeout ELSE 1
    BY <1>1, <1>2 DEF Prompt, Through
  <2>1. age[d] \in Nat
    BY <1>0 DEF Callerly
  <2>2. CASE Through(d)
    BY <1>2, <1>6, <2>1, <2>2
  <2>3. CASE ~Through(d)
    BY <1>6, <2>1, <2>3
  <2> QED
    BY <2>2, <2>3
<1> QED
  BY <1>0, <1>1, <1>3, <1>4, <1>6, <1>7, <1>8 DEF Callerly

\* A caller's step, whichever it is.
LEMMA CallerStep ==
    ASSUME Base, NEW c \in Callers, Step(c) \/ Mishap(c)
    PROVE  /\ config' = config /\ c \in DOMAIN PodOf /\ Record(c)
           /\ Podly' /\ Redisly' /\ Callerly' /\ Others(c)
           /\ mishaps' \in Nat /\ mishaps <= mishaps'
           /\ Shared /\ mishaps' = mishaps =>
                  \/ Away(c)
                  \/ /\ pc[c] = "claiming" /\ pc'[c] = "claimed" /\ age'[c] = age[c]
                     /\ redis["probe"] = Absent /\ redis'["probe"] = 0
                  \/ /\ pc[c] = "claimed" /\ pc'[c] = "probing" /\ age'[c] = 0
                     /\ UNCHANGED redis
<1>0. config' = config /\ c \in DOMAIN PodOf /\ Record(c) /\ mishaps \in Nat
  BY DEF Step, Mishap, Base, Typed
<1>1. CASE Check(c)
  BY <1>0, <1>1, CheckStep DEF Check, boundVars
<1>2. CASE Redis(c)
  <2>1. PICK lost \in BOOLEAN :
           /\ mishaps' = IF lost THEN mishaps + 1 ELSE mishaps
           /\ Get(c, lost) \/ Decide(c, lost) \/ Claim(c, lost) \/ Put(c, lost)
    BY <1>2 DEF Redis
  <2>2. mishaps' \in Nat /\ mishaps <= mishaps' /\ (mishaps' = mishaps => ~lost)
    BY <1>0, <2>1
  <2>3. CASE Get(c, lost)
    BY <1>0, <2>2, <2>3, GetStep
  <2>4. CASE Decide(c, lost)
    BY <1>0, <2>2, <2>4, DecideStep
  <2>5. CASE Claim(c, lost)
    BY <1>0, <2>2, <2>5, ClaimStep
  <2>6. CASE Put(c, lost)
    BY <1>0, <2>2, <2>6, PutStep
  <2> QED
    BY <2>1, <2>3, <2>4, <2>5, <2>6
<1>3. CASE EnterProbe(c)
  BY <1>0, <1>3, EnterStep DEF EnterProbe, boundVars
<1>4. CASE Success(c) \/ Failure(c)
  <2>1. mishaps' = mishaps
    BY <1>4 DEF Success, Failure, boundVars
  <2> QED
    BY <1>0, <1>4, <2>1, OutcomeStep
<1>5. CASE Timeout(c) \/ Drop(c)
  BY <1>0, <1>5, LossStep
<1> QED
  BY <1>1, <1>2, <1>3, <1>4, <1>5 DEF Step, Mishap

LEMMA BaseKept == Base /\ [Next]_vars => Base'
<1> SUFFICES ASSUME Base, [Next]_vars PROVE Base'
  OBVIOUS
<1>0. config \in Configs /\ mishaps \in Nat
  BY DEF Base, Typed
<1>1. ASSUME NEW c \in Callers, Step(c) \/ Mishap(c) PROVE Base'
  BY <1>0, <1>1, CallerStep DEF Base, Typed, Podly, Redisly, Callerly
<1>2. CASE Tick
  BY <1>0, <1>2, TickStep DEF Base, Typed, Podly, Redisly, Callerly
<1>3. CASE UNCHANGED vars
  BY <1>3 DEF vars, Base, Typed, Prompt, Through, CallTimeout
<1> QED
  BY <1>1, <1>2, <1>3 DEF Next

-----------------------------------------------------------------------------
(* Without Redis.                                                          *)

\* A request ends, its pod keeps its state or is closed or opened now.
LEMMA EndsQuietly ==
    ASSUME Base, Quiet, ~Shared, config' = config, NEW c \in DOMAIN PodOf, Others(c),
           pc'[c] = "idle",
           \/ UNCHANGED <<state, since>>
           \/ \E s \in {"Closed", "Open"} : SetState(PodOf[c], s, 0)
    PROVE  Quiet'
<1>0. /\ Podly /\ Callerly /\ DOMAIN PodOf \subseteq Callers /\ PodOf' = PodOf
      /\ \A d \in DOMAIN PodOf : PodOf[d] \in Pods
  BY ConfigFacts, TakeApart DEF Base, Typed, PodOf
<1>1. \A d \in Callers : pc'[d] \in {"idle", "calling", "probing"}
  BY DEF Quiet, Others
<1>2. \A d \in Callers : Through(d)' => d # c /\ Through(d) /\ age'[d] = age[d] /\ age[d] \in Nat
  BY <1>0 DEF Through, Others, Callerly
<1>3. \A q \in Pods : \/ state'[q] = state[q] /\ since'[q] = since[q]
                      \/ state'[q] \in {"Closed", "Open"} /\ since'[q] = 0
  <2>1. CASE UNCHANGED <<state, since>>
    BY <2>1
  <2>2. CASE \E s \in {"Closed", "Open"} : SetState(PodOf[c], s, 0)
    BY <1>0, <2>2 DEF SetState, Podly
  <2> QED
    BY <2>1, <2>2
<1>4. ASSUME NEW d \in DOMAIN PodOf, Through(d)', state'[PodOf[d]] # "Closed"
      PROVE  since'[PodOf[d]] <= age'[d]
  BY <1>0, <1>2, <1>3, <1>4 DEF Quiet
<1>5. ASSUME NEW d \in DOMAIN PodOf, NEW e \in DOMAIN PodOf, PodOf[d] = PodOf[e],
             state'[PodOf[d]] = "HalfOpen", Through(d)', Through(e)'
      PROVE  d = e
  BY <1>0, <1>2, <1>3, <1>5 DEF Quiet, HalfOpenIsQuiet
<1> QED
  BY <1>0, <1>1, <1>4, <1>5, Zenon DEF Quiet, HalfOpenIsQuiet

LEMMA ChecksQuietly ==
    ASSUME Base, Quiet, ~Shared, config' = config, NEW c \in DOMAIN PodOf,
           pc[c] = "idle", LocalCheck(c)
    PROVE  Quiet'
<1>0. /\ Podly /\ Callerly /\ DOMAIN PodOf \subseteq Callers /\ PodOf' = PodOf
      /\ c \in Callers /\ config \in Configs
      /\ \A d \in DOMAIN PodOf : PodOf[d] \in Pods
  BY ConfigFacts, TakeApart DEF Base, Typed, PodOf
<1>1. Others(c)
  BY <1>0, LocalCheckStep DEF Others
<1>c. \A d \in Callers : Through(d)' /\ d # c => Through(d) /\ age'[d] = age[d] /\ age[d] \in Nat
  BY <1>0, <1>1 DEF Through, Others, Callerly
<1>a. ASSUME NEW l \in PCs, Goto(c, l, <<>>) PROVE pc'[c] = l /\ age'[c] = 0
  BY <1>0, <1>a, GotoStep
<1>b. "idle" \in PCs /\ "calling" \in PCs /\ "probing" \in PCs
  BY DEF PCs
<1>2. CASE Reject(c) /\ UNCHANGED <<state, since>>
  <2>1. pc'[c] = "idle"
    BY <1>2, <1>a, <1>b DEF Reject
  <2> QED
    BY <1>1, <1>2, <2>1, EndsQuietly
<1>3. CASE state[PodOf[c]] = "Closed" /\ Goto(c, "calling", <<>>) /\ UNCHANGED <<state, since>>
  <2>1. pc'[c] = "calling"
    BY <1>3, <1>a, <1>b
  <2>2. \A d \in Callers : pc'[d] \in {"idle", "calling", "probing"}
    BY <1>1, <2>1 DEF Quiet, Others
  <2>3. ASSUME NEW d \in DOMAIN PodOf, Through(d)', state'[PodOf[d]] # "Closed"
        PROVE  since'[PodOf[d]] <= age'[d]
    BY <1>0, <1>c, <1>3, <2>3 DEF Quiet
  <2>4. ASSUME NEW d \in DOMAIN PodOf, NEW e \in DOMAIN PodOf, PodOf[d] = PodOf[e],
               state'[PodOf[d]] = "HalfOpen", Through(d)', Through(e)'
        PROVE  d = e
    BY <1>0, <1>c, <1>3, <2>4 DEF Quiet, HalfOpenIsQuiet
  <2> QED
    BY <1>0, <2>2, <2>3, <2>4, Zenon DEF Quiet, HalfOpenIsQuiet
<1>4. CASE Due(PodOf[c]) /\ SetState(PodOf[c], "HalfOpen", 0) /\ Goto(c, "probing", <<>>)
  <2>1. pc'[c] = "probing" /\ age'[c] = 0
    BY <1>4, <1>a, <1>b
  <2>2. \A d \in Callers : pc'[d] \in {"idle", "calling", "probing"}
    BY <1>1, <2>1 DEF Quiet, Others
  <2>3. state'[PodOf[c]] = "HalfOpen" /\ since'[PodOf[c]] = 0
    BY <1>0, <1>4 DEF SetState, Podly
  <2>4. \A q \in Pods \ {PodOf[c]} : state'[q] = state[q] /\ since'[q] = since[q]
    BY <1>0, <1>4 DEF SetState, Podly
  \* All that was let through before has ended.
  <2>5. ASSUME NEW d \in DOMAIN PodOf, PodOf[d] = PodOf[c], Through(d)
        PROVE  FALSE
    <3>1. /\ CallTimeout \in Nat /\ Cooldown \in Nat /\ ProbeTimeout \in Nat
          /\ CallTimeout < Cooldown /\ CallTimeout < ProbeTimeout
      BY <1>0, ConfigFacts
    <3>2. state[PodOf[d]] # "Closed" /\ since[PodOf[d]] > CallTimeout
      BY <1>0, <1>4, <2>5, <3>1 DEF Due, Podly
    <3>3. age[d] \in Nat /\ age[d] <= CallTimeout
      BY <1>0, <2>5 DEF Callerly, Prompt, Through
    <3>4. since[PodOf[d]] <= age[d]
      BY <2>5, <3>2 DEF Quiet
    <3>5. since[PodOf[d]] \in Int
      BY <1>0 DEF Podly
    <3> QED
      BY <3>1, <3>2, <3>3, <3>4, <3>5
  <2>6. ASSUME NEW d \in DOMAIN PodOf, Through(d)', state'[PodOf[d]] # "Closed"
        PROVE  since'[PodOf[d]] <= age'[d]
    <3>1. CASE d = c
      BY <2>1, <2>3, <3>1
    <3>2. CASE d # c
      BY <1>0, <1>c, <2>4, <2>5, <2>6, <3>2 DEF Quiet
    <3> QED
      BY <3>1, <3>2
  <2>7. ASSUME NEW d \in DOMAIN PodOf, NEW e \in DOMAIN PodOf, PodOf[d] = PodOf[e],
               state'[PodOf[d]] = "HalfOpen", Through(d)', Through(e)'
        PROVE  d = e
    BY <1>0, <1>c, <2>4, <2>5, <2>7 DEF Quiet, HalfOpenIsQuiet
  <2> QED
    BY <1>0, <2>2, <2>6, <2>7, Zenon DEF Quiet, HalfOpenIsQuiet
<1> QED
  BY <1>2, <1>3, <1>4 DEF LocalCheck

LEMMA QuietKept == Base /\ Quiet /\ [Next]_vars => Quiet'
<1> SUFFICES ASSUME Base, Quiet, [Next]_vars, ~Shared' PROVE Quiet'
  BY DEF Quiet
<1>1. ASSUME NEW c \in Callers, Step(c) \/ Mishap(c) PROVE Quiet'
  <2>1. /\ config' = config /\ c \in DOMAIN PodOf /\ ~Shared /\ Others(c)
        /\ pc[c] \in {"idle", "calling", "probing"}
    BY <1>1, CallerStep DEF Shared, Quiet
  <2>2. CASE Check(c)
    BY <2>1, <2>2, ChecksQuietly DEF Check
  <2>3. CASE Success(c) \/ Failure(c)
    <3>1. pc'[c] = "idle"
      BY <2>1, <2>3, OutcomeStep
    <3>2. \/ UNCHANGED <<state, since>>
          \/ \E s \in {"Closed", "Open"} : SetState(PodOf[c], s, 0)
      BY <2>3 DEF Success, Failure
    <3> QED
      BY <2>1, <3>1, <3>2, EndsQuietly
  <2>4. CASE Drop(c)
    <3>1. pc'[c] = "idle"
      BY <1>1, <2>4, GotoStep, <2>1 DEF Drop, PCs
    <3>2. UNCHANGED <<state, since>>
      BY <2>4 DEF Drop, podVars
    <3> QED
      BY <2>1, <3>1, <3>2, EndsQuietly
  <2>5. ~Redis(c) /\ ~EnterProbe(c) /\ ~Timeout(c)
    BY <2>1 DEF Redis, Get, Decide, Claim, Put, EnterProbe, Timeout
  <2> QED
    BY <1>1, <2>2, <2>3, <2>4, <2>5 DEF Step, Mishap
<1>2. CASE Tick
  <2>1. /\ PodOf' = PodOf /\ ~Shared /\ DOMAIN PodOf \subseteq Callers
        /\ \A d \in DOMAIN PodOf : PodOf[d] \in Pods
    BY <1>2, TickStep, ConfigFacts DEF Shared, PodOf, Base, Typed
  <2>2. ASSUME NEW d \in DOMAIN PodOf, Through(d)', state'[PodOf[d]] # "Closed"
        PROVE  since'[PodOf[d]] <= age'[d]
    <3>1. UNCHANGED <<state, pc>> /\ Through(d) /\ pc[d] # "idle"
      BY <1>2, <2>2, TickStep DEF Through
    <3>2. since'[PodOf[d]] <= since[PodOf[d]] + 1 /\ age'[d] = age[d] + 1
      BY <1>2, <2>1, <2>2, <3>1, TickStep
    <3>3. since[PodOf[d]] <= age[d]
      BY <2>1, <2>2, <3>1 DEF Quiet
    <3>4. since[PodOf[d]] \in Int /\ since'[PodOf[d]] \in Int /\ age[d] \in Nat
      BY <1>2, <2>1, TickStep, TakeApart DEF Podly, Callerly
    <3> QED
      BY <3>2, <3>3, <3>4
  <2>3. UNCHANGED <<state, pc>>
    BY <1>2, TickStep
  <2>4. HalfOpenIsQuiet'
    BY <2>1, <2>3 DEF Quiet, HalfOpenIsQuiet, Through
  <2>5. \A d \in Callers : pc'[d] \in {"idle", "calling", "probing"}
    BY <2>1, <2>3 DEF Quiet
  <2> QED
    BY <2>1, <2>2, <2>4, <2>5, Zenon DEF Quiet
<1>3. CASE UNCHANGED vars
  BY <1>3 DEF vars, Quiet, HalfOpenIsQuiet, Through, Shared, PodOf
<1> QED
  BY <1>1, <1>2, <1>3 DEF Next

-----------------------------------------------------------------------------
(* With Redis.                                                             *)

LEMMA ClaimedKept == Base /\ Claimed /\ [Next]_vars => Claimed'
<1> SUFFICES ASSUME Base, Claimed, [Next]_vars, Shared', mishaps' = 0,
                    NEW d \in Callers, d \in AtProbe' \ overridden'
             PROVE  /\ holder' = {d} /\ redis'["probe"] # Absent
                    /\ redis'["probe"] <= IF pc'[d] = "claimed" THEN age'[d] ELSE age'[d] + 1
  BY DEF Claimed, AtProbe
<1>0. /\ config \in Configs /\ mishaps \in Nat /\ Redisly /\ Callerly
      /\ "probe" \in Keys /\ redis["probe"] \in Nat \union {Absent}
  BY TakeApart DEF Base, Typed, Keys, Redisly
<1>a. ASSUME Shared, mishaps = 0, d \in AtProbe \ overridden
      PROVE  /\ holder = {d} /\ redis["probe"] # Absent
             /\ redis["probe"] <= IF pc[d] = "claimed" THEN age[d] ELSE age[d] + 1
  BY <1>a DEF Claimed
<1>1. ASSUME NEW c \in Callers, Step(c) \/ Mishap(c)
      PROVE  /\ holder' = {d} /\ redis'["probe"] # Absent
             /\ redis'["probe"] <= IF pc'[d] = "claimed" THEN age'[d] ELSE age'[d] + 1
  <2>1. /\ config' = config /\ Record(c) /\ Others(c) /\ Callerly' /\ Redisly'
        /\ mishaps = 0 /\ mishaps' = mishaps /\ Shared
    BY <1>0, <1>1, CallerStep DEF Shared
  <2>2. /\ d \in overridden => d \in overridden'
        /\ redis'["probe"] = Absent /\ d \in holder => d \in overridden'
    BY <2>1 DEF Record
  <2>3. age[d] \in Nat /\ age'[d] \in Nat
    BY <1>0, <2>1 DEF Callerly
  <2>4. CASE d # c
    <3>1. pc'[d] = pc[d] /\ age'[d] = age[d] /\ d \in AtProbe
      BY <2>1, <2>4 DEF Others, AtProbe
    <3>2. /\ holder = {d} /\ redis["probe"] # Absent /\ redis'["probe"] # Absent
          /\ redis["probe"] <= IF pc[d] = "claimed" THEN age[d] ELSE age[d] + 1
      BY <1>a, <2>1, <2>2, <3>1
    <3>3. \/ Away(c)
          \/ pc[c] = "claimed" /\ UNCHANGED redis
      BY <1>1, <2>1, <3>2, CallerStep
    <3>4. ~(pc[c] = "claiming" /\ pc'[c] = "claimed")
      BY <3>3 DEF Away
    <3>5. holder' = holder
      BY <2>1, <3>2, <3>4 DEF Record
    <3>6. redis'["probe"] = redis["probe"] \/ redis'["probe"] = 0
      BY <3>2, <3>3 DEF Away
    <3> QED
      BY <1>0, <2>3, <3>1, <3>2, <3>5, <3>6 DEF Absent
  <2>5. CASE d = c
    <3>1. ~Away(c)
      BY <2>5 DEF Away, AtProbe
    <3>2. CASE /\ pc[c] = "claiming" /\ pc'[c] = "claimed" /\ age'[c] = age[c]
               /\ redis["probe"] = Absent /\ redis'["probe"] = 0
      <4>1. holder' = {c}
        BY <2>1, <3>2 DEF Record, Absent
      <4> QED
        BY <2>3, <2>5, <3>2, <4>1 DEF Absent
    <3>3. CASE /\ pc[c] = "claimed" /\ pc'[c] = "probing" /\ age'[c] = 0
               /\ UNCHANGED redis
      <4>1. d \in AtProbe \ overridden
        BY <2>2, <2>5, <3>3 DEF AtProbe
      <4>2. holder = {d} /\ redis["probe"] # Absent /\ redis["probe"] <= age[d]
        BY <1>a, <2>1, <2>5, <3>3, <4>1
      <4>3. holder' = holder
        BY <2>1, <3>3, <4>2 DEF Record
      <4>4. age[d] <= 1
        BY <1>0, <2>5, <3>3 DEF Callerly, Prompt, Through
      <4> QED
        BY <1>0, <2>3, <2>5, <3>3, <4>2, <4>3, <4>4
    <3> QED
      BY <1>1, <2>1, <3>1, <3>2, <3>3, CallerStep
  <2> QED
    BY <2>4, <2>5
<1>2. CASE Tick
  <2>1. /\ Shared /\ mishaps = 0 /\ overridden' = overridden /\ UNCHANGED pc
        /\ age'[d] = age[d] + 1 /\ age[d] < IF Through(d) THEN CallTimeout ELSE 1
    <3>1. /\ config' = config /\ mishaps' = mishaps /\ UNCHANGED pc /\ overridden' = overridden
      BY <1>2, TickStep DEF Tick
    <3>2. pc[d] # "idle"
      BY <3>1 DEF AtProbe
    <3> QED
      BY <1>2, <3>1, <3>2, TickStep DEF Shared
  <2>2. d \in AtProbe \ overridden
    BY <2>1 DEF AtProbe
  <2>3. /\ holder = {d} /\ redis["probe"] # Absent
        /\ redis["probe"] <= IF pc[d] = "claimed" THEN age[d] ELSE age[d] + 1
    BY <1>a, <2>1, <2>2
  <2>4. CallTimeout \in Nat /\ ProbeTimeout \in Nat /\ CallTimeout + 1 < ProbeTimeout
    BY <1>0, ConfigFacts
  <2>5. redis["probe"] \in Nat /\ age[d] \in Nat
    BY <1>0, <2>3 DEF Callerly
  <2>6. redis["probe"] + 1 < ProbeTimeout
    <3>1. CASE pc[d] = "claimed"
      BY <2>1, <2>3, <2>4, <2>5, <3>1 DEF Through
    <3>2. CASE pc[d] = "probing"
      BY <2>1, <2>3, <2>4, <2>5, <3>2 DEF Through
    <3> QED
      BY <2>2, <3>1, <3>2 DEF AtProbe
  <2>7. redis'["probe"] = redis["probe"] + 1
    <3>1. TTL["probe"] = ProbeTimeout
      BY <1>0 DEF TTL
    <3>2. Aged("probe") = redis["probe"] + 1
      BY <1>0, <2>3, <2>6, <3>1, AgedKey DEF Redisly
    <3> QED
      BY <1>0, <1>2, <3>2 DEF Tick
  <2>8. redis'["probe"] # Absent
    BY <2>5, <2>7 DEF Absent
  <2>9. holder' = holder
    BY <1>2, <2>8 DEF Tick
  <2> QED
    BY <2>1, <2>3, <2>5, <2>7, <2>8, <2>9
<1>3. CASE UNCHANGED vars
  <2>1. Shared /\ mishaps = 0 /\ d \in AtProbe \ overridden /\ UNCHANGED <<holder, redis, pc, age>>
    BY <1>3 DEF vars, Shared, AtProbe
  <2> QED
    BY <1>a, <2>1
<1> QED
  BY <1>1, <1>2, <1>3 DEF Next

-----------------------------------------------------------------------------
(* The theorems.                                                           *)

\* The invariant holds of every behaviour.
THEOREM BreakerInvariant == Spec => []Inv
<1>1. Init => Inv
  <2> SUFFICES ASSUME Init PROVE Inv
    OBVIOUS
  <2>1. Typed
    BY DEF Init, Typed, PCs, Absent
  <2>2. Prompt
    BY DEF Init, Prompt
  <2>3. \A c \in Callers : pc[c] = "idle"
    BY DEF Init
  <2>4. DOMAIN PodOf \subseteq Callers
    BY <2>1, ConfigFacts DEF Typed
  <2>5. Quiet
    BY <2>3, <2>4 DEF Quiet, HalfOpenIsQuiet, Through
  <2>6. Claimed
    BY <2>3 DEF Claimed, AtProbe
  <2> QED
    BY <2>1, <2>2, <2>5, <2>6 DEF Inv
<1>2. Inv /\ [Next]_vars => Inv'
  <2>1. Inv <=> Base /\ Quiet /\ Claimed
    BY DEF Inv, Base
  <2>2. Base' /\ Quiet' /\ Claimed' => Inv'
    BY DEF Inv, Base
  <2> QED
    BY <2>1, <2>2, BaseKept, QuietKept, ClaimedKept, Zenon
<1> QED
  BY <1>1, <1>2, PTL DEF Spec

\* While a pod without Redis is half open, its probe is the only request under
\* way, whoever was dropped (check, HALF_OPEN_PROBE_TIMEOUT).
THEOREM HalfOpenIsAlwaysQuiet == Spec => []HalfOpenIsQuiet
<1>1. Inv => HalfOpenIsQuiet
  BY DEF Inv, Quiet, HalfOpenIsQuiet
<1> QED
  BY <1>1, BreakerInvariant, PTL

\* However many pods and callers there are, two probes are under way only if
\* somebody was dropped, a command was lost or the key of a claim was deleted
\* (claim_redis_probe).
THEOREM OneProbeWhileUndisturbed == Spec => []OneProbeUndisturbed
<1>1. Inv => OneProbeUndisturbed
  <2> SUFFICES ASSUME Inv, Shared, mishaps = 0,
                      NEW c \in Callers \ overridden, NEW d \in Callers \ overridden,
                      pc[c] = "probing", pc[d] = "probing"
               PROVE  c = d
    BY DEF OneProbeUndisturbed
  <2>1. c \in AtProbe \ overridden /\ d \in AtProbe \ overridden
    BY DEF AtProbe
  <2>2. holder = {c} /\ holder = {d}
    BY <2>1 DEF Inv, Claimed
  <2> QED
    BY <2>2
<1> QED
  BY <1>1, BreakerInvariant, PTL
=============================================================================
