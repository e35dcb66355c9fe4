---------------------------- MODULE GatewayProofs ----------------------------
(***************************************************************************)
(* What the handlers of a server share, for any number of them: the        *)
(* namespaces of tenants, the rate limits, the snapshots of a namespace,   *)
(* and its entities as theorems of MCGateway's specification (they are     *)
(* proved in EntityDataProofs).                                            *)
(***************************************************************************)
EXTENDS MCGateway, FiniteSetTheorems, SequenceTheorems, WellFoundedInduction, TLAPS

-----------------------------------------------------------------------------
(* Tenants.  A tenant has one namespace, for any number of processes and   *)
(* tenants, any size of the caches and both databases.  The argument: what *)
(* an answer rests on (Sound) cannot be taken back.  A row SQLite could    *)
(* still replace has no lifecycle state, and then nobody was answered with *)
(* it.                                                                     *)

\* Entries whose namespace is the row of their name and is initialized.
Sound ==
    {e \in [name : Tenants, id : Ids] : row[e.name] = e.id /\ (postgres \/ e.id \in lifecycle)}

RowsAreOwn == \A n \in Tenants : row[n] = None \/ row[n] \in Procs \X {n}

LifecycleHasRow == \A id \in lifecycle : row[id[2]] = id

Types == [at : {"free", "lookup", "save", "ensure", "insert"},
          name : Tenants \union {None}, id : Ids \union {None}]

\* What the holder of a lock knows at each step.
OpeningKnows(p) ==
    LET o == opening[p] IN
    /\ \/ o = Free
       \/ o.at \in {"lookup", "save", "ensure", "insert"} /\ o.name \in Tenants
    /\ o.at \in {"save", "ensure", "insert"} => o.id \in Procs \X {o.name}
    /\ o.at = "ensure" /\ postgres => row[o.name] = o.id
    /\ o.at = "insert" => Entry(o.name, o.id) \in Sound

TenantInv ==
    /\ postgres \in BOOLEAN
    /\ row \in [Tenants -> Ids \union {None}]
    /\ lifecycle \in SUBSET Ids
    /\ opening \in [Procs -> Types]
    /\ cache \in [Procs -> Seq(Sound)]
    /\ answers \in SUBSET Sound
    /\ RowsAreOwn
    /\ LifecycleHasRow
    /\ \A p \in Procs : OpeningKnows(p)

-----------------------------------------------------------------------------

\* What the cache does to a sequence keeps it over its set.
LEMMA CacheFacts ==
    ASSUME NEW S, NEW s \in Seq(S)
    PROVE  /\ \A k \in 0 .. Len(s) : SubSeq(s, k + 1, Len(s)) \in Seq(S)
           /\ \A i \in DOMAIN s : RemoveAt(s, i) \in Seq(S) /\ s[i] \in S
           /\ Evict(s) \in Seq(S)
           /\ \A e \in S : Append(s, e) \in Seq(S)
  <1>1. Len(s) \in Nat /\ DOMAIN s = 1 .. Len(s) /\ \A i \in 1 .. Len(s) : s[i] \in S
    BY LenProperties, ElementOfSeq
  <1>2. ASSUME NEW m \in Int, NEW n \in Int, m >= 1, n <= Len(s)
        PROVE  SubSeq(s, m, n) \in Seq(S)
    <2>1. \A i \in m .. n : s[i] \in S
      BY <1>1, <1>2
    <2> QED
      BY <2>1, SubSeqProperties, Zenon
  <1>3. \A k \in 0 .. Len(s) : SubSeq(s, k + 1, Len(s)) \in Seq(S)
    BY <1>1, <1>2
  <1>4. ASSUME NEW i \in DOMAIN s PROVE RemoveAt(s, i) \in Seq(S) /\ s[i] \in S
    <2>1. SubSeq(s, 1, i - 1) \in Seq(S) /\ SubSeq(s, i + 1, Len(s)) \in Seq(S)
      BY <1>1, <1>2
    <2> QED
      BY <1>1, <2>1, ConcatProperties DEF RemoveAt
  <1>5. Evict(s) \in Seq(S)
    <2> DEFINE d == IF Len(s) >= MaxCached THEN Len(s) - MaxCached + 1 ELSE 0
    <2>1. d \in Nat
      BY <1>1, TenantAssumption
    <2> QED
      BY <1>1, <1>2, <2>1 DEF Evict
  <1> QED
    BY <1>3, <1>4, <1>5

\* What is sound stays so: no step of any process takes it back.
LEMMA SoundStays ==
    ASSUME TenantInv, TNext PROVE Sound \subseteq Sound'
  <1> USE DEF TenantInv
  <1>1. postgres' = postgres
    BY DEF TNext
  <1>2. PICK p \in Procs :
        \/ \E n \in Tenants : GetTenantState(p, n)
        \/ ResolveTenant(p) \/ SaveNamespace(p) \/ EnsureLifecycle(p) \/ InsertTenant(p)
        \/ Restart(p)
    BY DEF TNext
  <1> SUFFICES ASSUME NEW e \in Sound PROVE row'[e.name] = row[e.name] /\ lifecycle \subseteq lifecycle'
    BY <1>1 DEF Sound
  <1>3. e.name \in Tenants /\ e.id \in Ids /\ row[e.name] = e.id /\ (postgres \/ e.id \in lifecycle)
    BY DEF Sound
  <1>4. CASE SaveNamespace(p)
    <2>1. CASE postgres
      BY <1>3, <1>4, <2>1, TenantAssumption DEF SaveNamespace, PgSaveNamespace
    <2>2. CASE ~postgres
      BY <1>3, <1>4, <2>2 DEF SaveNamespace, SqliteSaveNamespace
    <2> QED
      BY <2>1, <2>2
  <1>5. CASE EnsureLifecycle(p)
    BY <1>5 DEF EnsureLifecycle
  <1> QED
    BY <1>2, <1>4, <1>5 DEF GetTenantState, ResolveTenant, InsertTenant, Restart

LEMMA TenantStarts == TInit => TenantInv
  <1> SUFFICES ASSUME TInit PROVE TenantInv
    OBVIOUS
  <1>1. <<>> \in Seq(Sound)
    OBVIOUS
  <1> QED
    BY <1>1 DEF TInit, TenantInv, Types, RowsAreOwn, LifecycleHasRow, OpeningKnows, Free

\* The table and what is said of it, for every step.
LEMMA TablesStep ==
    ASSUME TenantInv, TNext
    PROVE  /\ row' \in [Tenants -> Ids \union {None}]
           /\ lifecycle' \in SUBSET Ids
           /\ RowsAreOwn' /\ LifecycleHasRow'
  <1> USE DEF TenantInv
  <1>2. PICK p \in Procs :
        \/ \E n \in Tenants : GetTenantState(p, n)
        \/ ResolveTenant(p) \/ SaveNamespace(p) \/ EnsureLifecycle(p) \/ InsertTenant(p)
        \/ Restart(p)
    BY DEF TNext
  <1>3. CASE row' = row /\ lifecycle' = lifecycle
    BY <1>3 DEF RowsAreOwn, LifecycleHasRow
  <1>4. CASE SaveNamespace(p)
    <2> DEFINE n == opening[p].name
               id == opening[p].id
    <2>1. n \in Tenants /\ id \in Procs \X {n} /\ id \in Ids
      BY <1>4 DEF SaveNamespace, OpeningKnows, Free, Ids
    <2>2. /\ lifecycle' = lifecycle
          /\ \/ row' = row
             \/ /\ row' = [row EXCEPT ![n] = id]
                /\ postgres => row[n] = None
                /\ ~postgres => row[n] \notin lifecycle
      BY <1>4 DEF SaveNamespace, PgSaveNamespace, SqliteSaveNamespace
    <2>3. CASE row' = [row EXCEPT ![n] = id] /\ row[n] \notin lifecycle
      <3>1. ASSUME NEW i \in lifecycle PROVE row'[i[2]] = i
        <4>1. i[2] \in Tenants /\ row[i[2]] = i
          BY DEF LifecycleHasRow, Ids
        <4>2. i[2] # n
          BY <4>1, <2>3
        <4> QED
          BY <4>1, <4>2, <2>3
      <3>2. RowsAreOwn'
        BY <2>1, <2>3 DEF RowsAreOwn
      <3> QED
        BY <2>1, <2>2, <2>3, <3>1, <3>2 DEF LifecycleHasRow
    <2>4. None \notin lifecycle
      BY TenantAssumption
    <2> QED
      BY <1>3, <2>2, <2>3, <2>4
  <1>5. CASE EnsureLifecycle(p)
    <2> DEFINE n == opening[p].name
               id == opening[p].id
    <2>1. n \in Tenants /\ id \in Procs \X {n} /\ id \in Ids /\ id[2] = n
      BY <1>5 DEF EnsureLifecycle, OpeningKnows, Free, Ids
    <2>2. CASE lifecycle' = lifecycle \union {id} /\ row' = row /\ Initializes(id)
      <3>1. PICK m \in Tenants : row[m] = id
        BY <2>2 DEF Initializes
      <3>2. row[m] \in Procs \X {m}
        BY <3>1, <2>1, TenantAssumption DEF RowsAreOwn
      <3>3. m = n
        BY <3>1, <3>2, <2>1
      <3> QED
        BY <2>1, <2>2, <3>1, <3>3 DEF RowsAreOwn, LifecycleHasRow
    <2> QED
      BY <1>3, <1>5, <2>2 DEF EnsureLifecycle
  <1> QED
    BY <1>2, <1>3, <1>4, <1>5 DEF GetTenantState, ResolveTenant, InsertTenant, Restart

\* What the holder of a lock knows stays true of the others' steps and becomes
\* true of its own.
LEMMA OpeningStep ==
    ASSUME TenantInv, TNext
    PROVE  opening' \in [Procs -> Types] /\ \A q \in Procs : OpeningKnows(q)'
  <1>1. Sound \subseteq Sound' /\ postgres' = postgres
    BY SoundStays DEF TNext
  <1>2. PICK p \in Procs :
        \/ \E n \in Tenants : GetTenantState(p, n)
        \/ ResolveTenant(p) \/ SaveNamespace(p) \/ EnsureLifecycle(p) \/ InsertTenant(p)
        \/ Restart(p)
    BY DEF TNext
  <1> DEFINE n == opening[p].name
             id == opening[p].id
             To(l, i) == [at |-> l, name |-> n, id |-> i]
  <1>3. opening \in [Procs -> Types] /\ (\A q \in Procs : OpeningKnows(q)) /\ RowsAreOwn
    BY DEF TenantInv
  <1>4. Free \in Types /\ \A l, i : Advance(p, l, i) => opening' = [opening EXCEPT ![p] = To(l, i)]
    BY <1>3 DEF Free, Types, Advance
  <1>5. ASSUME NEW o \in Types, opening' = [opening EXCEPT ![p] = o], OpeningKnows(p)'
        PROVE  opening' \in [Procs -> Types] /\ \A q \in Procs : OpeningKnows(q)'
    <2>1. opening' \in [Procs -> Types] /\ \A q \in Procs : q # p => opening'[q] = opening[q]
      BY <1>3, <1>5
    <2>2. ASSUME NEW q \in Procs, q # p PROVE OpeningKnows(q)'
      <3>1. opening'[q] = opening[q] /\ OpeningKnows(q)
        BY <1>3, <2>1, <2>2
      <3>2. ASSUME opening[q].at = "ensure", postgres
            PROVE  row'[opening[q].name] = opening[q].id
        <4>1. Entry(opening[q].name, opening[q].id) \in Sound
          BY <3>1, <3>2 DEF OpeningKnows, Sound, Entry, Ids, Free
        <4> QED
          BY <1>1, <4>1 DEF Sound, Entry
      <3> QED
        BY <1>1, <3>1, <3>2 DEF OpeningKnows
    <2> QED
      BY <1>5, <2>1, <2>2
  <1>6. ASSUME opening' = [opening EXCEPT ![p] = Free]
        PROVE  opening' \in [Procs -> Types] /\ \A q \in Procs : OpeningKnows(q)'
    <2>1. opening'[p] = Free
      BY <1>3, <1>6
    <2>2. OpeningKnows(p)'
      BY <2>1 DEF OpeningKnows, Free
    <2> QED
      BY <1>4, <1>5, <1>6, <2>2
  <1>7. CASE \E m \in Tenants : GetTenantState(p, m)
    <2>1. PICK m \in Tenants : GetTenantState(p, m)
      BY <1>7
    <2> DEFINE o == [at |-> "lookup", name |-> m, id |-> None]
    <2>2. opening[p] = Free /\ (opening' = [opening EXCEPT ![p] = o] \/ opening' = opening)
      BY <2>1, Zenon DEF GetTenantState
    <2>3. CASE opening' = [opening EXCEPT ![p] = o]
      <3>1. o \in Types /\ opening'[p] = o
        BY <1>3, <2>3 DEF Types
      <3>2. OpeningKnows(p)'
        BY <3>1 DEF OpeningKnows
      <3> QED
        BY <1>5, <2>3, <3>1, <3>2
    <2>4. CASE opening' = opening
      <3>1. opening' = [opening EXCEPT ![p] = Free]
        BY <1>3, <2>2, <2>4
      <3> QED
        BY <1>6, <3>1
    <2> QED
      BY <2>2, <2>3, <2>4
  <1>8. CASE ResolveTenant(p)
    <2>1. n \in Tenants /\ row' = row
      BY <1>3, <1>8 DEF ResolveTenant, OpeningKnows, Free
    <2>2. CASE row[n] = None
      <3> DEFINE o == To("save", <<p, n>>)
      <3>1. o \in Types /\ opening' = [opening EXCEPT ![p] = o] /\ opening'[p] = o
        BY <1>3, <1>4, <1>8, <2>1, <2>2 DEF ResolveTenant, Types, Ids
      <3>2. OpeningKnows(p)'
        BY <2>1, <3>1 DEF OpeningKnows
      <3> QED
        BY <1>5, <3>1, <3>2
    <2>3. CASE row[n] # None
      <3> DEFINE o == To("ensure", row[n])
      <3>1. row[n] \in Procs \X {n} /\ row[n] \in Ids
        BY <1>3, <2>1, <2>3 DEF RowsAreOwn, Ids
      <3>2. o \in Types /\ opening' = [opening EXCEPT ![p] = o] /\ opening'[p] = o
        BY <1>3, <1>4, <1>8, <2>1, <2>3, <3>1 DEF ResolveTenant, Types
      <3>3. OpeningKnows(p)'
        BY <2>1, <3>1, <3>2 DEF OpeningKnows
      <3> QED
        BY <1>5, <3>2, <3>3
    <2> QED
      BY <2>2, <2>3
  <1>9. CASE SaveNamespace(p)
    <2>1. n \in Tenants /\ id \in Procs \X {n} /\ id \in Ids
      BY <1>3, <1>9 DEF SaveNamespace, OpeningKnows, Free, Ids
    <2>2. \/ opening' = [opening EXCEPT ![p] = Free]
          \/ opening' = [opening EXCEPT ![p] = To("ensure", id)] /\ row' = [row EXCEPT ![n] = id]
      BY <1>4, <1>9 DEF SaveNamespace, PgSaveNamespace, SqliteSaveNamespace, GiveUp
    <2>3. CASE opening' = [opening EXCEPT ![p] = To("ensure", id)] /\ row' = [row EXCEPT ![n] = id]
      <3>1. row'[n] = id
        BY <2>1, <2>3 DEF TenantInv
      <3>2. To("ensure", id) \in Types /\ opening'[p] = To("ensure", id)
        BY <1>3, <2>1, <2>3 DEF Types
      <3>3. OpeningKnows(p)'
        BY <2>1, <3>1, <3>2 DEF OpeningKnows
      <3> QED
        BY <1>5, <2>3, <3>2, <3>3
    <2> QED
      BY <1>6, <2>2, <2>3
  <1>10. CASE EnsureLifecycle(p)
    <2>1. n \in Tenants /\ id \in Procs \X {n} /\ id \in Ids /\ id[2] = n
      BY <1>3, <1>10 DEF EnsureLifecycle, OpeningKnows, Free, Ids
    <2> DEFINE Initialized == \/ postgres
                              \/ id \in lifecycle /\ lifecycle' = lifecycle
                              \/ Initializes(id) /\ lifecycle' = lifecycle \union {id}
    <2>2. \/ opening' = [opening EXCEPT ![p] = Free]
          \/ opening' = [opening EXCEPT ![p] = To("insert", id)] /\ row' = row /\ Initialized
      BY <1>4, <1>10 DEF EnsureLifecycle, GiveUp
    <2>3. CASE opening' = [opening EXCEPT ![p] = To("insert", id)] /\ row' = row /\ Initialized
      <3>1. ASSUME postgres PROVE row[n] = id
        BY <1>3, <1>10, <3>1 DEF EnsureLifecycle, OpeningKnows
      <3>2. ASSUME id \in lifecycle PROVE row[n] = id
        BY <2>1, <3>2 DEF LifecycleHasRow, TenantInv
      <3>3. ASSUME Initializes(id) PROVE row[n] = id
        <4>1. PICK m \in Tenants : row[m] = id
          BY <3>3 DEF Initializes
        <4>2. row[m] \in Procs \X {m}
          BY <1>3, <4>1, <2>1, TenantAssumption DEF RowsAreOwn
        <4> QED
          BY <4>1, <4>2, <2>1
      <3>4. Entry(n, id) \in Sound'
        BY <1>1, <2>1, <2>3, <3>1, <3>2, <3>3 DEF Sound, Entry
      <3>5. To("insert", id) \in Types /\ opening'[p] = To("insert", id)
        BY <1>3, <2>1, <2>3 DEF Types
      <3>6. OpeningKnows(p)'
        BY <2>1, <3>4, <3>5 DEF OpeningKnows
      <3> QED
        BY <1>5, <2>3, <3>5, <3>6
    <2> QED
      BY <1>6, <2>2, <2>3
  <1>11. CASE InsertTenant(p) \/ Restart(p)
    BY <1>6, <1>11 DEF InsertTenant, Restart, GiveUp
  <1> QED
    BY <1>2, <1>7, <1>8, <1>9, <1>10, <1>11

\* Answers and caches only take in what is sound.
LEMMA AnswersStep ==
    ASSUME TenantInv, TNext
    PROVE  cache' \in [Procs -> Seq(Sound')] /\ answers' \in SUBSET Sound'
  <1> USE DEF TenantInv
  <1>1. Sound \subseteq Sound'
    BY SoundStays
  <1>2. PICK p \in Procs :
        \/ \E n \in Tenants : GetTenantState(p, n)
        \/ ResolveTenant(p) \/ SaveNamespace(p) \/ EnsureLifecycle(p) \/ InsertTenant(p)
        \/ Restart(p)
    BY DEF TNext
  <1> SUFFICES cache' \in [Procs -> Seq(Sound)] /\ answers' \in SUBSET Sound
    BY <1>1, SeqMonotonic
  <1>3. CASE \E n \in Tenants : GetTenantState(p, n)
    <2>1. PICK n \in Tenants, k \in 0 .. Len(cache[p]) :
            \/ cache' = [cache EXCEPT ![p] = Fresh(p, k)] /\ UNCHANGED answers
            \/ \E i \in DOMAIN Fresh(p, k) :
                /\ Fresh(p, k)[i].name = n
                /\ cache' = [cache EXCEPT ![p] = Append(RemoveAt(Fresh(p, k), i), Fresh(p, k)[i])]
                /\ Answer(n, Fresh(p, k)[i].id)
      BY <1>3, Zenon DEF GetTenantState
    <2> DEFINE kept == Fresh(p, k)
    <2>2. cache[p] \in Seq(Sound)
      OBVIOUS
    <2>3. kept \in Seq(Sound)
      BY <2>2, CacheFacts DEF Fresh
    <2> HIDE DEF kept
    <2>4. ASSUME NEW i \in DOMAIN kept PROVE kept[i] \in Sound /\ RemoveAt(kept, i) \in Seq(Sound)
      <3>1. kept[i] \in Sound
        BY <2>3, <2>4, LenProperties, ElementOfSeq
      <3> QED
        BY <2>3, <2>4, <3>1, CacheFacts
    <2>5. ASSUME NEW i \in DOMAIN kept, kept[i].name = n,
                 cache' = [cache EXCEPT ![p] = Append(RemoveAt(kept, i), kept[i])],
                 Answer(n, kept[i].id)
          PROVE  cache' \in [Procs -> Seq(Sound)] /\ answers' \in SUBSET Sound
      <3>1. Append(RemoveAt(kept, i), kept[i]) \in Seq(Sound)
        BY <2>4, CacheFacts
      <3>2. Entry(n, kept[i].id) = kept[i]
        BY <2>4, <2>5 DEF Sound, Entry
      <3> QED
        BY <2>4, <2>5, <3>1, <3>2 DEF Answer
    <2> QED
      BY <2>1, <2>3, <2>5 DEF kept
  <1>4. CASE InsertTenant(p)
    <2> DEFINE e == Entry(opening[p].name, opening[p].id)
    <2>1. e \in Sound /\ cache[p] \in Seq(Sound)
      BY <1>4 DEF InsertTenant, OpeningKnows
    <2> HIDE DEF e
    <2>2. Append(Evict(cache[p]), e) \in Seq(Sound)
      BY <2>1, CacheFacts
    <2>3. cache' = [cache EXCEPT ![p] = Append(Evict(@), e)] /\ answers' = answers \union {e}
      BY <1>4 DEF InsertTenant, Answer, e
    <2> QED
      BY <2>1, <2>2, <2>3
  <1>5. CASE Restart(p)
    BY <1>5 DEF Restart
  <1> QED
    BY <1>2, <1>3, <1>4, <1>5 DEF ResolveTenant, SaveNamespace, EnsureLifecycle

-----------------------------------------------------------------------------

\* The inductive invariant: rows, lifecycles, caches, answers and what each
\* opener has read fit together after every step of any process.
THEOREM TenantInvariant == TSpec => []TenantInv
  <1>1. TenantInv /\ [TNext]_tvars => TenantInv'
    <2> SUFFICES ASSUME TenantInv, [TNext]_tvars PROVE TenantInv'
      OBVIOUS
    <2>1. CASE TNext
      <3>1. postgres' \in BOOLEAN
        BY <2>1 DEF TenantInv, TNext
      <3> QED
        BY <2>1, <3>1, TablesStep, OpeningStep, AnswersStep DEF TenantInv
    <2>2. CASE UNCHANGED tvars
      BY <2>2 DEF tvars, TenantInv, Sound, RowsAreOwn, LifecycleHasRow, OpeningKnows
    <2> QED
      BY <2>1, <2>2
  <1> QED
    BY <1>1, TenantStarts, PTL DEF TSpec

\* A tenant has one namespace: every answer ever given for a name has the id
\* that is in its row now, and on SQLite that namespace is initialized, however
\* many processes meet over the missing row (get_tenant_state).
THEOREM TenantHasOneNamespace == TSpec => []OneNamespace
  <1>1. TenantInv => OneNamespace
    BY DEF TenantInv, OneNamespace, Sound
  <1> QED
    BY <1>1, TenantInvariant, PTL

-----------------------------------------------------------------------------
(* Rates.  The rate limiter admits no more than its limits, in a window    *)
(* shorter by Lag, for any number of requests and pods, any limits,        *)
(* windows and lags.  The argument: what was admitted by a clock the       *)
(* window of now still reaches is in the set, or the bucket, that the next *)
(* decision counts; the clock that decides is at most Lag behind.          *)

Records ==
    [at : {"idle", "checking", "sent", "passed", "refused"}, pod : Pods \union {0},
     now : Nat, day : Days, script : {"none", "pending", "admitted", "denied"},
     retry : Int, reason : {"none", "rpm", "daily", "fallback"},
     by : SUBSET (Pods \union {"redis"})]

RTypeOK ==
    /\ time \in Nat
    /\ zset \in SUBSET [score : Nat, seq : Requests]
    /\ quota \in [Days -> Nat]
    /\ bucket \in [Pods -> SUBSET [at : Nat, seq : Requests, turn : Nat]]
    /\ req \in [Requests -> Records]

\* Clocks are read before they are used, and a check is not long over.
Clocks ==
    \A q \in Requests :
        /\ req[q].now <= time
        /\ req[q].at \in {"checking", "sent"} => time - req[q].now <= Lag /\ req[q].pod \in Pods

\* Who admits a request says so where it stands.
Admissions ==
    \A q \in Requests :
        /\ req[q].at \in {"idle", "checking"} => req[q].script = "none"
        /\ "redis" \in req[q].by => req[q].script = "admitted"
        /\ \A p \in Pods : p \in req[q].by => req[q].at = "passed"

\* What Redis counts are its admissions, and all of those a window still reaches.
ZsetHolds ==
    /\ IsFiniteSet(zset) /\ Cardinality(zset) <= Rpm
    /\ \A m \in zset : m.seq \in AdmittedBy("redis") /\ m.score = req[m.seq].now
    /\ \A q \in AdmittedBy("redis") : req[q].now > time - Window => Member(q) \in zset

\* The same of a pod and its bucket.
BucketHolds ==
    \A p \in Pods :
        /\ IsFiniteSet(bucket[p]) /\ Cardinality(bucket[p]) <= Rpm
        /\ \A q \in AdmittedBy(p) : req[q].now > time - Window =>
                \E e \in bucket[p] : e.seq = q /\ e.at = req[q].now

Admitting == Pods \union {"redis"}

Finite == \A who \in Admitting : IsFiniteSet(AdmittedBy(who))

RateInv ==
    /\ RTypeOK /\ Clocks /\ Admissions
    /\ ZsetHolds /\ BucketHolds
    /\ Finite /\ WindowHolds /\ QuotaIsAdmissions

-----------------------------------------------------------------------------

\* A nonempty set of numbers has a least.
LEMMA LeastNat ==
    ASSUME NEW S \in SUBSET Nat, S # {}
    PROVE  \E m \in S : \A n \in S : m <= n
  <1>1. PICK x \in S : \A y \in S : <<y, x>> \notin OpToRel(<, Nat)
    BY NatLessThanWellFounded, WFMin
  <1>2. \A y \in S : ~(y < x)
    BY <1>1 DEF OpToRel
  <1> QED
    BY <1>2

\* Requests that are told apart by what is counted are no more than it.
LEMMA Counted ==
    ASSUME NEW K, IsFiniteSet(K), NEW S, \A q \in S : \E e \in K : e.seq = q
    PROVE  IsFiniteSet(S) /\ Cardinality(S) <= Cardinality(K)
  <1> DEFINE f == [q \in S |-> CHOOSE e \in K : e.seq = q]
  <1>1. \A q \in S : f[q] \in K /\ f[q].seq = q
    OBVIOUS
  <1>2. f \in Injection(S, K)
    BY <1>1 DEF Injection, IsInjective
  <1> HIDE DEF f
  <1> QED
    BY <1>2, FS_Injection

\* One request more is at most one more.
LEMMA OneMore ==
    ASSUME NEW S, NEW x, IsFiniteSet(S)
    PROVE  /\ IsFiniteSet(S \union {x})
           /\ Cardinality(S \union {x}) \in Nat
           /\ Cardinality(S \union {x}) <= Cardinality(S) + 1
           /\ x \notin S => Cardinality(S \union {x}) = Cardinality(S) + 1
  <1>1. Cardinality(S) \in Nat
    BY FS_CardinalityType
  <1>2. IsFiniteSet(S \union {x})
    BY FS_AddElement
  <1>3. Cardinality(S \union {x}) \in Nat
    BY <1>2, FS_CardinalityType
  <1>4. CASE x \in S
    <2>1. S \union {x} = S
      BY <1>4
    <2> QED
      BY <1>1, <1>2, <1>4, <2>1
  <1>5. CASE x \notin S
    <2>1. Cardinality(S \union {x}) = Cardinality(S) + 1
      BY <1>5, FS_AddElement
    <2> QED
      BY <1>1, <1>2, <1>3, <1>5, <2>1
  <1> QED
    BY <1>4, <1>5

WindowFrom(t) == t .. t + Window - Lag - 1

InWindow(who, t) == {q \in AdmittedBy(who) : req[q].now \in WindowFrom(t)}

\* A step in which nobody is admitted by who.
LEMMA WindowStays ==
    ASSUME RateInv, NEW who \in Admitting, time' \in Nat,
           AdmittedBy(who)' = AdmittedBy(who),
           \A q \in AdmittedBy(who) : req'[q].now = req[q].now,
           NEW t \in 0 .. time'
    PROVE  Cardinality(InWindow(who, t)') <= Rpm
  <1>1. CASE t <= time
    <2>1. InWindow(who, t)' = InWindow(who, t)
      BY DEF InWindow, WindowFrom
    <2>2. Cardinality(InWindow(who, t)) <= Rpm
      BY <1>1 DEF RateInv, RTypeOK, Records, WindowHolds, Admitting, InWindow, WindowFrom
    <2> QED
      BY <2>1, <2>2
  <1>2. CASE t > time
    <2>1. \A q \in AdmittedBy(who) : req'[q].now <= time /\ req'[q].now \in Nat
      BY DEF RateInv, RTypeOK, Records, Clocks, AdmittedBy
    <2>2. InWindow(who, t)' = {}
      BY <1>2, <2>1, RateAssumption DEF InWindow, WindowFrom, RateInv, RTypeOK, Records
    <2> QED
      BY <2>2, FS_EmptySet, RateAssumption
  <1> QED
    BY <1>1, <1>2 DEF RateInv, RTypeOK, Records

\* A request that is admitted by who when what it counts has room: of the
\* requests in a window with it, none was pruned.
LEMMA WindowAdmits ==
    ASSUME RateInv, NEW who \in Admitting, time' = time,
           NEW q \in Requests, time - req[q].now <= Lag,
           AdmittedBy(who)' = AdmittedBy(who) \union {q},
           \A r \in Requests : req'[r].now = req[r].now,
           NEW K, IsFiniteSet(K), Cardinality(K) < Rpm,
           \A r \in AdmittedBy(who) :
               req[r].now > time - Window /\ req[r].now > req[q].now - Window =>
                   \E e \in K : e.seq = r,
           NEW t \in 0 .. time'
    PROVE  Cardinality(InWindow(who, t)') <= Rpm
  <1>1. /\ time \in Nat /\ Window \in Nat /\ Lag \in Nat /\ Rpm \in Nat
        /\ \A r \in Requests : req[r].now \in Nat /\ req[r].now <= time
    BY RateAssumption DEF RateInv, RTypeOK, Records, Clocks
  <1>2. CASE req[q].now \in WindowFrom(t)
    <2>1. InWindow(who, t)' = InWindow(who, t) \union {q}
      BY <1>2 DEF InWindow, WindowFrom, AdmittedBy
    <2>2. \A r \in InWindow(who, t) : \E e \in K : e.seq = r
      BY <1>1, <1>2 DEF InWindow, WindowFrom, AdmittedBy
    <2>3. IsFiniteSet(InWindow(who, t)) /\ Cardinality(InWindow(who, t)) <= Cardinality(K)
      BY <2>2, Counted
    <2>4. Cardinality(K) \in Nat /\ Cardinality(InWindow(who, t)) \in Nat
      BY <2>3, FS_CardinalityType
    <2>5. Cardinality(InWindow(who, t) \union {q}) <= Cardinality(InWindow(who, t)) + 1
      BY <2>3, OneMore
    <2>6. Cardinality(K) + 1 <= Rpm
      BY <1>1, <2>4
    <2>7. Cardinality(InWindow(who, t) \union {q}) \in Nat
      BY <2>3, OneMore
    <2> QED
      BY <1>1, <2>1, <2>3, <2>4, <2>5, <2>6, <2>7
  <1>3. CASE req[q].now \notin WindowFrom(t)
    <2>1. InWindow(who, t)' = InWindow(who, t)
      BY <1>3 DEF InWindow, WindowFrom, AdmittedBy
    <2> QED
      BY <1>1, <2>1 DEF RateInv, WindowHolds, Admitting, InWindow, WindowFrom
  <1> QED
    BY <1>2, <1>3

-----------------------------------------------------------------------------
(* Steps that admit nobody.                                                *)

\* Nobody is admitted, and those that were keep their times.
Kept ==
    /\ time <= time' /\ RTypeOK'
    /\ \A who \in Admitting :
        /\ AdmittedBy(who)' = AdmittedBy(who)
        /\ \A q \in AdmittedBy(who) : req'[q].now = req[q].now /\ req'[q].day = req[q].day

LEMMA KeptAdmissions ==
    ASSUME RateInv, Kept, UNCHANGED quota
    PROVE  Finite' /\ WindowHolds' /\ QuotaIsAdmissions'
  <1>1. Finite'
    BY DEF RateInv, Kept, Finite
  <1>2. WindowHolds'
    <2> SUFFICES ASSUME NEW who \in Admitting, NEW t \in 0 .. time'
                 PROVE  Cardinality(InWindow(who, t)') <= Rpm
      BY DEF WindowHolds, InWindow, WindowFrom, Admitting
    <2> QED
      BY WindowStays DEF Kept, RTypeOK, Records
  <1>3. QuotaIsAdmissions'
    <2>1. \A d \in Days : {q \in AdmittedBy("redis") : req[q].day = d}'
                            = {q \in AdmittedBy("redis") : req[q].day = d}
      BY DEF Kept, Admitting
    <2> QED
      BY <2>1 DEF RateInv, QuotaIsAdmissions
  <1> QED
    BY <1>1, <1>2, <1>3

\* Redis prunes by a clock that is not ahead, if at all.
LEMMA ZsetPruned ==
    ASSUME RateInv, Kept, NEW c \in Int, c <= time',
           zset' \subseteq zset, {m \in zset : m.score > c - Window} \subseteq zset'
    PROVE  ZsetHolds'
  <1>1. IsFiniteSet(zset') /\ Cardinality(zset') <= Cardinality(zset) /\ Cardinality(zset) <= Rpm
    BY FS_Subset DEF RateInv, ZsetHolds
  <1>2. Cardinality(zset') \in Nat /\ Cardinality(zset) \in Nat /\ Rpm \in Nat
    BY <1>1, FS_CardinalityType, RateAssumption DEF RateInv, ZsetHolds
  <1>3. \A m \in zset' : m.seq \in AdmittedBy("redis")' /\ m.score = req'[m.seq].now
    BY DEF RateInv, ZsetHolds, Kept, Admitting
  <1>4. ASSUME NEW q \in AdmittedBy("redis"), req'[q].now > time' - Window
        PROVE  Member(q)' \in zset'
    <2>1. req'[q].now = req[q].now /\ req[q].now \in Nat /\ time \in Nat /\ time' \in Nat /\ time <= time'
      BY DEF RateInv, Kept, Admitting, RTypeOK, Records, AdmittedBy
    <2>2. Member(q) \in zset /\ Member(q).score > c - Window
      BY <1>4, <2>1, RateAssumption DEF RateInv, ZsetHolds, Member
    <2> QED
      BY <2>1, <2>2 DEF Member
  <1>5. AdmittedBy("redis")' = AdmittedBy("redis")
    BY DEF Kept, Admitting
  <1> QED
    BY <1>1, <1>2, <1>3, <1>4, <1>5 DEF ZsetHolds

\* The same of a pod and its bucket.
LEMMA BucketPruned ==
    ASSUME RateInv, Kept,
           \A p \in Pods : \E c \in Int :
               /\ c <= time'
               /\ bucket'[p] \subseteq bucket[p]
               /\ {e \in bucket[p] : e.at > c - Window} \subseteq bucket'[p]
    PROVE  BucketHolds'
  <1> SUFFICES ASSUME NEW p \in Pods
               PROVE  /\ IsFiniteSet(bucket'[p]) /\ Cardinality(bucket'[p]) <= Rpm
                      /\ \A q \in AdmittedBy(p)' : req'[q].now > time' - Window =>
                            \E e \in bucket'[p] : e.seq = q /\ e.at = req'[q].now
    BY DEF BucketHolds
  <1>1. PICK c \in Int : /\ c <= time'
                        /\ bucket'[p] \subseteq bucket[p]
                        /\ {e \in bucket[p] : e.at > c - Window} \subseteq bucket'[p]
    OBVIOUS
  <1>2. /\ IsFiniteSet(bucket'[p]) /\ Cardinality(bucket'[p]) <= Cardinality(bucket[p])
        /\ IsFiniteSet(bucket[p]) /\ Cardinality(bucket[p]) <= Rpm
    BY <1>1, FS_Subset DEF RateInv, BucketHolds
  <1>3. Cardinality(bucket'[p]) \in Nat /\ Cardinality(bucket[p]) \in Nat /\ Rpm \in Nat
    BY <1>2, FS_CardinalityType, RateAssumption
  <1>4. ASSUME NEW q \in AdmittedBy(p), req'[q].now > time' - Window
        PROVE  \E e \in bucket'[p] : e.seq = q /\ e.at = req'[q].now
    <2>1. req'[q].now = req[q].now /\ req[q].now \in Nat /\ time \in Nat /\ time' \in Nat /\ time <= time'
      BY DEF RateInv, Kept, Admitting, RTypeOK, Records, AdmittedBy
    <2>2. PICK e \in bucket[p] : e.seq = q /\ e.at = req[q].now
      BY <1>4, <2>1, RateAssumption DEF RateInv, BucketHolds
    <2> QED
      BY <1>1, <1>4, <2>1, <2>2, RateAssumption
  <1>5. AdmittedBy(p)' = AdmittedBy(p)
    BY DEF Kept, Admitting
  <1> QED
    BY <1>2, <1>3, <1>4, <1>5

-----------------------------------------------------------------------------
(* What the denials answer is a number of ticks.                           *)

LEMMA LeastOf ==
    ASSUME NEW S \in SUBSET Nat, S # {}
    PROVE  Min(S) \in S /\ \A n \in S : Min(S) <= n
  BY LeastNat DEF Min

LEMMA FirstOf ==
    ASSUME NEW K \in SUBSET [at : Nat, seq : Requests, turn : Nat], K # {}
    PROVE  FirstPushed(K) \in K
  <1> DEFINE T == {e.turn : e \in K}
  <1>1. T \in SUBSET Nat /\ T # {}
    OBVIOUS
  <1>2. PICK m \in T : \A n \in T : m <= n
    BY <1>1, LeastNat
  <1>3. PICK e \in K : e.turn = m
    BY <1>2
  <1>4. \A f \in K : e.turn <= f.turn
    BY <1>2, <1>3
  <1> QED
    BY <1>3, <1>4 DEF FirstPushed

\* Where at least one is counted, something is.
LEMMA SomeCounted ==
    ASSUME NEW K, Cardinality(K) >= Rpm
    PROVE  K # {}
  BY FS_EmptySet, RateAssumption

-----------------------------------------------------------------------------
(* The actions.                                                            *)

\* A step that changes neither what is counted nor who is admitted.
LEMMA NothingCounted ==
    ASSUME RateInv, Kept, Clocks', Admissions', UNCHANGED <<zset, quota, bucket>>
    PROVE  RateInv'
  <1>1. time' \in Int /\ time' <= time'
    BY DEF Kept, RTypeOK, Records
  <1>2. ZsetHolds'
    <2>1. zset' \subseteq zset /\ {m \in zset : m.score > time' - Window} \subseteq zset'
      OBVIOUS
    <2> QED
      BY <1>1, <2>1, ZsetPruned
  <1>3. BucketHolds'
    <2>1. ASSUME NEW p \in Pods
          PROVE  /\ bucket'[p] \subseteq bucket[p]
                 /\ {e \in bucket[p] : e.at > time' - Window} \subseteq bucket'[p]
      OBVIOUS
    <2> QED
      BY <1>1, <2>1, BucketPruned
  <1> QED
    BY <1>2, <1>3, KeptAdmissions DEF RateInv, Kept

LEMMA TickStep ==
    ASSUME RateInv, Tick
    PROVE  RateInv'
  <1>1. RTypeOK'
    BY RateAssumption DEF RateInv, RTypeOK, Records, Shared, Tick
  <1>2. Clocks'
    BY RateAssumption DEF RateInv, RTypeOK, Records, Clocks, Shared, Tick
  <1>3. Admissions'
    BY DEF RateInv, RTypeOK, Records, Admissions, Shared, Tick
  <1>4. Kept
    BY <1>1 DEF RateInv, RTypeOK, Records, Admissions, Kept, Admitting, AdmittedBy, Shared, Tick
  <1>5. UNCHANGED <<zset, quota, bucket>>
    BY DEF Tick, Shared
  <1> QED
    BY <1>1, <1>2, <1>3, <1>4, <1>5, NothingCounted

LEMMA ArriveStep ==
    ASSUME RateInv, NEW q \in Requests, NEW p \in Pods, Arrive(q, p)
    PROVE  RateInv'
  <1>1. RTypeOK'
    <2> DEFINE r == [req[q] EXCEPT !.at = "checking", !.pod = p, !.now = time]
    <2>1. req' = [req EXCEPT ![q] = r]
      BY DEF Arrive, RateInv, RTypeOK, Records
    <2>2. r \in Records
      BY DEF RateInv, RTypeOK, Records
    <2> QED
      BY <2>1, <2>2 DEF RateInv, RTypeOK, Records, Shared, Arrive
  <1>2. Clocks'
    BY RateAssumption DEF RateInv, RTypeOK, Records, Clocks, Shared, Arrive
  <1>3. Admissions'
    BY DEF RateInv, RTypeOK, Records, Admissions, Shared, Arrive
  <1>4. Kept
    BY <1>1 DEF RateInv, RTypeOK, Records, Admissions, Kept, Admitting, AdmittedBy, Shared, Arrive
  <1>5. UNCHANGED <<zset, quota, bucket>>
    BY DEF Arrive, Shared
  <1> QED
    BY <1>1, <1>2, <1>3, <1>4, <1>5, NothingCounted

LEMMA SendScriptStep ==
    ASSUME RateInv, NEW q \in Requests, SendScript(q)
    PROVE  RateInv'
  <1>1. RTypeOK'
    <2> DEFINE r == [req[q] EXCEPT !.at = "sent", !.day = Day(time), !.script = "pending"]
    <2>1. req' = [req EXCEPT ![q] = r]
      BY DEF SendScript, RateInv, RTypeOK, Records
    <2>2. Day(time) \in Days /\ req[q] \in Records
      BY DEF RateInv, RTypeOK, Day, Days
    <2>3. r \in Records
      BY <2>2 DEF Records
    <2> QED
      BY <2>1, <2>3 DEF RateInv, RTypeOK, Shared, SendScript
  <1>2. Clocks'
    BY RateAssumption DEF RateInv, RTypeOK, Records, Clocks, Shared, SendScript, Day, Days
  <1>3. Admissions'
    BY DEF RateInv, RTypeOK, Records, Admissions, Shared, SendScript, Day, Days
  <1>4. Kept
    BY <1>1 DEF RateInv, RTypeOK, Records, Admissions, Kept, Admitting, AdmittedBy, Shared, SendScript, Day, Days
  <1>5. UNCHANGED <<zset, quota, bucket>>
    BY DEF SendScript, Shared
  <1> QED
    BY <1>1, <1>2, <1>3, <1>4, <1>5, NothingCounted

LEMMA TakeAnswerStep ==
    ASSUME RateInv, NEW q \in Requests, TakeAnswer(q)
    PROVE  RateInv'
  <1>1. RTypeOK'
    BY RateAssumption DEF RateInv, RTypeOK, Records, Shared, TakeAnswer, Refused, Unasked, Days
  <1>2. Clocks'
    BY RateAssumption DEF RateInv, RTypeOK, Records, Clocks, Shared, TakeAnswer, Refused, Unasked, Days
  <1>3. Admissions'
    BY DEF RateInv, RTypeOK, Records, Admissions, Shared, TakeAnswer, Refused, Unasked, Days
  <1>4. Kept
    BY <1>1 DEF RateInv, RTypeOK, Records, Admissions, Kept, Admitting, AdmittedBy, Shared, TakeAnswer, Refused, Unasked, Days
  <1>5. UNCHANGED <<zset, quota, bucket>>
    BY DEF TakeAnswer, Shared
  <1> QED
    BY <1>1, <1>2, <1>3, <1>4, <1>5, NothingCounted

LEMMA EvictIdleStep ==
    ASSUME RateInv, NEW p \in Pods, EvictIdle(p)
    PROVE  RateInv'
  <1>1. PICK c \in time - Lag .. time : bucket' = [bucket EXCEPT ![p] = Retained(p, c)]
    BY DEF EvictIdle
  <1>2. c \in Int /\ c <= time /\ time' = time
    BY RateAssumption DEF EvictIdle, RateInv, RTypeOK, Records
  <1>3. RTypeOK'
    BY <1>1 DEF EvictIdle, RateInv, RTypeOK, Records, Shared, Retained
  <1>4. Clocks' /\ Admissions' /\ Kept
    BY <1>3 DEF RateInv, RTypeOK, Records, Clocks, Admissions, EvictIdle, Shared, Kept, AdmittedBy
  <1>5. ZsetHolds'
    BY <1>2, <1>4, ZsetPruned DEF EvictIdle, Shared
  <1>6. ASSUME NEW r \in Pods
        PROVE  /\ c <= time'
               /\ bucket'[r] \subseteq bucket[r]
               /\ {e \in bucket[r] : e.at > c - Window} \subseteq bucket'[r]
    BY <1>1, <1>2 DEF RateInv, RTypeOK, Records, Retained
  <1>7. BucketHolds'
    BY <1>2, <1>4, <1>6, BucketPruned
  <1> QED
    BY <1>3, <1>4, <1>5, <1>7, KeptAdmissions DEF RateInv, EvictIdle, Shared

Pending(q) == req[q].script = "pending" /\ time - req[q].now <= Lag

\* What a denial by the script answers is taken down, and nobody is admitted.
LEMMA DeniedStep ==
    ASSUME RateInv, NEW q \in Requests, Pending(q), NEW reason \in {"rpm", "daily"},
           NEW retry \in Int, Denied(q, reason, retry), zset' = Pruned(req[q].now),
           UNCHANGED <<time, quota, bucket>>
    PROVE  RateInv'
  <1> DEFINE r == [req[q] EXCEPT !.script = "denied", !.reason = reason, !.retry = retry]
  <1>1. req' = [req EXCEPT ![q] = r]
    BY DEF Denied, RateInv, RTypeOK, Records
  <1>2. r \in Records
    BY DEF RateInv, RTypeOK, Records
  <1>3. RTypeOK'
    BY <1>1, <1>2 DEF RateInv, RTypeOK, Pruned
  <1>4. Clocks'
    BY <1>1 DEF RateInv, RTypeOK, Records, Clocks
  <1>5. Admissions'
    BY <1>1 DEF RateInv, RTypeOK, Records, Admissions, Pending
  <1>6. Kept
    BY <1>1, <1>3 DEF RateInv, RTypeOK, Records, Admissions, Kept, Admitting, AdmittedBy, Pending
  <1>7. req[q].now \in Int /\ req[q].now <= time'
    BY DEF RateInv, RTypeOK, Records, Clocks
  <1>8. zset' \subseteq zset /\ {m \in zset : m.score > req[q].now - Window} \subseteq zset'
    BY DEF Pruned
  <1>9. ZsetHolds'
    BY <1>6, <1>7, <1>8, ZsetPruned
  <1>10. BucketHolds'
    <2>1. ASSUME NEW p \in Pods
          PROVE  /\ bucket'[p] \subseteq bucket[p]
                 /\ {e \in bucket[p] : e.at > req[q].now - Window} \subseteq bucket'[p]
      OBVIOUS
    <2> QED
      BY <1>6, <1>7, <2>1, BucketPruned
  <1> QED
    BY <1>3, <1>4, <1>5, <1>6, <1>9, <1>10, KeptAdmissions DEF RateInv

\* Admitting q changes who is admitted by who, and nothing else about that.
LEMMA Admits ==
    ASSUME RateInv, NEW q \in Requests, NEW who \in Admitting,
           RTypeOK', time' = time,
           AdmittedBy(who)' = AdmittedBy(who) \union {q}, time - req[q].now <= Lag,
           \A other \in Admitting \ {who} : AdmittedBy(other)' = AdmittedBy(other),
           \A r \in Requests : req'[r].now = req[r].now,
           NEW K, IsFiniteSet(K), Cardinality(K) < Rpm,
           \A r \in AdmittedBy(who) :
               req[r].now > time - Window /\ req[r].now > req[q].now - Window =>
                   \E e \in K : e.seq = r
    PROVE  Finite' /\ WindowHolds'
  <1>1. Finite'
    BY FS_AddElement DEF RateInv, Finite
  <1>2. WindowHolds'
    <2> SUFFICES ASSUME NEW w \in Admitting, NEW t \in 0 .. time'
                 PROVE  Cardinality(InWindow(w, t)') <= Rpm
      BY DEF WindowHolds, InWindow, WindowFrom, Admitting
    <2>1. CASE w = who
      BY <2>1, WindowAdmits
    <2>2. CASE w # who
      <3>1. AdmittedBy(w)' = AdmittedBy(w) /\ \A r \in AdmittedBy(w) : req'[r].now = req[r].now
        BY <2>2 DEF AdmittedBy
      <3> QED
        BY <3>1, WindowStays DEF RTypeOK
    <2> QED
      BY <2>1, <2>2
  <1> QED
    BY <1>1, <1>2

\* Who is among those that admitted q is admitted by who.
LEMMA AdmitsBy ==
    ASSUME NEW q \in Requests, NEW who \in Admitting,
           \A x \in Requests : req'[x].by = IF x = q THEN req[q].by \union {who} ELSE req[x].by
    PROVE  /\ AdmittedBy(who)' = AdmittedBy(who) \union {q}
           /\ \A other \in Admitting \ {who} : AdmittedBy(other)' = AdmittedBy(other)
  <1>1. req'[q].by = req[q].by \union {who}
    OBVIOUS
  <1>2. \A x \in Requests \ {q} : req'[x].by = req[x].by
    OBVIOUS
  <1>3. ASSUME NEW x \in Requests, NEW w
        PROVE  w \in req'[x].by <=> w \in req[x].by \/ (x = q /\ w = who)
    <2>1. CASE x = q
      BY <1>1, <2>1
    <2>2. CASE x # q
      BY <1>2, <2>2
    <2> QED
      BY <2>1, <2>2
  <1> QED
    BY <1>3 DEF AdmittedBy

\* The script admits q.
LEMMA AdmittedStep ==
    ASSUME RateInv, NEW q \in Requests, Pending(q), Cardinality(Pruned(req[q].now)) < Rpm,
           zset' = Pruned(req[q].now) \union {Member(q)},
           quota' = [quota EXCEPT ![req[q].day] = @ + 1],
           NEW r, r = [req[q] EXCEPT !.script = "admitted", !.by = @ \union {"redis"}],
           req' = [req EXCEPT ![q] = r],
           UNCHANGED <<time, bucket>>
    PROVE  RateInv'
  <1> DEFINE K == Pruned(req[q].now)
  <1>1. req' = [req EXCEPT ![q] = r]
    OBVIOUS
  <1>2. r \in Records
    BY DEF RateInv, RTypeOK, Records
  <1>3. K \in SUBSET [score : Nat, seq : Requests] /\ Member(q) \in [score : Nat, seq : Requests]
    BY DEF RateInv, RTypeOK, Records, Pruned, Member
  <1>4. quota' \in [Days -> Nat]
    BY DEF RateInv, RTypeOK, Records
  <1>5. RTypeOK'
    BY <1>1, <1>2, <1>3, <1>4 DEF RateInv, RTypeOK
  <1>6. Clocks'
    BY <1>1 DEF RateInv, RTypeOK, Records, Clocks
  <1>7. Admissions'
    BY <1>1, RateAssumption DEF RateInv, RTypeOK, Records, Admissions, Pending
  <1>8. \A x \in Requests : /\ req'[x].now = req[x].now /\ req'[x].day = req[x].day
                           /\ req'[x].by = IF x = q THEN req[q].by \union {"redis"} ELSE req[x].by
    BY <1>1 DEF RateInv, RTypeOK, Records
  <1>9. /\ AdmittedBy("redis")' = AdmittedBy("redis") \union {q}
        /\ \A other \in Admitting \ {"redis"} : AdmittedBy(other)' = AdmittedBy(other)
    <2>1. \A x \in Requests : req'[x].by = IF x = q THEN req[q].by \union {"redis"} ELSE req[x].by
      BY <1>8
    <2>2. "redis" \in Admitting
      BY DEF Admitting
    <2> QED
      BY <2>1, <2>2, AdmitsBy, Zenon
  <1>10. q \notin AdmittedBy("redis")
    BY DEF RateInv, Admissions, AdmittedBy, Pending
  <1>11. IsFiniteSet(K) /\ Cardinality(K) \in Nat
    BY FS_Subset, FS_CardinalityType DEF RateInv, ZsetHolds, Pruned
  <1>12. \A x \in AdmittedBy("redis") : req[x].now > time - Window =>
             Member(x) \in zset /\ (req[x].now > req[q].now - Window => Member(x) \in K)
    BY DEF RateInv, ZsetHolds, Pruned, Member
  <1>13. Finite' /\ WindowHolds'
    <2>1. \A x \in AdmittedBy("redis") :
              req[x].now > time - Window /\ req[x].now > req[q].now - Window => \E e \in K : e.seq = x
      BY <1>12 DEF Member
    <2>2. "redis" \in Admitting /\ time' = time /\ time - req[q].now <= Lag /\ Cardinality(K) < Rpm
      BY DEF Admitting, Pending
    <2>3. \A x \in Requests : req'[x].now = req[x].now
      BY <1>8
    <2> HIDE DEF K
    <2> QED
      BY <1>5, <1>9, <1>11, <2>1, <2>2, <2>3, Admits
  <1>14. ZsetHolds'
    <2>1. /\ IsFiniteSet(zset') /\ Cardinality(zset') <= Rpm
      <3>1. IsFiniteSet(zset') /\ Cardinality(zset') \in Nat /\ Cardinality(zset') <= Cardinality(K) + 1
        BY <1>11, OneMore
      <3> QED
        BY <1>11, <3>1, RateAssumption
    <2>2. \A m \in zset' : m.seq \in AdmittedBy("redis")' /\ m.score = req'[m.seq].now
      <3>1. \A m \in K : m.seq \in AdmittedBy("redis") /\ m.score = req[m.seq].now
        BY DEF RateInv, ZsetHolds, Pruned
      <3>2. \A m \in K : m.seq \in AdmittedBy("redis")' /\ m.score = req'[m.seq].now
        BY <1>8, <1>9, <3>1 DEF AdmittedBy
      <3>3. Member(q).seq \in AdmittedBy("redis")' /\ Member(q).score = req'[Member(q).seq].now
        BY <1>8, <1>9 DEF Member
      <3> QED
        BY <3>2, <3>3
    <2>3. ASSUME NEW x \in AdmittedBy("redis")', req'[x].now > time' - Window
          PROVE  Member(x)' \in zset'
      <3>1. Member(x)' = Member(x) /\ req[x].now \in Nat /\ req[q].now \in Nat
        BY <1>8 DEF Member, AdmittedBy, RateInv, RTypeOK, Records
      <3>2. time \in Nat /\ req[q].now <= time
        BY DEF RateInv, RTypeOK, Clocks
      <3>3. req[x].now > time - Window /\ req[x].now > req[q].now - Window
        BY <1>8, <2>3, <3>1, <3>2, RateAssumption DEF AdmittedBy
      <3> QED
        BY <1>9, <1>12, <3>1, <3>3
    <2> QED
      BY <2>1, <2>2, <2>3 DEF ZsetHolds
  <1>15. BucketHolds'
    <2>1. \A p \in Pods : AdmittedBy(p)' = AdmittedBy(p)
      BY <1>9, RateAssumption DEF Admitting
    <2> SUFFICES ASSUME NEW p \in Pods
                 PROVE  /\ IsFiniteSet(bucket'[p]) /\ Cardinality(bucket'[p]) <= Rpm
                        /\ \A x \in AdmittedBy(p)' : req'[x].now > time' - Window =>
                              \E e \in bucket'[p] : e.seq = x /\ e.at = req'[x].now
      BY DEF BucketHolds
    <2>2. bucket'[p] = bucket[p] /\ time' = time
      OBVIOUS
    <2>3. \A x \in AdmittedBy(p)' : x \in AdmittedBy(p) /\ req'[x].now = req[x].now
      BY <1>8, <2>1 DEF AdmittedBy
    <2>4. /\ IsFiniteSet(bucket[p]) /\ Cardinality(bucket[p]) <= Rpm
          /\ \A x \in AdmittedBy(p) : req[x].now > time - Window =>
                \E e \in bucket[p] : e.seq = x /\ e.at = req[x].now
      BY DEF RateInv, BucketHolds
    <2> QED
      BY <2>2, <2>3, <2>4
  <1>16. QuotaIsAdmissions'
    <2> SUFFICES ASSUME NEW d \in Days
                 PROVE  quota'[d] = Cardinality({x \in AdmittedBy("redis")' : req'[x].day = d})
      BY DEF QuotaIsAdmissions
    <2> DEFINE S == {x \in AdmittedBy("redis") : req[x].day = d}
    <2>1. IsFiniteSet(S) /\ quota[d] = Cardinality(S) /\ req[q].day \in Days
      BY FS_Subset DEF RateInv, Finite, Admitting, QuotaIsAdmissions, RTypeOK, Records
    <2>2. CASE req[q].day = d
      <3>1. {x \in AdmittedBy("redis")' : req'[x].day = d} = S \union {q}
        BY <1>8, <1>9, <2>2 DEF AdmittedBy
      <3>2. Cardinality(S \union {q}) = Cardinality(S) + 1
        BY <1>10, <2>1, OneMore
      <3>3. quota'[d] = quota[d] + 1
        BY <2>2 DEF RateInv, RTypeOK
      <3> QED
        BY <2>1, <3>1, <3>2, <3>3
    <2>3. CASE req[q].day # d
      <3>1. {x \in AdmittedBy("redis")' : req'[x].day = d} = S
        BY <1>8, <1>9, <2>3 DEF AdmittedBy
      <3>2. quota'[d] = quota[d]
        BY <2>3 DEF RateInv, RTypeOK
      <3> QED
        BY <2>1, <3>1, <3>2
    <2> QED
      BY <2>2, <2>3
  <1> QED
    BY <1>5, <1>6, <1>7, <1>13, <1>14, <1>15, <1>16 DEF RateInv

\* What the script does once its keys are pruned.
LEMMA RunScriptStep ==
    ASSUME RateInv, NEW q \in Requests, RunScript(q)
    PROVE  RateInv'
  <1> DEFINE K == Pruned(req[q].now)
             oldest == Min({m.score : m \in K})
  <1>1. Pending(q) /\ UNCHANGED <<time, bucket>> /\ req[q].now \in Nat
    BY DEF RunScript, Pending, RateInv, RTypeOK, Records
  <1>2. CASE Cardinality(K) >= Rpm /\ zset' = K /\ UNCHANGED quota
             /\ Denied(q, "rpm", RetryAfter(oldest, req[q].now))
    <2>1. {m.score : m \in K} \in SUBSET Nat /\ {m.score : m \in K} # {}
      BY <1>2, SomeCounted DEF RateInv, RTypeOK, Pruned
    <2>2. oldest \in Nat
      BY <2>1, LeastOf
    <2>3. RetryAfter(oldest, req[q].now) \in Int
      BY <1>1, <2>2, RateAssumption DEF RetryAfter, AtLeastOne
    <2> QED
      BY <1>1, <1>2, <2>3, DeniedStep
  <1>3. CASE zset' = K /\ UNCHANGED quota /\ Denied(q, "daily", UntilMidnight(req[q].now))
    <2>1. UntilMidnight(req[q].now) \in Int
      BY <1>1, RateAssumption DEF UntilMidnight, AtLeastOne
    <2> QED
      BY <1>1, <1>3, <2>1, DeniedStep
  <1>4. CASE /\ Cardinality(K) < Rpm
             /\ zset' = K \union {Member(q)}
             /\ quota' = [quota EXCEPT ![req[q].day] = quota[req[q].day] + 1]
             /\ req' = [req EXCEPT ![q].script = "admitted", ![q].by = @ \union {"redis"}]
    <2>1. req' = [req EXCEPT ![q] = [req[q] EXCEPT !.script = "admitted", !.by = @ \union {"redis"}]]
      BY <1>4 DEF RateInv, RTypeOK, Records
    <2> QED
      BY <1>1, <1>4, <2>1, AdmittedStep
  <1> QED
    BY <1>2, <1>3, <1>4 DEF RunScript, Script, GiveBack

Deciding(q) == req[q].at \in {"checking", "sent"}

\* The bucket of its pod has no room for q.
LEMMA RefusedStep ==
    ASSUME RateInv, NEW q \in Requests, Deciding(q), NEW p, p = req[q].pod,
           NEW K, K = Retained(p, req[q].now), NEW retry \in Int,
           NEW r, r = [req[q] EXCEPT !.at = "refused", !.reason = "fallback", !.retry = retry],
           req' = [req EXCEPT ![q] = r],
           bucket' = [bucket EXCEPT ![p] = K],
           UNCHANGED <<time, zset, quota>>
    PROVE  RateInv'
  <1>1. p \in Pods /\ K \subseteq bucket[p]
    BY DEF RateInv, Clocks, Deciding, Retained
  <1>2. r \in Records
    BY DEF RateInv, RTypeOK, Records
  <1>3. bucket' \in [Pods -> SUBSET [at : Nat, seq : Requests, turn : Nat]]
    BY <1>1 DEF RateInv, RTypeOK
  <1>4. RTypeOK'
    BY <1>2, <1>3 DEF RateInv, RTypeOK
  <1>5. Clocks'
    BY DEF RateInv, RTypeOK, Records, Clocks
  <1>6. Admissions'
    BY DEF RateInv, RTypeOK, Records, Admissions, Deciding
  <1>7. Kept
    BY <1>4 DEF RateInv, RTypeOK, Records, Admissions, Kept, Admitting, AdmittedBy, Deciding
  <1>8. req[q].now \in Int /\ req[q].now <= time'
    BY DEF RateInv, RTypeOK, Records, Clocks
  <1>9. ZsetHolds'
    <2>1. zset' \subseteq zset /\ {m \in zset : m.score > req[q].now - Window} \subseteq zset'
      OBVIOUS
    <2> QED
      BY <1>7, <1>8, <2>1, ZsetPruned
  <1>10. BucketHolds'
    <2>1. ASSUME NEW o \in Pods
          PROVE  /\ bucket'[o] \subseteq bucket[o]
                 /\ {e \in bucket[o] : e.at > req[q].now - Window} \subseteq bucket'[o]
      BY <1>1 DEF Retained, RateInv, RTypeOK
    <2> QED
      BY <1>7, <1>8, <2>1, BucketPruned
  <1> QED
    BY <1>4, <1>5, <1>6, <1>7, <1>9, <1>10, KeptAdmissions DEF RateInv

\* The bucket of its pod has room for q.
LEMMA PassedStep ==
    ASSUME RateInv, NEW q \in Requests, Deciding(q), NEW p, p = req[q].pod,
           NEW K, K = Retained(p, req[q].now), Cardinality(K) < Rpm,
           NEW r, r = [req[q] EXCEPT !.at = "passed", !.by = @ \union {p}],
           req' = [req EXCEPT ![q] = r],
           bucket' = [bucket EXCEPT ![p] = Pushed(p, K, q)],
           UNCHANGED <<time, zset, quota>>
    PROVE  RateInv'
  <1> DEFINE e == [at |-> req[q].now, seq |-> q, turn |-> Cardinality(AdmittedBy(p))]
  <1>1. /\ p \in Pods /\ p \in Admitting /\ K \subseteq bucket[p] /\ p # "redis"
        /\ IsFiniteSet(bucket[p])
    BY RateAssumption DEF RateInv, Clocks, Deciding, Retained, Admitting, BucketHolds
  <1>2. r \in Records
    <2>1. req[q] \in Records
      BY DEF RateInv, RTypeOK
    <2>2. req[q].by \union {p} \in SUBSET (Pods \union {"redis"})
      BY <1>1, <2>1 DEF Records
    <2> QED
      BY <2>1, <2>2 DEF Records
  <1>3. e \in [at : Nat, seq : Requests, turn : Nat] /\ Pushed(p, K, q) = K \union {e}
    BY <1>1, FS_CardinalityType DEF RateInv, RTypeOK, Records, Finite, Admitting, Pushed
  <1>4. bucket' \in [Pods -> SUBSET [at : Nat, seq : Requests, turn : Nat]]
    <2>1. bucket \in [Pods -> SUBSET [at : Nat, seq : Requests, turn : Nat]]
      BY DEF RateInv, RTypeOK
    <2>2. K \union {e} \in SUBSET [at : Nat, seq : Requests, turn : Nat]
      BY <1>1, <1>3, <2>1
    <2> HIDE DEF e
    <2> QED
      BY <1>1, <1>3, <2>1, <2>2
  <1>5. RTypeOK'
    <2>1. req' \in [Requests -> Records]
      BY <1>2 DEF RateInv, RTypeOK
    <2> QED
      BY <1>4, <2>1 DEF RateInv, RTypeOK
  <1>6. Clocks'
    BY DEF RateInv, RTypeOK, Records, Clocks
  <1>7. Admissions'
    BY <1>1 DEF RateInv, RTypeOK, Records, Admissions, Deciding
  <1>8. \A x \in Requests : /\ req'[x].now = req[x].now /\ req'[x].day = req[x].day
                           /\ req'[x].by = IF x = q THEN req[q].by \union {p} ELSE req[x].by
    BY DEF RateInv, RTypeOK, Records
  <1>9. /\ AdmittedBy(p)' = AdmittedBy(p) \union {q}
        /\ \A other \in Admitting \ {p} : AdmittedBy(other)' = AdmittedBy(other)
    <2>1. \A x \in Requests : req'[x].by = IF x = q THEN req[q].by \union {p} ELSE req[x].by
      BY <1>8
    <2>2. p \in Admitting
      BY <1>1
    <2> QED
      BY <2>1, <2>2, AdmitsBy, Zenon
  <1>10. AdmittedBy("redis")' = AdmittedBy("redis")
    BY <1>1, <1>9 DEF Admitting
  <1>11. IsFiniteSet(K) /\ Cardinality(K) \in Nat
    BY <1>1, FS_Subset, FS_CardinalityType
  <1>12. \A x \in AdmittedBy(p) : req[x].now > time - Window =>
             \E f \in bucket[p] : /\ f.seq = x /\ f.at = req[x].now
                                  /\ req[x].now > req[q].now - Window => f \in K
    BY <1>1 DEF RateInv, BucketHolds, Retained
  <1>13. Finite' /\ WindowHolds'
    <2>1. \A x \in AdmittedBy(p) :
              req[x].now > time - Window /\ req[x].now > req[q].now - Window => \E f \in K : f.seq = x
      BY <1>12
    <2>2. time' = time /\ time - req[q].now <= Lag
      BY DEF Deciding, RateInv, Clocks
    <2>3. \A x \in Requests : req'[x].now = req[x].now
      BY <1>8
    <2> QED
      BY <1>1, <1>5, <1>9, <1>11, <2>1, <2>2, <2>3, Admits
  <1>14. ZsetHolds'
    <2>1. \A x \in Requests : Member(x)' = Member(x)
      BY <1>8 DEF Member
    <2> QED
      BY <1>8, <1>10, <2>1 DEF RateInv, ZsetHolds, AdmittedBy
  <1>15. BucketHolds'
    <2> SUFFICES ASSUME NEW o \in Pods
                 PROVE  /\ IsFiniteSet(bucket'[o]) /\ Cardinality(bucket'[o]) <= Rpm
                        /\ \A x \in AdmittedBy(o)' : req'[x].now > time' - Window =>
                              \E f \in bucket'[o] : f.seq = x /\ f.at = req'[x].now
      BY DEF BucketHolds
    <2>1. CASE o = p
      <3>1. bucket'[p] = K \union {e}
        BY <1>1, <1>3 DEF RateInv, RTypeOK
      <3>2. IsFiniteSet(K \union {e}) /\ Cardinality(K \union {e}) <= Rpm
        <4>1. /\ IsFiniteSet(K \union {e}) /\ Cardinality(K \union {e}) \in Nat
              /\ Cardinality(K \union {e}) <= Cardinality(K) + 1
          BY <1>11, OneMore
        <4> QED
          BY <1>11, <4>1, RateAssumption
      <3>3. ASSUME NEW x \in AdmittedBy(p)', req'[x].now > time' - Window
            PROVE  \E f \in K \union {e} : f.seq = x /\ f.at = req'[x].now
        <4>1. CASE x = q
          <5>1. e.seq = q /\ e.at = req'[q].now
            BY <1>8
          <5> HIDE DEF e
          <5> QED
            BY <4>1, <5>1
        <4>2. CASE x # q
          <5>1. x \in AdmittedBy(p) /\ req'[x].now = req[x].now /\ req[x].now \in Nat /\ req[q].now \in Nat
            BY <1>8, <1>9, <4>2 DEF AdmittedBy, RateInv, RTypeOK, Records
          <5>2. time \in Nat /\ time' = time /\ req[q].now <= time
            BY DEF RateInv, RTypeOK, Clocks
          <5>3. req[x].now > time - Window /\ req[x].now > req[q].now - Window
            BY <3>3, <5>1, <5>2, RateAssumption
          <5> QED
            BY <1>12, <5>1, <5>3
        <4> QED
          BY <4>1, <4>2
      <3> HIDE DEF e
      <3> QED
        BY <2>1, <3>1, <3>2, <3>3
    <2>2. CASE o # p
      <3>1. bucket'[o] = bucket[o] /\ time' = time /\ AdmittedBy(o)' = AdmittedBy(o)
        BY <1>9, <2>2 DEF RateInv, RTypeOK, Admitting
      <3>2. \A x \in AdmittedBy(o) : req'[x].now = req[x].now
        BY <1>8 DEF AdmittedBy
      <3> QED
        BY <3>1, <3>2 DEF RateInv, BucketHolds
    <2> QED
      BY <2>1, <2>2
  <1>16. QuotaIsAdmissions'
    <2>1. \A d \in Days : {x \in AdmittedBy("redis")' : req'[x].day = d}
                            = {x \in AdmittedBy("redis") : req[x].day = d}
      BY <1>8, <1>10 DEF AdmittedBy
    <2> QED
      BY <2>1 DEF RateInv, QuotaIsAdmissions
  <1> QED
    BY <1>5, <1>6, <1>7, <1>13, <1>14, <1>15, <1>16 DEF RateInv

LEMMA FallBackStep ==
    ASSUME RateInv, NEW q \in Requests, FallBack(q)
    PROVE  RateInv'
  <1> DEFINE p == req[q].pod
             K == Retained(p, req[q].now)
  <1>1. Deciding(q) /\ UNCHANGED <<time, zset, quota>> /\ req[q].now \in Nat /\ p \in Pods
    BY DEF FallBack, Shared, Deciding, RateInv, RTypeOK, Records, Clocks
  <1>2. CASE /\ Cardinality(K) < Rpm
             /\ bucket' = [bucket EXCEPT ![p] = Pushed(p, K, q)]
             /\ req' = [req EXCEPT ![q].at = "passed", ![q].by = @ \union {p}]
    <2>1. req' = [req EXCEPT ![q] = [req[q] EXCEPT !.at = "passed", !.by = @ \union {p}]]
      BY <1>2 DEF RateInv, RTypeOK, Records
    <2> QED
      BY <1>1, <1>2, <2>1, PassedStep
  <1>3. CASE /\ Cardinality(K) >= Rpm
             /\ bucket' = [bucket EXCEPT ![p] = K]
             /\ req' = [req EXCEPT ![q].at = "refused", ![q].reason = "fallback",
                                   ![q].retry = RetryAfter(FirstPushed(K).at, req[q].now)]
    <2> DEFINE retry == RetryAfter(FirstPushed(K).at, req[q].now)
    <2>1. K \in SUBSET [at : Nat, seq : Requests, turn : Nat] /\ K # {}
      BY <1>1, <1>3, SomeCounted DEF RateInv, RTypeOK, Retained
    <2>2. FirstPushed(K).at \in Nat
      BY <2>1, FirstOf
    <2>3. retry \in Int
      BY <1>1, <2>2, RateAssumption DEF RetryAfter, AtLeastOne
    <2> HIDE DEF retry
    <2>4. req' = [req EXCEPT ![q] = [req[q] EXCEPT !.at = "refused", !.reason = "fallback", !.retry = retry]]
      BY <1>3 DEF RateInv, RTypeOK, Records, retry
    <2> QED
      BY <1>1, <1>3, <2>3, <2>4, RefusedStep
  <1> QED
    BY <1>2, <1>3 DEF FallBack, CheckFallback

-----------------------------------------------------------------------------
(* The limits hold.                                                        *)

LEMMA RateInvInitially ==
    ASSUME RInit
    PROVE  RateInv
  <1>1. Unasked \in Records
    BY DEF Unasked, Records, Days
  <1>2. RTypeOK
    BY <1>1 DEF RInit, RTypeOK
  <1>3. Clocks /\ Admissions
    BY DEF RInit, Clocks, Admissions, Unasked
  <1>4. \A who : AdmittedBy(who) = {}
    BY DEF RInit, AdmittedBy, Unasked
  <1>5. IsFiniteSet({}) /\ Cardinality({}) = 0
    BY FS_EmptySet
  <1>6. ZsetHolds /\ BucketHolds /\ Finite
    <2>1. 0 <= Rpm
      BY RateAssumption
    <2>2. ZsetHolds
      BY <1>4, <1>5, <2>1 DEF RInit, ZsetHolds
    <2>3. BucketHolds
      BY <1>4, <1>5, <2>1 DEF RInit, BucketHolds
    <2>4. Finite
      BY <1>4, <1>5 DEF Finite
    <2> QED
      BY <2>2, <2>3, <2>4
  <1>7. WindowHolds
    <2> SUFFICES ASSUME NEW who \in Pods \union {"redis"}, NEW t \in 0 .. time
                 PROVE  Cardinality(InWindow(who, t)) <= Rpm
      BY DEF WindowHolds, InWindow, WindowFrom
    <2>1. InWindow(who, t) = {}
      BY <1>4 DEF InWindow
    <2> QED
      BY <1>5, <2>1, RateAssumption
  <1>8. QuotaIsAdmissions
    <2>1. \A d \in Days : {q \in AdmittedBy("redis") : req[q].day = d} = {}
      BY <1>4
    <2> QED
      BY <1>5, <2>1 DEF RInit, QuotaIsAdmissions
  <1> QED
    BY <1>2, <1>3, <1>6, <1>7, <1>8 DEF RateInv

LEMMA RateInvIsKept ==
    ASSUME RateInv, [RNext]_rvars
    PROVE  RateInv'
  <1>1. CASE RNext
    BY <1>1, TickStep, EvictIdleStep, ArriveStep, SendScriptStep, RunScriptStep, TakeAnswerStep,
       FallBackStep DEF RNext
  <1>2. CASE UNCHANGED rvars
    BY <1>2 DEF rvars, RateInv, RTypeOK, Clocks, Admissions, ZsetHolds, BucketHolds, Finite,
        WindowHolds, QuotaIsAdmissions, AdmittedBy, Member
  <1> QED
    BY <1>1, <1>2

\* What the limiter keeps, whatever order scripts and clocks come in.
THEOREM RateInvariant == RSpec => []RateInv
  BY RateInvInitially, RateInvIsKept, PTL DEF RSpec

\* Neither Redis nor a pod admits more than Rpm requests of Window - Lag ticks,
\* which is the whole window if no script and no check is late.
THEOREM WindowAlwaysHolds == RSpec => []WindowHolds
  <1>1. RateInv => WindowHolds
    BY DEF RateInv
  <1> QED
    BY <1>1, RateInvariant, PTL

\* The quota of a day counts what was admitted under its key.
THEOREM QuotaCountsAdmissions == RSpec => []QuotaIsAdmissions
  <1>1. RateInv => QuotaIsAdmissions
    BY DEF RateInv
  <1> QED
    BY <1>1, RateInvariant, PTL

-----------------------------------------------------------------------------
(* Who comes again when it was told to finds room.                         *)

\* One of those counted is not counted any more.
LEMMA OneLess ==
    ASSUME NEW K, IsFiniteSet(K), Cardinality(K) <= Rpm, NEW S \in SUBSET K, NEW e \in K \ S
    PROVE  Cardinality(S) < Rpm
  <1>1. IsFiniteSet(K \ {e}) /\ Cardinality(K \ {e}) = Cardinality(K) - 1 /\ S \subseteq K \ {e}
    BY FS_RemoveElement
  <1>2. IsFiniteSet(S) /\ Cardinality(S) <= Cardinality(K \ {e})
    BY <1>1, FS_Subset
  <1>3. Cardinality(K) \in Nat /\ Cardinality(S) \in Nat
    BY <1>2, FS_CardinalityType
  <1> QED
    BY <1>1, <1>2, <1>3, RateAssumption

\* Until the retry, what was pushed at oldest leaves the window.
LEMMA RetryOutlives ==
    ASSUME NEW oldest \in Nat, NEW now \in Nat
    PROVE  ~(oldest > now + RetryAfter(oldest, now) - Window)
  BY RateAssumption DEF RetryAfter, AtLeastOne

\* What RetryFindsRoom says of a step.
RoomFor(q) ==
    /\ req'[q].reason = "rpm" /\ req[q].reason = "none" =>
        Cardinality({m \in zset' : m.score > req'[q].now + req'[q].retry - Window}) < Rpm
    /\ req'[q].reason = "fallback" /\ req[q].reason # "fallback" =>
        Cardinality({e \in bucket'[req[q].pod] :
                         e.at > req'[q].now + req'[q].retry - Window}) < Rpm

\* Most steps deny nobody.
DeniesNobody ==
    \A q \in Requests : req'[q].reason \in {req[q].reason, "none", "daily"}

LEMMA NobodyWaits ==
    ASSUME DeniesNobody, NEW q \in Requests
    PROVE  RoomFor(q)
  BY DEF DeniesNobody, RoomFor

LEMMA ScriptLeavesRoom ==
    ASSUME RateInv, RateInv', NEW q \in Requests, RunScript(q), NEW x \in Requests
    PROVE  RoomFor(x)
  <1> DEFINE K == Pruned(req[q].now)
             oldest == Min({m.score : m \in K})
  <1>1. CASE Cardinality(K) >= Rpm /\ zset' = K
             /\ Denied(q, "rpm", RetryAfter(oldest, req[q].now))
    <2>1. {m.score : m \in K} \in SUBSET Nat /\ {m.score : m \in K} # {}
      BY <1>1, SomeCounted DEF RateInv, RTypeOK, Pruned
    <2>2. oldest \in {m.score : m \in K} /\ oldest \in Nat
      BY <2>1, LeastOf
    <2>3. PICK m \in K : m.score = oldest
      BY <2>2
    <2> HIDE DEF oldest, K
    <2>4. CASE x = q
      <3>1. /\ req'[q].now = req[q].now /\ req[q].now \in Nat /\ req'[q].reason = "rpm"
            /\ req'[q].retry = RetryAfter(oldest, req[q].now)
        BY <1>1 DEF Denied, RateInv, RTypeOK, Records
      <3> DEFINE S == {n \in zset' : n.score > req'[q].now + req'[q].retry - Window}
      <3>2. m \in zset' \ S /\ S \in SUBSET zset'
        BY <1>1, <2>2, <2>3, <3>1, RetryOutlives
      <3>3. Cardinality(S) < Rpm
        <4>1. IsFiniteSet(zset') /\ Cardinality(zset') <= Rpm
          BY DEF RateInv, ZsetHolds
        <4> HIDE DEF S
        <4> QED
          BY <3>2, <4>1, OneLess
      <3> QED
        BY <2>4, <3>1, <3>3 DEF RoomFor
    <2>5. CASE x # q
      <3>1. req'[x].reason = req[x].reason
        BY <1>1, <2>5 DEF Denied, RateInv, RTypeOK
      <3> QED
        BY <3>1 DEF RoomFor
    <2> QED
      BY <2>4, <2>5
  <1>2. CASE Denied(q, "daily", UntilMidnight(req[q].now))
    <2>1. DeniesNobody
      BY <1>2 DEF Denied, DeniesNobody, RateInv, RTypeOK, Records
    <2> QED
      BY <2>1, NobodyWaits
  <1>3. CASE req' = [req EXCEPT ![q].script = "admitted", ![q].by = @ \union {"redis"}]
    <2>1. DeniesNobody
      BY <1>3 DEF DeniesNobody, RateInv, RTypeOK, Records
    <2> QED
      BY <2>1, NobodyWaits
  <1> QED
    BY <1>1, <1>2, <1>3 DEF RunScript, Script

LEMMA FallbackLeavesRoom ==
    ASSUME RateInv, RateInv', NEW q \in Requests, FallBack(q), NEW x \in Requests
    PROVE  RoomFor(x)
  <1> DEFINE p == req[q].pod
             K == Retained(p, req[q].now)
  <1>1. CASE /\ Cardinality(K) >= Rpm
             /\ bucket' = [bucket EXCEPT ![p] = K]
             /\ req' = [req EXCEPT ![q].at = "refused", ![q].reason = "fallback",
                                   ![q].retry = RetryAfter(FirstPushed(K).at, req[q].now)]
    <2>1. p \in Pods
      BY DEF FallBack, RateInv, Clocks
    <2>2. K \in SUBSET [at : Nat, seq : Requests, turn : Nat] /\ K # {}
      BY <1>1, <2>1, SomeCounted DEF RateInv, RTypeOK, Retained
    <2>3. FirstPushed(K) \in K /\ FirstPushed(K).at \in Nat
      BY <2>2, FirstOf
    <2>4. CASE x = q
      <3> DEFINE first == FirstPushed(K).at
      <3>1. /\ req'[q].now = req[q].now /\ req[q].now \in Nat /\ req'[q].reason = "fallback"
            /\ req'[q].retry = RetryAfter(first, req[q].now)
        BY <1>1 DEF RateInv, RTypeOK, Records
      <3>2. bucket'[p] = K
        BY <1>1, <2>1 DEF RateInv, RTypeOK
      <3> DEFINE S == {e \in bucket'[p] : e.at > req'[q].now + req'[q].retry - Window}
      <3>3. FirstPushed(K) \in bucket'[p] \ S /\ S \in SUBSET bucket'[p]
        BY <2>3, <3>1, <3>2, RetryOutlives
      <3>4. Cardinality(S) < Rpm
        <4>1. IsFiniteSet(bucket'[p]) /\ Cardinality(bucket'[p]) <= Rpm
          BY <2>1 DEF RateInv, BucketHolds
        <4> HIDE DEF S
        <4> QED
          BY <3>3, <4>1, OneLess
      <3> QED
        BY <2>4, <3>1, <3>4 DEF RoomFor
    <2>5. CASE x # q
      <3>1. req'[x].reason = req[x].reason
        BY <1>1, <2>5 DEF RateInv, RTypeOK
      <3> QED
        BY <3>1 DEF RoomFor
    <2> QED
      BY <2>4, <2>5
  <1>2. CASE req' = [req EXCEPT ![q].at = "passed", ![q].by = @ \union {p}]
    <2>1. DeniesNobody
      BY <1>2 DEF DeniesNobody, RateInv, RTypeOK, Records
    <2> QED
      BY <2>1, NobodyWaits
  <1> QED
    BY <1>1, <1>2 DEF FallBack, CheckFallback

LEMMA StepLeavesRoom ==
    ASSUME RateInv, RateInv', [RNext]_rvars, NEW x \in Requests
    PROVE  RoomFor(x)
  <1>1. ASSUME NEW q \in Requests, RunScript(q) \/ FallBack(q)
        PROVE  RoomFor(x)
    BY <1>1, ScriptLeavesRoom, FallbackLeavesRoom
  <1>2. ASSUME NEW q \in Requests, NEW p \in Pods, Arrive(q, p)
        PROVE  DeniesNobody
    BY <1>2 DEF DeniesNobody, Arrive, RateInv, RTypeOK, Records
  <1>3. ASSUME NEW q \in Requests, SendScript(q) \/ TakeAnswer(q)
        PROVE  DeniesNobody
    BY <1>3 DEF DeniesNobody, SendScript, TakeAnswer, Refused, Unasked, RateInv, RTypeOK, Records
  <1>4. ASSUME UNCHANGED req
        PROVE  DeniesNobody
    BY <1>4 DEF DeniesNobody
  <1>5. Tick \/ (\E p \in Pods : EvictIdle(p)) \/ UNCHANGED rvars => UNCHANGED req
    BY DEF Tick, EvictIdle, rvars
  <1> QED
    BY <1>1, <1>2, <1>3, <1>4, <1>5, NobodyWaits DEF RNext

\* Of those counted when a check is told to wait, fewer than Rpm are counted
\* when it comes again as it was told.
THEOREM RetryAlwaysFindsRoom == RSpec => RetryFindsRoom
  <1>1. RateInv /\ RateInv' /\ [RNext]_rvars => [\A q \in Requests : RoomFor(q)]_rvars
    BY StepLeavesRoom
  <1>2. RSpec => [][\A q \in Requests : RoomFor(q)]_rvars
    BY <1>1, RateInvariant, PTL DEF RSpec
  <1> QED
    BY <1>2, PTL DEF RetryFindsRoom, RoomFor

-----------------------------------------------------------------------------
(* Snapshots.  No row is deleted without a copy, for any rows, pages,      *)
(* retention policy and any number of forgets and restores.  A forget in   *)
(* flight holds the lock of the namespace, so retention never runs between *)
(* the name of a file and the commit of what it holds; and what a          *)
(* transaction has taken is in its file, page by page, before the commit   *)
(* deletes it.                                                             *)

Labels == {"idle", "begin", "delete", "named", "committed", "prune", "returned"}

\* A forget that holds the lock of the namespace.
Busy(f) == forget[f].at \in {"begin", "delete", "named", "committed", "prune"}

\* What holds of a forget and its file: it works under the lock; a file has no
\* name before the transaction is at its end; what the transaction takes is in
\* the file first; and the file is there until the call returns.
ForgetKnows(f) ==
    /\ Busy(f) => lock = f
    /\ forget[f].at \in {"idle", "begin", "delete"} => file[f].state # "complete"
    /\ forget[f].at \in {"idle", "begin"} => forget[f].taken = {}
    /\ forget[f].at \in {"delete", "named"} => forget[f].taken \subseteq file[f].rows
    /\ forget[f].at = "named" => forget[f].taken = {} \/ file[f].state = "complete"
    /\ forget[f].at \in {"committed", "prune"} => file[f].state = "complete"
    /\ forget[f].at = "prune" => f \notin forget[f].victims

FileType == [state : {"none", "partial", "complete"}, at : Times \union {0}, rows : SUBSET Rows]

ForgetType ==
    [at : Labels, taken : SUBSET Rows, victims : SUBSET Forgets, warned : BOOLEAN]

RestoreType ==
    [at : {"idle", "write", "restored"}, rows : SUBSET Rows, left : SUBSET Rows,
     deleted : SUBSET Rows]

\* The types the other parts need.
Shapes ==
    /\ file \in [Forgets -> FileType]
    /\ forget \in [Forgets -> ForgetType]
    /\ stored \in SUBSET Rows
    /\ restore \in [Restores -> RestoreType]

SnapshotInv == Shapes /\ (\A f \in Forgets : ForgetKnows(f)) /\ NothingIsLost

-----------------------------------------------------------------------------

\* A step that leaves complete files alone keeps what they hold.
LEMMA CapturedStays ==
    ASSUME Shapes, Shapes',
           \A f \in Forgets : file[f].state = "complete" => file'[f].state = "complete" /\ file'[f].rows = file[f].rows
    PROVE  Captured \subseteq Captured'
  BY DEF Captured, Named

LEMMA SnapshotsStart == SInit => SnapshotInv
  BY DEF SInit, SnapshotInv, Shapes, FileType, ForgetType, RestoreType, Labels, ForgetKnows, Busy,
         NothingIsLost, NoFile, Fresh0, Closed0

\* Assigning fields of records keeps the types.
LEMMA FieldTypes ==
    ASSUME NEW F \in [Forgets -> FileType], NEW G \in [Forgets -> ForgetType], NEW f \in Forgets
    PROVE  /\ \A t \in Times \union {0} : [F EXCEPT ![f].at = t] \in [Forgets -> FileType]
           /\ [F EXCEPT ![f].state = "complete"] \in [Forgets -> FileType]
           /\ [F EXCEPT ![f] = NoFile] \in [Forgets -> FileType]
           /\ \A P \in SUBSET Rows :
                [F EXCEPT ![f].state = "partial", ![f].rows = @ \union P] \in [Forgets -> FileType]
           /\ \A l \in Labels : [G EXCEPT ![f].at = l] \in [Forgets -> ForgetType]
           /\ [G EXCEPT ![f] = Gone] \in [Forgets -> ForgetType]
           /\ \A P \in SUBSET Rows : [G EXCEPT ![f].taken = @ \union P] \in [Forgets -> ForgetType]
           /\ \A V \in SUBSET Forgets :
                [G EXCEPT ![f].at = "prune", ![f].victims = V] \in [Forgets -> ForgetType]
           /\ \A v : [G EXCEPT ![f].victims = @ \ {v}] \in [Forgets -> ForgetType]
           /\ \A v : [G EXCEPT ![f].victims = @ \ {v}, ![f].warned = TRUE] \in [Forgets -> ForgetType]
  <1>1. F[f] \in FileType /\ G[f] \in ForgetType
    OBVIOUS
  <1>2. \A o \in FileType : [F EXCEPT ![f] = o] \in [Forgets -> FileType]
    OBVIOUS
  <1>3. \A o \in ForgetType : [G EXCEPT ![f] = o] \in [Forgets -> ForgetType]
    OBVIOUS
  <1>4. NoFile \in FileType /\ Gone \in ForgetType
    BY DEF NoFile, Gone, Fresh0, FileType, ForgetType, Labels
  <1>5. ASSUME NEW t \in Times \union {0} PROVE [F EXCEPT ![f].at = t] \in [Forgets -> FileType]
    <2>1. [F[f] EXCEPT !.at = t] \in FileType
      BY <1>1 DEF FileType
    <2> QED
      BY <1>2, <2>1
  <1>6. [F EXCEPT ![f].state = "complete"] \in [Forgets -> FileType]
    <2>1. [F[f] EXCEPT !.state = "complete"] \in FileType
      BY <1>1 DEF FileType
    <2> QED
      BY <1>2, <2>1
  <1>7. ASSUME NEW P \in SUBSET Rows
        PROVE  [F EXCEPT ![f].state = "partial", ![f].rows = @ \union P] \in [Forgets -> FileType]
    BY <1>1, <1>2 DEF FileType
  <1>8. ASSUME NEW l \in Labels PROVE [G EXCEPT ![f].at = l] \in [Forgets -> ForgetType]
    <2>1. [G[f] EXCEPT !.at = l] \in ForgetType
      BY <1>1 DEF ForgetType
    <2> QED
      BY <1>3, <2>1
  <1>9. ASSUME NEW P \in SUBSET Rows PROVE [G EXCEPT ![f].taken = @ \union P] \in [Forgets -> ForgetType]
    <2>1. [G[f] EXCEPT !.taken = @ \union P] \in ForgetType
      BY <1>1 DEF ForgetType
    <2> QED
      BY <1>3, <2>1
  <1>10. ASSUME NEW V \in SUBSET Forgets
         PROVE  [G EXCEPT ![f].at = "prune", ![f].victims = V] \in [Forgets -> ForgetType]
    BY <1>1, <1>3 DEF ForgetType, Labels
  <1>11. ASSUME NEW v PROVE [G EXCEPT ![f].victims = @ \ {v}] \in [Forgets -> ForgetType]
    <2>1. [G[f] EXCEPT !.victims = @ \ {v}] \in ForgetType
      BY <1>1 DEF ForgetType
    <2> QED
      BY <1>3, <2>1
  <1>12. ASSUME NEW v
         PROVE  [G EXCEPT ![f].victims = @ \ {v}, ![f].warned = TRUE] \in [Forgets -> ForgetType]
    BY <1>1, <1>3 DEF ForgetType
  <1> QED
    BY <1>2, <1>3, <1>4, <1>5, <1>6, <1>7, <1>8, <1>9, <1>10, <1>11, <1>12

\* Types, for every step.
LEMMA ShapesStep ==
    ASSUME SnapshotInv, SNext PROVE Shapes'
  <1> DEFINE Files == [Forgets -> FileType]
             Calls == [Forgets -> ForgetType]
             Reads == [Restores -> RestoreType]
  <1>1. file \in Files /\ forget \in Calls /\ stored \in SUBSET Rows /\ restore \in Reads
    BY DEF SnapshotInv, Shapes
  <1> SUFFICES file' \in Files /\ forget' \in Calls /\ stored' \in SUBSET Rows /\ restore' \in Reads
    BY DEF Shapes
  <1>2. \A f \in Forgets : file[f].rows \in SUBSET Rows /\ forget[f].taken \in SUBSET Rows
    BY <1>1 DEF FileType, ForgetType
  <1>3. CASE \E r \in Rows : Remember(r)
    BY <1>1, <1>3 DEF Remember
  <1>4. ASSUME NEW f \in Forgets, NEW now \in Times, BeginForget(f, now)
        PROVE  file' \in Files /\ forget' \in Calls /\ stored' = stored /\ restore' = restore
    BY <1>1, <1>4, FieldTypes DEF BeginForget, Goto, Labels
  <1>5. ASSUME NEW f \in Forgets, NEW now \in Times, Prune(f, now)
        PROVE  file' \in Files /\ forget' \in Calls /\ stored' = stored /\ restore' = restore
    <2>1. Victims(f, now) \in SUBSET Forgets
      BY DEF Victims, Named
    <2> QED
      BY <1>1, <1>5, <2>1, FieldTypes DEF Prune
  <1>6. ASSUME NEW f \in Forgets, BeginDelete(f)
        PROVE  file' \in Files /\ forget' \in Calls /\ stored' = stored /\ restore' = restore
    BY <1>1, <1>6, FieldTypes DEF BeginDelete, Goto, Labels
  <1>7. ASSUME NEW f \in Forgets, CapturePage(f)
        PROVE  file' \in Files /\ forget' \in Calls /\ stored' = stored /\ restore' = restore
    <2>1. Fitted(First(PageRows, Left(f))) \in SUBSET Rows
      BY <1>1 DEF Fitted, First, Left
    <2> QED
      BY <1>1, <1>7, <2>1, FieldTypes DEF CapturePage
  <1>8. ASSUME NEW f \in Forgets, Finish(f)
        PROVE  file' \in Files /\ forget' \in Calls /\ stored' = stored /\ restore' = restore
    BY <1>1, <1>8, FieldTypes DEF Finish, Goto, Labels
  <1>9. ASSUME NEW f \in Forgets, Fail(f) \/ Return(f)
        PROVE  file' \in Files /\ forget' \in Calls /\ stored' = stored /\ restore' = restore
    <2>1. [file EXCEPT ![f] = NoFile] \in Files /\ [forget EXCEPT ![f] = Gone] \in Calls
      BY <1>1, FieldTypes
    <2> QED
      BY <1>1, <1>9, <2>1 DEF Fail, Return, DropWriter, End
  <1>10. ASSUME NEW f \in Forgets, Commit(f) \/ CommitUnknown(f)
         PROVE  file' \in Files /\ forget' \in Calls /\ stored' \in SUBSET Rows /\ restore' \in Reads
    <2>1. \A u \in Restores : [restore[u] EXCEPT !.deleted = @ \union forget[f].taken] \in RestoreType
      BY <1>1, <1>2 DEF RestoreType
    <2>2. Delete(f) /\ file' = file
      BY <1>10 DEF Commit, CommitUnknown, KeepSnapshot
    <2>3. forget' \in Calls
      <3>1. [forget EXCEPT ![f] = Gone] \in Calls /\ [forget EXCEPT ![f].at = "committed"] \in Calls
        BY <1>1, FieldTypes DEF Labels
      <3> QED
        BY <1>10, <3>1 DEF Commit, CommitUnknown, End, Goto
    <2> QED
      BY <1>1, <2>1, <2>2, <2>3 DEF Delete
  <1>11. ASSUME NEW f \in Forgets, NEW v \in Forgets, RemoveVictim(f, v)
         PROVE  file' \in Files /\ forget' \in Calls /\ stored' = stored /\ restore' = restore
    <2>1. /\ [file EXCEPT ![v] = NoFile] \in Files
          /\ [forget EXCEPT ![f].victims = @ \ {v}] \in Calls
          /\ [forget EXCEPT ![f].victims = @ \ {v}, ![f].warned = TRUE] \in Calls
      BY <1>1, FieldTypes
    <2> QED
      BY <1>1, <1>11, <2>1 DEF RemoveVictim
  <1>12. ASSUME NEW u \in Restores, NEW f \in Forgets, OpenRestore(u, f)
         PROVE  file' = file /\ forget' = forget /\ stored' = stored /\ restore' \in Reads
    BY <1>1, <1>2, <1>12 DEF OpenRestore, RestoreType
  <1>13. ASSUME NEW u \in Restores, RestorePage(u)
         PROVE  file' = file /\ forget' = forget /\ stored' \in SUBSET Rows /\ restore' \in Reads
    <2>1. \A S \in SUBSET Rows : First(PageRows, S) \in SUBSET Rows
      BY DEF First
    <2>2. restore[u] \in RestoreType /\ restore[u].left \in SUBSET Rows
      BY <1>1 DEF RestoreType
    <2> DEFINE page == NextPage(restore[u].left)
    <2>3. page \in SUBSET Rows
      BY <2>1, <2>2 DEF NextPage
    <2> HIDE DEF page
    <2>4. restore' = [restore EXCEPT ![u].left = @ \ First(PageRows, @), ![u].deleted = @ \ page]
      BY <1>13 DEF RestorePage, page
    <2>5. restore' \in Reads
      BY <1>1, <2>2, <2>4 DEF RestoreType
    <2> QED
      BY <1>1, <1>13, <2>3, <2>5 DEF RestorePage, page
  <1>14. ASSUME NEW u \in Restores, EndRestore(u)
         PROVE  file' = file /\ forget' = forget /\ stored' = stored /\ restore' \in Reads
    <2>1. [restore[u] EXCEPT !.at = "restored"] \in RestoreType /\ Closed0 \in RestoreType
      BY <1>1 DEF RestoreType, Closed0
    <2>2. restore' = [restore EXCEPT ![u] = [restore[u] EXCEPT !.at = "restored"]]
            \/ restore' = [restore EXCEPT ![u] = Closed0]
      BY <1>14 DEF EndRestore
    <2>3. restore' \in Reads
      BY <1>1, <2>1, <2>2
    <2> QED
      BY <1>14, <2>3 DEF EndRestore
  <1>15. ASSUME Crash
         PROVE  file' = file /\ forget' \in Calls /\ stored' = stored /\ restore' \in Reads
    BY <1>15 DEF Crash, Closed0, RestoreType, Fresh0, Gone, ForgetType, Labels
  <1> QED
    BY <1>1, <1>3, <1>4, <1>5, <1>6, <1>7, <1>8, <1>9, <1>10, <1>11, <1>12, <1>13, <1>14, <1>15 DEF SNext

\* What is known of the forgets, for every step.
LEMMA ForgetsStep ==
    ASSUME SnapshotInv, SNext PROVE \A g \in Forgets : ForgetKnows(g)'
  <1>1. /\ file \in [Forgets -> FileType] /\ forget \in [Forgets -> ForgetType]
        /\ \A g \in Forgets : ForgetKnows(g)
    BY DEF SnapshotInv, Shapes
  <1>2. \A g \in Forgets : file[g] \in FileType /\ forget[g] \in ForgetType
    BY <1>1
  <1>3. 0 \notin Forgets
    BY SnapshotAssumption
  \* The others, in a step of f.
  <1>4. ASSUME NEW f \in Forgets, NEW g \in Forgets, g # f, forget'[g] = forget[g],
               Busy(g) => file'[g] = file[g], forget[g].at = "idle" => file'[g].state # "complete",
               lock' = lock \/ lock \in {0, f}
        PROVE  ForgetKnows(g)'
    BY <1>1, <1>3, <1>4 DEF ForgetKnows, Busy
  <1>5. CASE UNCHANGED <<file, lock, forget>>
    BY <1>1, <1>5 DEF ForgetKnows, Busy
  <1>6. ASSUME NEW f \in Forgets, NEW now \in Times, BeginForget(f, now)
        PROVE  \A g \in Forgets : ForgetKnows(g)'
    <2>1. /\ forget[f].at = "idle" /\ lock = 0 /\ lock' = f
          /\ forget' = [forget EXCEPT ![f].at = "begin"]
          /\ file' = [file EXCEPT ![f].at = now]
      BY <1>6 DEF BeginForget, IsNext, NamespaceLock, Goto
    <2>2. ForgetKnows(f)'
      BY <1>1, <1>2, <2>1 DEF ForgetKnows, Busy, FileType, ForgetType
    <2>3. \A g \in Forgets : g # f => ForgetKnows(g)'
      BY <1>1, <1>4, <2>1 DEF ForgetKnows
    <2> QED
      BY <2>2, <2>3
  <1>7. ASSUME NEW f \in Forgets, NEW now \in Times, Prune(f, now)
        PROVE  \A g \in Forgets : ForgetKnows(g)'
    <2>1. /\ forget[f].at = "committed" /\ lock' = lock /\ file' = file
          /\ forget' = [forget EXCEPT ![f].at = "prune", ![f].victims = Victims(f, now)]
      BY <1>7 DEF Prune
    <2>2. ForgetKnows(f)'
      <3>1. forget'[f].at = "prune" /\ forget'[f].victims = Victims(f, now)
        BY <1>1, <1>2, <2>1 DEF ForgetType
      <3>2. f \notin Victims(f, now)
        BY DEF Victims
      <3> QED
        BY <1>1, <2>1, <3>1, <3>2 DEF ForgetKnows, Busy
    <2>3. \A g \in Forgets : g # f => ForgetKnows(g)'
      BY <1>1, <1>4, <2>1 DEF ForgetKnows
    <2> QED
      BY <2>2, <2>3
  <1>8. ASSUME NEW f \in Forgets, BeginDelete(f)
        PROVE  \A g \in Forgets : ForgetKnows(g)'
    <2>1. /\ forget[f].at = "begin" /\ lock' = lock /\ file' = file
          /\ forget' = [forget EXCEPT ![f].at = "delete"]
      BY <1>8 DEF BeginDelete, Goto
    <2>2. ForgetKnows(f)'
      BY <1>1, <1>2, <2>1 DEF ForgetKnows, Busy, ForgetType
    <2>3. \A g \in Forgets : g # f => ForgetKnows(g)'
      BY <1>1, <1>4, <2>1 DEF ForgetKnows
    <2> QED
      BY <2>2, <2>3
  <1>9. ASSUME NEW f \in Forgets, CapturePage(f)
        PROVE  \A g \in Forgets : ForgetKnows(g)'
    <2> DEFINE page == Fitted(First(PageRows, Left(f)))
    <2>1. /\ forget[f].at = "delete" /\ lock' = lock
          /\ forget' = [forget EXCEPT ![f].taken = @ \union page]
          /\ file' = [file EXCEPT ![f].state = "partial", ![f].rows = @ \union page]
      BY <1>9 DEF CapturePage
    <2> HIDE DEF page
    <2>2. ForgetKnows(f)'
      <3>1. /\ forget'[f].at = "delete" /\ forget'[f].taken = forget[f].taken \union page
            /\ file'[f].state = "partial" /\ file'[f].rows = file[f].rows \union page
        BY <1>1, <1>2, <2>1 DEF FileType, ForgetType
      <3> QED
        BY <1>1, <2>1, <3>1 DEF ForgetKnows, Busy
    <2>3. \A g \in Forgets : g # f => ForgetKnows(g)'
      BY <1>1, <1>4, <2>1 DEF ForgetKnows
    <2> QED
      BY <2>2, <2>3
  <1>10. ASSUME NEW f \in Forgets, Finish(f)
         PROVE  \A g \in Forgets : ForgetKnows(g)'
    <2>1. /\ forget[f].at = "delete" /\ lock' = lock
          /\ forget' = [forget EXCEPT ![f].at = "named"]
          /\ file' = IF forget[f].taken = {} THEN file ELSE [file EXCEPT ![f].state = "complete"]
      BY <1>10 DEF Finish, Goto
    <2>2. ForgetKnows(f)'
      BY <1>1, <1>2, <2>1 DEF ForgetKnows, Busy, FileType, ForgetType
    <2>3. \A g \in Forgets : g # f => ForgetKnows(g)'
      BY <1>1, <1>4, <2>1 DEF ForgetKnows
    <2> QED
      BY <2>2, <2>3
  \* A forget that is over.
  <1>11. ASSUME NEW f \in Forgets, End(f), Busy(f), \A g \in Forgets : g # f => file'[g] = file[g]
         PROVE  \A g \in Forgets : ForgetKnows(g)'
    <2>1. lock = f /\ lock' = 0 /\ forget' = [forget EXCEPT ![f] = Gone]
      BY <1>1, <1>11 DEF End, ForgetKnows
    <2>2. forget'[f].at = "returned"
      BY <1>1, <2>1 DEF Gone, Fresh0
    <2>3. ForgetKnows(f)'
      BY <2>2 DEF ForgetKnows, Busy
    <2>4. \A g \in Forgets : g # f => ForgetKnows(g)'
      BY <1>1, <1>4, <1>11, <2>1 DEF ForgetKnows
    <2> QED
      BY <2>3, <2>4
  <1>12. ASSUME NEW f \in Forgets, Fail(f) \/ Return(f) \/ CommitUnknown(f)
         PROVE  \A g \in Forgets : ForgetKnows(g)'
    BY <1>1, <1>11, <1>12 DEF Fail, Return, CommitUnknown, KeepSnapshot, DropWriter, Busy
  <1>13. ASSUME NEW f \in Forgets, Commit(f)
         PROVE  \A g \in Forgets : ForgetKnows(g)'
    <2>1. CASE End(f)
      BY <1>11, <1>13, <2>1 DEF Commit, Busy
    <2>2. CASE Goto(f, "committed") /\ UNCHANGED lock
      <3>1. forget[f].at = "named" /\ file' = file /\ forget' = [forget EXCEPT ![f].at = "committed"]
        BY <1>13, <2>2 DEF Commit, Goto
      <3>a. forget'[f].at = "committed"
        BY <1>1, <1>2, <3>1 DEF ForgetType
      <3>b. forget[f].taken # {}
        BY <1>13, <1>1, <3>1, <3>a DEF Commit, End, Gone, Fresh0
      <3>2. ForgetKnows(f)'
        BY <1>1, <2>2, <3>1, <3>a, <3>b DEF ForgetKnows, Busy
      <3>3. \A g \in Forgets : g # f => ForgetKnows(g)'
        BY <1>1, <1>4, <2>2, <3>1 DEF ForgetKnows
      <3> QED
        BY <3>2, <3>3
    <2> QED
      BY <1>13, <2>1, <2>2 DEF Commit
  <1>14. ASSUME NEW f \in Forgets, NEW v \in Forgets, RemoveVictim(f, v)
         PROVE  \A g \in Forgets : ForgetKnows(g)'
    <2>1. /\ forget[f].at = "prune" /\ lock' = lock /\ lock = f
          /\ file' = file \/ file' = [file EXCEPT ![v] = NoFile]
      BY <1>1, <1>14 DEF RemoveVictim, ForgetKnows, Busy
    <2>2. /\ forget'[f].at = "prune" /\ forget'[f].victims = forget[f].victims \ {v}
          /\ \A g \in Forgets : g # f => forget'[g] = forget[g]
      BY <1>1, <1>2, <1>14 DEF RemoveVictim, ForgetType
    <2>a. v # f /\ f \notin forget[f].victims /\ file[f].state = "complete"
      BY <1>1, <1>14 DEF RemoveVictim, ForgetKnows
    <2>b. file'[f] = file[f]
      BY <1>1, <2>1, <2>a
    <2>3. ForgetKnows(f)'
      BY <2>1, <2>2, <2>a, <2>b DEF ForgetKnows, Busy
    <2>4. ASSUME NEW g \in Forgets, g # f PROVE ForgetKnows(g)'
      <3>1. ~Busy(g)
        BY <1>1, <2>1, <2>4 DEF ForgetKnows
      <3>2. file'[g] = file[g] \/ file'[g] = NoFile
        BY <1>1, <2>1
      <3>3. forget[g].at = "idle" => file'[g].state # "complete"
        BY <1>1, <3>2 DEF ForgetKnows, NoFile
      <3> QED
        BY <1>4, <2>1, <2>2, <2>4, <3>1, <3>3
    <2> QED
      BY <2>3, <2>4
  <1>15. ASSUME Crash PROVE \A g \in Forgets : ForgetKnows(g)'
    <2> SUFFICES ASSUME NEW g \in Forgets PROVE ForgetKnows(g)'
      OBVIOUS
    <2>1. /\ file' = file
          /\ forget[g].at = "idle" => forget'[g] = Fresh0
          /\ forget[g].at # "idle" => forget'[g] = Gone
      BY <1>15 DEF Crash
    <2>2. Fresh0.at = "idle" /\ Fresh0.taken = {} /\ Gone.at = "returned"
      BY DEF Fresh0, Gone
    <2> QED
      BY <1>1, <2>1, <2>2 DEF ForgetKnows, Busy
  <1>16. CASE \E r \in Rows : Remember(r)
    BY <1>5, <1>16 DEF Remember
  <1>17. CASE \E u \in Restores : RestorePage(u) \/ EndRestore(u) \/ \E f \in Forgets : OpenRestore(u, f)
    BY <1>5, <1>17 DEF RestorePage, EndRestore, OpenRestore
  <1> QED
    BY <1>6, <1>7, <1>8, <1>9, <1>10, <1>12, <1>13, <1>14, <1>15, <1>16, <1>17 DEF SNext

\* Every saved row stays somewhere, for every step.
LEMMA KeptStep ==
    ASSUME SnapshotInv, SNext PROVE NothingIsLost'
  <1>1. /\ file \in [Forgets -> FileType] /\ saved \subseteq stored \union Captured \union evicted
        /\ \A g \in Forgets : ForgetKnows(g)
    BY DEF SnapshotInv, Shapes, NothingIsLost
  <1>2. Shapes /\ Shapes'
    BY ShapesStep DEF SnapshotInv
  <1> DEFINE NamesStay == \A f \in Forgets : file[f].state = "complete" =>
                            file'[f].state = "complete" /\ file'[f].rows = file[f].rows
  <1>3. ASSUME NamesStay PROVE Captured \subseteq Captured'
    BY <1>2, <1>3, CapturedStays
  <1>4. CASE \E r \in Rows : Remember(r)
    <2>1. Captured \subseteq Captured'
      BY <1>3, <1>4 DEF Remember
    <2> QED
      BY <1>1, <1>4, <2>1 DEF Remember, NothingIsLost
  <1>5. ASSUME NEW f \in Forgets, Commit(f) \/ CommitUnknown(f) PROVE NothingIsLost'
    <2>1. /\ forget[f].at = "named" /\ stored' = stored \ forget[f].taken
          /\ file' = file /\ saved' = saved /\ evicted' = evicted
      BY <1>5 DEF Commit, CommitUnknown, Delete, KeepSnapshot
    <2>2. forget[f].taken \subseteq Captured
      BY <1>1, <2>1 DEF ForgetKnows, Captured, Named
    <2>3. Captured' = Captured
      BY <2>1 DEF Captured, Named
    <2> QED
      BY <1>1, <2>1, <2>2, <2>3 DEF NothingIsLost
  <1>6. ASSUME NEW f \in Forgets, NEW v \in Forgets, RemoveVictim(f, v) PROVE NothingIsLost'
    <2>1. stored' = stored /\ saved' = saved
      BY <1>6 DEF RemoveVictim
    <2>2. CASE UNCHANGED <<file, evicted>>
      <3>1. Captured' = Captured
        BY <2>2 DEF Captured, Named
      <3> QED
        BY <1>1, <2>1, <2>2, <3>1 DEF NothingIsLost
    <2>3. CASE /\ file' = [file EXCEPT ![v] = NoFile]
               /\ evicted' = evicted \union
                    (file[v].rows \ (stored \union UNION {file[g].rows : g \in Named \ {v}}))
      <3>1. \A g \in Named \ {v} : g \in Named' /\ file'[g].rows = file[g].rows
        BY <1>1, <2>3 DEF Named
      <3>2. ASSUME NEW x \in Captured PROVE x \in stored' \union Captured' \union evicted'
        <4>1. PICK g \in Named : x \in file[g].rows
          BY DEF Captured
        <4>2. CASE \E h \in Named \ {v} : x \in file[h].rows
          BY <3>1, <4>2 DEF Captured
        <4>3. CASE ~\E h \in Named \ {v} : x \in file[h].rows
          <5>1. g = v
            BY <4>1, <4>3
          <5>2. x \notin UNION {file[h].rows : h \in Named \ {v}}
            BY <4>3
          <5> QED
            BY <2>1, <2>3, <4>1, <5>1, <5>2
        <4> QED
          BY <4>2, <4>3
      <3> QED
        BY <1>1, <2>1, <2>3, <3>2 DEF NothingIsLost
    <2> QED
      BY <1>6, <2>2, <2>3 DEF RemoveVictim
  <1>7. ASSUME NEW u \in Restores, RestorePage(u) PROVE NothingIsLost'
    <2> DEFINE page == NextPage(restore[u].left)
    <2>1. stored' = stored \union page /\ evicted' = evicted \ page /\ saved' = saved /\ file' = file
      BY <1>7 DEF RestorePage
    <2> HIDE DEF page
    <2>2. Captured' = Captured
      BY <2>1 DEF Captured, Named
    <2> QED
      BY <1>1, <2>1, <2>2 DEF NothingIsLost
  \* The other steps neither save, delete nor evict.
  <1>8. ASSUME stored' = stored, saved' = saved, evicted' = evicted, NamesStay PROVE NothingIsLost'
    BY <1>1, <1>3, <1>8 DEF NothingIsLost
  <1>9. ASSUME NEW f \in Forgets, NEW now \in Times, BeginForget(f, now) PROVE NothingIsLost'
    <2>1. NamesStay
      BY <1>1, <1>9 DEF BeginForget, IsNext, ForgetKnows
    <2> QED
      BY <1>8, <1>9, <2>1 DEF BeginForget
  <1>10. ASSUME NEW f \in Forgets, CapturePage(f) PROVE NothingIsLost'
    <2>1. NamesStay
      BY <1>1, <1>10 DEF CapturePage, ForgetKnows
    <2> QED
      BY <1>8, <1>10, <2>1 DEF CapturePage
  <1>11. ASSUME NEW f \in Forgets, Finish(f) PROVE NothingIsLost'
    <2>1. NamesStay
      BY <1>1, <1>11 DEF Finish, ForgetKnows
    <2> QED
      BY <1>8, <1>11, <2>1 DEF Finish
  <1>12. ASSUME NEW f \in Forgets, Fail(f) PROVE NothingIsLost'
    <2>1. NamesStay
      BY <1>1, <1>12 DEF Fail, DropWriter
    <2> QED
      BY <1>8, <1>12, <2>1 DEF Fail
  <1>13. CASE /\ UNCHANGED <<stored, file, saved, evicted>>
    BY <1>8, <1>13
  <1> QED
    BY <1>4, <1>5, <1>6, <1>7, <1>9, <1>10, <1>11, <1>12, <1>13
       DEF SNext, BeginDelete, Return, Prune, OpenRestore, EndRestore, Crash

-----------------------------------------------------------------------------

\* The inductive invariant: the lock, the files and what their forgets have
\* taken fit together after every step.
THEOREM SnapshotInvariant == SSpec => []SnapshotInv
  <1>1. SnapshotInv /\ [SNext]_svars => SnapshotInv'
    <2>1. SnapshotInv /\ SNext => SnapshotInv'
      BY ShapesStep, ForgetsStep, KeptStep DEF SnapshotInv
    <2>2. SnapshotInv /\ UNCHANGED svars => SnapshotInv'
      BY DEF svars, SnapshotInv, Shapes, ForgetKnows, Busy, NothingIsLost, Captured, Named
    <2> QED
      BY <2>1, <2>2
  <1> QED
    BY <1>1, SnapshotsStart, PTL DEF SSpec

\* No memory is deleted without a copy: whatever was ever saved is in the
\* database, in a snapshot that has its name, or was evicted by retention
\* (forget_entity_bounded: "Fail closed").
THEOREM NoRowIsLost == SSpec => []NothingIsLost
  <1>1. SnapshotInv => NothingIsLost
    BY DEF SnapshotInv
  <1> QED
    BY <1>1, SnapshotInvariant, PTL

\* From its commit until it returns, the snapshot of a forget is in the
\* directory, whatever the clock says and whoever else prunes
\* (prune_namespace_dir_with protects it, namespace_lock keeps others out).
THEOREM ForgetKeepsItsSnapshot ==
    SSpec => [](\A f \in Forgets : forget[f].at \in {"committed", "prune"} => f \in Named)
  <1>1. SnapshotInv => \A f \in Forgets : forget[f].at \in {"committed", "prune"} => f \in Named
    BY DEF SnapshotInv, ForgetKnows, Named
  <1> QED
    BY <1>1, SnapshotInvariant, PTL

-----------------------------------------------------------------------------
(* What a restore has read is written, is still to be written, or was      *)
(* deleted again.                                                          *)

RestoreKnows(u) ==
    restore[u].at \in {"write", "restored"} =>
        /\ restore[u].rows \subseteq stored \union restore[u].left \union restore[u].deleted
        /\ restore[u].at = "restored" => restore[u].left = {}

RestoreInv == \A u \in Restores : RestoreKnows(u)

LEMMA RestoresStep ==
    ASSUME SnapshotInv, RestoreInv, [SNext]_svars
    PROVE  RestoreInv'
  <1>1. restore \in [Restores -> RestoreType] /\ \A u \in Restores : RestoreKnows(u)
    BY DEF SnapshotInv, Shapes, RestoreInv
  \* The others, in a step of u that deletes nothing.
  <1>2. ASSUME NEW w \in Restores, restore'[w] = restore[w], stored \subseteq stored'
        PROVE  RestoreKnows(w)'
    BY <1>1, <1>2 DEF RestoreKnows
  <1>3. CASE \E r \in Rows : Remember(r)
    BY <1>2, <1>3 DEF Remember, RestoreInv
  <1>4. ASSUME NEW f \in Forgets, Delete(f)
        PROVE  RestoreInv'
    <2> SUFFICES ASSUME NEW w \in Restores PROVE RestoreKnows(w)'
      BY DEF RestoreInv
    <2>1. /\ restore'[w].at = restore[w].at /\ restore'[w].rows = restore[w].rows
          /\ restore'[w].left = restore[w].left
          /\ restore'[w].deleted = restore[w].deleted \union forget[f].taken
      BY <1>1, <1>4 DEF Delete, RestoreType
    <2>2. stored' = stored \ forget[f].taken
      BY <1>4 DEF Delete
    <2> QED
      BY <1>1, <2>1, <2>2 DEF RestoreKnows
  <1>5. ASSUME NEW u \in Restores, NEW f \in Forgets, OpenRestore(u, f)
        PROVE  RestoreInv'
    <2>1. /\ restore'[u].at = "write" /\ restore'[u].rows = restore'[u].left /\ stored' = stored
          /\ \A w \in Restores : w # u => restore'[w] = restore[w]
      BY <1>1, <1>5 DEF OpenRestore
    <2>2. RestoreKnows(u)'
      BY <2>1 DEF RestoreKnows
    <2> QED
      BY <1>2, <2>1, <2>2 DEF RestoreInv
  <1>6. ASSUME NEW u \in Restores, RestorePage(u)
        PROVE  RestoreInv'
    <2> DEFINE page == First(PageRows, restore[u].left)
    <2>1. /\ restore' = [restore EXCEPT ![u].left = @ \ page, ![u].deleted = @ \ page]
          /\ stored' = stored \union page
      BY <1>6 DEF RestorePage, NextPage
    <2> HIDE DEF page
    <2>2. /\ restore'[u].at = restore[u].at /\ restore'[u].rows = restore[u].rows
          /\ restore'[u].left = restore[u].left \ page /\ restore'[u].deleted = restore[u].deleted \ page
          /\ \A w \in Restores : w # u => restore'[w] = restore[w]
      BY <1>1, <2>1 DEF RestoreType
    <2>3. RestoreKnows(u)'
      BY <1>1, <2>1, <2>2 DEF RestoreKnows
    <2> QED
      BY <1>2, <2>1, <2>2, <2>3 DEF RestoreInv
  <1>7. ASSUME NEW u \in Restores, EndRestore(u)
        PROVE  RestoreInv'
    <2>1. /\ restore[u].at = "write" /\ stored' = stored
          /\ \A w \in Restores : w # u => restore'[w] = restore[w]
      BY <1>1, <1>7 DEF EndRestore
    <2>2. CASE restore[u].left = {}
      <3>1. /\ restore'[u].rows = restore[u].rows /\ restore'[u].left = {}
            /\ restore'[u].deleted = restore[u].deleted
        <4>1. restore' = [restore EXCEPT ![u] = [restore[u] EXCEPT !.at = "restored"]]
          BY <1>7, <2>2 DEF EndRestore
        <4>2. restore[u] \in RestoreType /\ restore'[u] = [restore[u] EXCEPT !.at = "restored"]
          BY <1>1, <4>1
        <4> QED
          BY <2>2, <4>2 DEF RestoreType
      <3>2. RestoreKnows(u)'
        <4>1. restore[u].rows \subseteq stored \union restore[u].deleted
          BY <1>1, <2>1, <2>2 DEF RestoreKnows
        <4>2. restore'[u].rows \subseteq stored' \union restore'[u].left \union restore'[u].deleted
          BY <2>1, <3>1, <4>1
        <4> QED
          BY <3>1, <4>2 DEF RestoreKnows
      <3> QED
        BY <1>2, <2>1, <3>2 DEF RestoreInv
    <2>3. CASE restore[u].left # {}
      <3>1. restore'[u].at = "idle"
        BY <1>1, <1>7, <2>3 DEF EndRestore, Closed0
      <3>2. RestoreKnows(u)'
        BY <3>1 DEF RestoreKnows
      <3> QED
        BY <1>2, <2>1, <3>2 DEF RestoreInv
    <2> QED
      BY <2>2, <2>3
  <1>8. CASE Crash
    <2>1. \A u \in Restores : restore'[u].at = "idle"
      BY <1>8 DEF Crash, Closed0
    <2> QED
      BY <2>1 DEF RestoreInv, RestoreKnows
  <1>9. CASE UNCHANGED <<stored, restore>>
    BY <1>2, <1>9 DEF RestoreInv
  <1> QED
    BY <1>3, <1>4, <1>5, <1>6, <1>7, <1>8, <1>9
       DEF SNext, svars, BeginDelete, CapturePage, Finish, Fail, Commit, CommitUnknown, Return,
           BeginForget, Prune, RemoveVictim

\* A restore that reports success has written every row of its file, whatever
\* is forgotten meanwhile and however its pages fall (restore_file).
THEOREM RestoresAreComplete == SSpec => []RestoreIsComplete
  <1>1. SInit => RestoreInv
    BY DEF SInit, RestoreInv, RestoreKnows, Closed0
  <1>2. RestoreInv => RestoreIsComplete
    BY DEF RestoreInv, RestoreKnows, RestoreIsComplete
  <1> QED
    BY <1>1, <1>2, RestoresStep, SnapshotInvariant, PTL DEF SSpec

-----------------------------------------------------------------------------
(* Nothing is saved between the last page of a forget and its commit.      *)

Emptied == \A f \in Forgets : forget[f].at = "named" => stored \subseteq forget[f].taken

LEMMA EmptiedStep ==
    ASSUME SnapshotInv, Emptied, [SNext]_svars
    PROVE  Emptied'
  <1>1. /\ forget \in [Forgets -> ForgetType]
        /\ \A f \in Forgets : forget[f].at = "named" => stored \subseteq forget[f].taken
    BY DEF SnapshotInv, Shapes, Emptied
  <1>2. CASE ~InTransaction /\ UNCHANGED forget
    BY <1>2 DEF Emptied, InTransaction
  \* Rows are deleted or stay, and no forget has come to the end of its pages.
  <1>3. ASSUME stored' \subseteq stored,
               \A f \in Forgets : forget'[f].at = "named" =>
                    forget[f].at = "named" /\ forget'[f].taken = forget[f].taken
        PROVE  Emptied'
    BY <1>1, <1>3 DEF Emptied
  <1>4. ASSUME NEW f \in Forgets, CapturePage(f)
        PROVE  Emptied'
    BY <1>1, <1>3, <1>4 DEF CapturePage, ForgetType
  <1>5. ASSUME NEW f \in Forgets, Finish(f)
        PROVE  Emptied'
    <2>1. /\ stored' = stored /\ stored \subseteq forget[f].taken
          /\ forget' = [forget EXCEPT ![f].at = "named"]
      BY <1>5 DEF Finish, PagesEnd, Left, Goto
    <2> QED
      BY <1>1, <2>1 DEF Emptied, ForgetType
  <1>6. ASSUME NEW f \in Forgets, End(f) \/ Goto(f, "begin") \/ Goto(f, "delete") \/ Goto(f, "committed"),
               stored' \subseteq stored
        PROVE  Emptied'
    BY <1>1, <1>3, <1>6 DEF End, Goto, Gone, Fresh0, ForgetType
  <1>7. ASSUME NEW f \in Forgets, NEW now \in Times, Prune(f, now)
        PROVE  Emptied'
    BY <1>1, <1>3, <1>7 DEF Prune, ForgetType
  <1>8. ASSUME NEW f \in Forgets, NEW v \in Forgets, RemoveVictim(f, v)
        PROVE  Emptied'
    BY <1>1, <1>3, <1>8 DEF RemoveVictim, ForgetType
  <1>9. CASE Crash
    BY <1>1, <1>3, <1>9 DEF Crash, Fresh0, Gone
  <1>10. CASE UNCHANGED <<stored, forget>>
    BY <1>3, <1>10
  <1> QED
    BY <1>2, <1>4, <1>5, <1>6, <1>7, <1>8, <1>9, <1>10
       DEF SNext, svars, BeginDelete, Fail, Commit, CommitUnknown, Return, Delete,
           BeginForget, Remember, OpenRestore, RestorePage, EndRestore

\* A forget that commits leaves nothing of the entity, whatever is saved,
\* restored or forgotten while it takes the pages
\* (delete_memories_by_entity_paged in its transaction).
THEOREM CommitsTakeAll == SSpec => ForgetTakesAll
  <1> DEFINE All == \A f \in Forgets :
                        forget[f].at = "named" /\ forget'[f].at = "committed" => stored' = {}
  <1>1. SInit => Emptied
    BY DEF SInit, Emptied, Fresh0
  <1>2. ASSUME SnapshotInv, Emptied, SNext
        PROVE  All
    <2> SUFFICES ASSUME NEW f \in Forgets, forget[f].at = "named", forget'[f].at = "committed"
                 PROVE  stored' = {}
      OBVIOUS
    <2>1. forget \in [Forgets -> ForgetType]
      BY <1>2 DEF SnapshotInv, Shapes
    <2>2. \A g \in Forgets, now \in Times : ~BeginForget(g, now) /\ ~Prune(g, now)
      BY <2>1 DEF BeginForget, IsNext, Goto, Prune, ForgetType
    <2>3. \A g \in Forgets : /\ ~BeginDelete(g) /\ ~CapturePage(g) /\ ~Finish(g)
                              /\ \A v \in Forgets : ~RemoveVictim(g, v)
      BY <2>1 DEF BeginDelete, CapturePage, Finish, RemoveVictim, Goto, ForgetType
    <2>4. \A g \in Forgets : ~End(g)
      BY <2>1 DEF End, Gone, Fresh0
    <2>5. ~Crash /\ forget' # forget
      BY <2>1 DEF Crash, Fresh0, Gone
    <2>6. PICK g \in Forgets : Commit(g)
      BY <1>2, <2>2, <2>3, <2>4, <2>5
         DEF SNext, Fail, CommitUnknown, Return, Remember, OpenRestore, RestorePage, EndRestore
    <2>7. g = f
      BY <2>1, <2>4, <2>6 DEF Commit, Goto
    <2> QED
      BY <1>2, <2>6, <2>7 DEF Emptied, Commit, Delete
  <1>3. SnapshotInv /\ Emptied /\ [SNext]_svars => [All]_svars
    BY <1>2
  <1>4. SSpec => [][All]_svars
    BY <1>1, <1>3, EmptiedStep, SnapshotInvariant, PTL DEF SSpec
  <1> QED
    BY <1>4, PTL DEF ForgetTakesAll

-----------------------------------------------------------------------------
(* What retention leaves.                                                  *)

\* The oldest of some files, their own apart, is before all others of them.
LEMMA OldestFirst ==
    ASSUME Shapes, NEW own \in Forgets, NEW K \in SUBSET Forgets, K \ {own} # {}
    PROVE  \E m \in K \ {own} : \A g \in K \ {m} : Before(own, m, g)
  <1>1. \A f \in Forgets : file[f].at \in Nat /\ f \in Nat
    <2>1. Times \union {0} \subseteq Nat /\ Forgets \subseteq Nat
      BY SnapshotAssumption
    <2>2. \A f \in Forgets : file[f].at \in Times \union {0}
      BY DEF Shapes, FileType
    <2> QED
      BY <2>1, <2>2
  <1> DEFINE T == {file[f].at : f \in K \ {own}}
  <1>2. T \in SUBSET Nat /\ T # {}
    BY <1>1
  <1>3. PICK a \in T : \A b \in T : a <= b
    BY <1>2, LeastNat
  <1> DEFINE F == {f \in K \ {own} : file[f].at = a}
  <1>4. F \in SUBSET Nat /\ F # {}
    BY <1>1, <1>3
  <1>5. PICK m \in F : \A f \in F : m <= f
    BY <1>4, LeastNat
  <1>6. ASSUME NEW g \in K \ {m} PROVE Before(own, m, g)
    <2>1. CASE g = own
      BY <1>5, <2>1 DEF Before
    <2>2. CASE g # own
      <3>1. a <= file[g].at /\ a \in Nat /\ m \in Nat /\ g \in Nat /\ file[g].at \in Nat /\ file[m].at = a
        BY <1>1, <1>2, <1>3, <1>5, <2>2
      <3>2. CASE file[g].at = a
        <4>1. m <= g
          BY <1>5, <2>2, <3>2
        <4> QED
          BY <1>5, <2>2, <3>1, <3>2, <4>1 DEF Before
      <3>3. CASE file[g].at # a
        BY <1>5, <2>2, <3>1, <3>3 DEF Before
      <3> QED
        BY <3>2, <3>3
    <2> QED
      BY <2>1, <2>2
  <1> QED
    BY <1>5, <1>6

\* What is not a victim is no more than the policy allows.
LEMMA FewAreKept ==
    ASSUME Shapes, IsFiniteSet(Named), NEW own \in Named, NEW now
    PROVE  Cardinality(Named \ Victims(own, now)) <= MaxFiles
  <1> DEFINE S == {f \in Named : f = own \/ file[f].at >= now - MaxAge}
             newer(f) == {g \in S : Before(own, f, g)}
             K == {f \in S : f = own \/ ~(Cardinality(newer(f)) >= MaxFiles)}
  <1>1. Named \ Victims(own, now) = K
    BY DEF Victims
  <1>2. /\ IsFiniteSet(S) /\ IsFiniteSet(K) /\ K \in SUBSET Forgets
        /\ \A f : IsFiniteSet(newer(f)) /\ Cardinality(newer(f)) \in Nat
    <2>1. IsFiniteSet(S)
      BY FS_Subset
    <2>2. K \subseteq S /\ \A f : newer(f) \subseteq S
      OBVIOUS
    <2>3. S \subseteq Forgets
      BY DEF Named
    <2> HIDE DEF S, K, newer
    <2> QED
      BY <2>1, <2>2, <2>3, FS_Subset, FS_CardinalityType
  <1>3. MaxFiles \in Nat \ {0}
    BY SnapshotAssumption
  <1>4. CASE K \ {own} = {}
    <2>1. K \subseteq {own}
      BY <1>4
    <2> HIDE DEF K
    <2>2. Cardinality(K) <= Cardinality({own}) /\ Cardinality({own}) = 1 /\ Cardinality(K) \in Nat
      BY <1>2, <2>1, FS_Singleton, FS_Subset, FS_CardinalityType
    <2> QED
      BY <1>1, <1>3, <2>2
  <1>5. CASE K \ {own} # {}
    <2>1. PICK m \in K \ {own} : \A g \in K \ {m} : Before(own, m, g)
      <3>1. own \in Forgets
        BY DEF Named
      <3> HIDE DEF K
      <3> QED
        BY <1>2, <1>5, <3>1, OldestFirst
    <2>2. K \ {m} \subseteq newer(m) /\ ~(Cardinality(newer(m)) >= MaxFiles)
      BY <2>1
    <2> HIDE DEF K, newer, S
    <2>3. Cardinality(K \ {m}) <= Cardinality(newer(m)) /\ Cardinality(newer(m)) \in Nat
      BY <1>2, <2>2, FS_Subset
    <2>4. Cardinality(K \ {m}) = Cardinality(K) - 1 /\ Cardinality(K) \in Nat
      BY <1>2, <2>1, FS_RemoveElement, FS_CardinalityType
    <2>5. MaxFiles \in Nat
      BY <1>3
    <2>6. Cardinality(K) <= MaxFiles
      BY <2>2, <2>3, <2>4, <2>5
    <2> QED
      BY <1>1, <2>6
  <1> QED
    BY <1>4, <1>5

\* A forget that has pruned without a warning has only its victims left to
\* remove; and there are finitely many files, since each has had its forget.
HasPruned(f) ==
    forget[f].at = "prune" /\ ~forget[f].warned =>
        Cardinality(Named \ forget[f].victims) <= MaxFiles

RetentionInv == IsFiniteSet(Named) /\ \A f \in Forgets : HasPruned(f)

LEMMA RetentionStep ==
    ASSUME SnapshotInv, SnapshotInv', RetentionInv, [SNext]_svars
    PROVE  RetentionInv'
  <1>1. /\ file \in [Forgets -> FileType] /\ forget \in [Forgets -> ForgetType]
        /\ \A g \in Forgets : ForgetKnows(g)
        /\ IsFiniteSet(Named) /\ \A g \in Forgets : HasPruned(g)
    BY DEF SnapshotInv, Shapes, RetentionInv
  <1>2. \A g \in Forgets : file[g] \in FileType /\ forget[g] \in ForgetType
    BY <1>1
  \* Nobody begins to prune, and what has its name stays.
  <1>3. ASSUME Named' = Named,
               \A g \in Forgets : forget'[g].at = "prune" => forget'[g] = forget[g]
        PROVE  RetentionInv'
    BY <1>1, <1>3 DEF RetentionInv, HasPruned
  \* While a forget prunes, no other is under way.
  <1>4. ASSUME NEW f \in Forgets, Busy(f), forget'[f].at # "prune", IsFiniteSet(Named'),
               \A g \in Forgets : g # f => forget'[g] = forget[g]
        PROVE  RetentionInv'
    <2>1. ASSUME NEW g \in Forgets PROVE forget'[g].at # "prune"
      BY <1>1, <1>4 DEF ForgetKnows, Busy
    <2> QED
      BY <1>4, <2>1 DEF RetentionInv, HasPruned
  <1>5. ASSUME NEW f \in Forgets, NEW now \in Times, BeginForget(f, now)
        PROVE  RetentionInv'
    <2>1. file' = [file EXCEPT ![f].at = now] /\ forget' = [forget EXCEPT ![f].at = "begin"]
      BY <1>5 DEF BeginForget, Goto
    <2>2. \A g \in Forgets : file'[g].state = file[g].state
      BY <1>1, <1>2, <2>1 DEF FileType
    <2>3. Named' = Named
      BY <2>2 DEF Named
    <2>4. \A g \in Forgets : forget'[g].at = "prune" => forget'[g] = forget[g]
      BY <1>1, <1>2, <2>1 DEF ForgetType
    <2> QED
      BY <1>3, <2>3, <2>4
  <1>6. ASSUME NEW f \in Forgets, NEW now \in Times, Prune(f, now)
        PROVE  RetentionInv'
    <2>1. /\ forget[f].at = "committed" /\ file' = file
          /\ forget' = [forget EXCEPT ![f].at = "prune", ![f].victims = Victims(f, now)]
      BY <1>6 DEF Prune
    <2>2. Named' = Named /\ f \in Named
      BY <1>1, <2>1 DEF Named, ForgetKnows
    <2>3. Cardinality(Named \ Victims(f, now)) <= MaxFiles
      BY <1>1, <2>2, FewAreKept DEF SnapshotInv
    <2>4. forget'[f].victims = Victims(f, now) /\ \A g \in Forgets : g # f => forget'[g] = forget[g]
      BY <1>1, <1>2, <2>1 DEF ForgetType
    <2>5. ASSUME NEW g \in Forgets PROVE HasPruned(g)'
      <3>1. CASE g = f
        BY <2>2, <2>3, <2>4, <3>1 DEF HasPruned
      <3>2. CASE g # f
        BY <1>1, <2>2, <2>4, <3>2 DEF HasPruned
      <3> QED
        BY <3>1, <3>2
    <2> QED
      BY <1>1, <2>2, <2>5 DEF RetentionInv
  <1>7. ASSUME NEW f \in Forgets, NEW v \in Forgets, RemoveVictim(f, v)
        PROVE  RetentionInv'
    <2>1. /\ forget[f].at = "prune" /\ v \in forget[f].victims
          /\ forget'[f].victims = forget[f].victims \ {v}
          /\ \A g \in Forgets : g # f => forget'[g] = forget[g]
      BY <1>1, <1>2, <1>7 DEF RemoveVictim, ForgetType
    <2>2. \A g \in Forgets : g # f => forget'[g].at # "prune"
      BY <1>1, <2>1 DEF ForgetKnows, Busy
    <2>3. CASE file' = [file EXCEPT ![v] = NoFile] /\ forget' = [forget EXCEPT ![f].victims = @ \ {v}]
      <3>1. Named' = Named \ {v}
        BY <1>1, <2>3 DEF Named, NoFile
      <3>2. IsFiniteSet(Named') /\ Named' \ forget'[f].victims = Named \ forget[f].victims
        BY <1>1, <2>1, <3>1, FS_Subset
      <3>3. forget'[f].warned = forget[f].warned
        BY <1>1, <1>2, <2>3 DEF ForgetType
      <3>4. HasPruned(f)'
        BY <1>1, <2>1, <3>2, <3>3 DEF HasPruned
      <3> QED
        BY <2>2, <3>2, <3>4 DEF RetentionInv, HasPruned
    <2>4. CASE forget'[f].warned /\ file' = file
      <3>1. Named' = Named
        BY <2>4 DEF Named
      <3> QED
        BY <1>1, <2>2, <2>4, <3>1 DEF RetentionInv, HasPruned
    <2>5. \/ file' = [file EXCEPT ![v] = NoFile] /\ forget' = [forget EXCEPT ![f].victims = @ \ {v}]
          \/ forget'[f].warned /\ file' = file
      BY <1>1, <1>2, <1>7 DEF RemoveVictim, ForgetType
    <2> QED
      BY <2>3, <2>4, <2>5
  <1>8. ASSUME NEW f \in Forgets, BeginDelete(f) \/ CapturePage(f) \/ Finish(f) \/ Fail(f)
                                    \/ Commit(f) \/ CommitUnknown(f) \/ Return(f)
        PROVE  RetentionInv'
    <2>1. Busy(f)
      BY <1>8 DEF BeginDelete, CapturePage, Finish, Fail, Commit, CommitUnknown, Return, Busy
    <2>2. forget'[f].at # "prune" /\ \A g \in Forgets : g # f => forget'[g] = forget[g]
      BY <1>1, <1>2, <1>8 DEF BeginDelete, CapturePage, Finish, Fail, Commit, CommitUnknown, Return,
                              Goto, End, Gone, Fresh0, ForgetType
    <2>3. \A g \in Forgets : g # f => file'[g] = file[g]
      BY <1>1, <1>8 DEF BeginDelete, CapturePage, Finish, Fail, DropWriter, Commit, CommitUnknown,
                        KeepSnapshot, Return
    <2>4. Named' \subseteq Named \union {f}
      BY <2>3 DEF Named
    <2>5. IsFiniteSet(Named')
      BY <1>1, <2>4, FS_AddElement, FS_Subset
    <2> QED
      BY <1>4, <2>1, <2>2, <2>5
  <1>9. CASE Crash
    <2>1. file' = file /\ \A g \in Forgets : forget'[g].at # "prune"
      BY <1>9 DEF Crash, Fresh0, Gone
    <2>2. Named' = Named
      BY <2>1 DEF Named
    <2> QED
      BY <1>3, <2>1, <2>2
  <1>10. CASE UNCHANGED <<file, forget>>
    BY <1>3, <1>10 DEF Named
  <1> QED
    BY <1>5, <1>6, <1>7, <1>8, <1>9, <1>10
       DEF SNext, svars, Remember, OpenRestore, RestorePage, EndRestore

\* The snapshot of a forget outlives it, and a prune without a warning leaves no
\* more files than the policy allows, however clocks are set and files dated
\* (prune_namespace_dir_with).
THEOREM RetentionAlwaysHolds == SSpec => []RetentionHolds
  <1>1. SInit => RetentionInv
    <2>1. SInit => Named = {} /\ \A f \in Forgets : forget[f].at = "idle"
      BY DEF SInit, Named, NoFile, Fresh0
    <2> QED
      BY <2>1, FS_EmptySet DEF RetentionInv, HasPruned
  <1>2. SnapshotInv /\ RetentionInv => RetentionHolds
    <2> SUFFICES ASSUME SnapshotInv, RetentionInv, NEW f \in Forgets
                 PROVE  /\ forget[f].at \in {"committed", "prune"} => f \in Named
                        /\ forget[f].at = "prune" /\ forget[f].victims = {} /\ ~forget[f].warned =>
                                Cardinality(Named) <= MaxFiles
      BY DEF RetentionHolds
    <2>1. forget[f].victims = {} => Named \ forget[f].victims = Named
      OBVIOUS
    <2> QED
      BY <2>1 DEF SnapshotInv, ForgetKnows, Named, RetentionInv, HasPruned
  <1> QED
    BY <1>1, <1>2, RetentionStep, SnapshotInvariant, PTL DEF SSpec

-----------------------------------------------------------------------------
(* Entities.  The theorems of EntityDataProofs for the backend, the names  *)
(* and the requests of either part.                                        *)

OnPg == INSTANCE EntityDataProofs WITH
        pc <- epc, Postgres <- TRUE, Existing <- {},
        Kinds <- {"remember", "observe", "extract", "forget", "erase"}
OnSqlite == INSTANCE EntityDataProofs WITH
        pc <- epc, Postgres <- FALSE, Existing <- Names,
        Kinds <- {"remember", "observe", "extract", "forget"}


\* A behaviour of the gateway is one of EntityData, on the backend of its part:
\* the other parts leave the entities as they are.
LEMMA EntitiesOnPg == GSpec /\ part # "entities on SQLite" => OnPg!Spec
  <1>1. GInit /\ part # "entities on SQLite" => OnPg!Init
    BY Zenon DEF GInit, Pg!Init, OnPg!Init, Pg!NoRequest, OnPg!NoRequest
  <1>2. Pg!Next => OnPg!Next
    BY Zenon DEF
        Pg!Next, OnPg!Next, Pg!Request, OnPg!Request, Pg!Begin, OnPg!Begin,
        Pg!LookUp, OnPg!LookUp, Pg!CreateEntity, OnPg!CreateEntity,
        Pg!Remember, OnPg!Remember, Pg!Observe, OnPg!Observe, Pg!Fail,
        OnPg!Fail, Pg!LoadMessages, OnPg!LoadMessages, Pg!SaveObservation,
        OnPg!SaveObservation, Pg!Forget, OnPg!Forget, Pg!Erase, OnPg!Erase,
        Pg!Takes, OnPg!Takes, Pg!Goto, OnPg!Goto, Pg!NextName, OnPg!NextName,
        Pg!Resolved, OnPg!Resolved, Pg!SqliteSaveEntity,
        OnPg!SqliteSaveEntity, Pg!PgSaveEntity, OnPg!PgSaveEntity, Pg!Store,
        OnPg!Store, Pg!Messages, OnPg!Messages, Pg!Attached, OnPg!Attached,
        Pg!EraseRows, OnPg!EraseRows, Pg!LegMemories, OnPg!LegMemories,
        Pg!LegObservations, OnPg!LegObservations
  <1>3. part # "entities on SQLite" /\ [GNext]_gvars
            => [OnPg!Next]_OnPg!vars /\ (part # "entities on SQLite")'
    <2>1. UNCHANGED evars => UNCHANGED OnPg!vars
      BY Zenon DEF evars, OnPg!vars
    <2>2. UNCHANGED gvars => UNCHANGED evars /\ UNCHANGED part
      BY Zenon DEF gvars
    <2> QED
      BY <1>2, <2>1, <2>2, Zenon DEF GNext
  <1> QED
    BY <1>1, <1>3, PTL DEF GSpec, OnPg!Spec

LEMMA EntitiesOnSqlite == GSpec /\ part = "entities on SQLite" => OnSqlite!Spec
  <1>1. GInit /\ part = "entities on SQLite" => OnSqlite!Init
    BY Zenon DEF GInit, Sqlite!Init, OnSqlite!Init, Sqlite!NoRequest, OnSqlite!NoRequest
  <1>2. Sqlite!Next => OnSqlite!Next
    BY Zenon DEF
        Sqlite!Next, OnSqlite!Next, Sqlite!Request, OnSqlite!Request,
        Sqlite!Begin, OnSqlite!Begin, Sqlite!LookUp, OnSqlite!LookUp,
        Sqlite!CreateEntity, OnSqlite!CreateEntity, Sqlite!Remember,
        OnSqlite!Remember, Sqlite!Observe, OnSqlite!Observe, Sqlite!Fail,
        OnSqlite!Fail, Sqlite!LoadMessages, OnSqlite!LoadMessages,
        Sqlite!SaveObservation, OnSqlite!SaveObservation, Sqlite!Forget,
        OnSqlite!Forget, Sqlite!Erase, OnSqlite!Erase, Sqlite!Takes,
        OnSqlite!Takes, Sqlite!Goto, OnSqlite!Goto, Sqlite!NextName,
        OnSqlite!NextName, Sqlite!Resolved, OnSqlite!Resolved,
        Sqlite!SqliteSaveEntity, OnSqlite!SqliteSaveEntity,
        Sqlite!PgSaveEntity, OnSqlite!PgSaveEntity, Sqlite!Store,
        OnSqlite!Store, Sqlite!Messages, OnSqlite!Messages, Sqlite!Attached,
        OnSqlite!Attached, Sqlite!EraseRows, OnSqlite!EraseRows,
        Sqlite!LegMemories, OnSqlite!LegMemories, Sqlite!LegObservations,
        OnSqlite!LegObservations
  <1>3. part = "entities on SQLite" /\ [GNext]_gvars
            => [OnSqlite!Next]_OnSqlite!vars /\ (part = "entities on SQLite")'
    <2>1. UNCHANGED evars => UNCHANGED OnSqlite!vars
      BY Zenon DEF evars, OnSqlite!vars
    <2>2. UNCHANGED gvars => UNCHANGED evars /\ UNCHANGED part
      BY Zenon DEF gvars
    <2>3. "entities on SQLite" # "entities on PostgreSQL"
      OBVIOUS
    <2> QED
      BY <1>2, <2>1, <2>2, <2>3, Zenon DEF GNext
  <1> QED
    BY <1>1, <1>3, PTL DEF GSpec, OnSqlite!Spec

\* Both are configurations in which names are stable.
LEMMA StableConditions ==
    /\ OnPg!StableNames /\ None \notin OnPg!Ids
    /\ OnSqlite!StableNames /\ None \notin OnSqlite!Ids
  <1>1. OnPg!StableNames /\ OnSqlite!StableNames
    BY DEF OnPg!StableNames, OnSqlite!StableNames
  <1>2. None \notin OnPg!Ids /\ None \notin OnSqlite!Ids
    BY EntitiesAssumption, Zenon DEF Pg!Ids, OnPg!Ids, OnSqlite!Ids
  <1> QED
    BY <1>1, <1>2

\* A request works with the id its name has, unless the entity was erased
\* meanwhile (get_or_create_entity, save_entity, erase_entity_bounded).
THEOREM EntityNamesAreStable == GSpec => []NamesAreStable
  <1>1. OnPg!Spec => []OnPg!NamesAreStable
    BY StableConditions, OnPg!NamesAreAlwaysStable
  <1>2. OnSqlite!Spec => []OnSqlite!NamesAreStable
    BY StableConditions, OnSqlite!NamesAreAlwaysStable
  <1>3. (OnPg!NamesAreStable => NamesAreStable) /\ (OnSqlite!NamesAreStable => NamesAreStable)
    BY Zenon DEF NamesAreStable, Pg!NamesAreStable, OnPg!NamesAreStable, OnSqlite!NamesAreStable
  <1>4. part # "entities on SQLite" \/ part = "entities on SQLite"
    OBVIOUS
  <1> QED
    BY <1>1, <1>2, <1>3, <1>4, EntitiesOnPg, EntitiesOnSqlite, PTL

\* What a forget or an erase leaves of the memories about its entity are those
\* of requests caught by an erasure between their lookup and their write.
THEOREM EntityForgetsLeaveTheErased == GSpec => []LeftIsOfTheErased
  <1>1. OnPg!Spec => []OnPg!LeftIsOfTheErased
    BY StableConditions, OnPg!OnlyTheErasedIsLeft
  <1>2. OnSqlite!Spec => []OnSqlite!LeftIsOfTheErased
    BY StableConditions, OnSqlite!OnlyTheErasedIsLeft
  <1>3. /\ OnPg!LeftIsOfTheErased => LeftIsOfTheErased
        /\ OnSqlite!LeftIsOfTheErased => LeftIsOfTheErased
    BY Zenon DEF
        LeftIsOfTheErased, Pg!LeftIsOfTheErased, OnPg!LeftIsOfTheErased,
        OnSqlite!LeftIsOfTheErased, Pg!Done, OnPg!Done, OnSqlite!Done,
        Pg!Left, OnPg!Left, OnSqlite!Left
  <1>4. part # "entities on SQLite" \/ part = "entities on SQLite"
    OBVIOUS
  <1> QED
    BY <1>1, <1>2, <1>3, <1>4, EntitiesOnPg, EntitiesOnSqlite, PTL

\* Where nobody forgets, an erase leaves no observation of an episode whose
\* messages it deletes.
THEOREM EntityObservationsAlwaysGo == GSpec => []ObservationsGoWithMessages
  <1>1. OnPg!Spec => []OnPg!ObservationsGoWithMessages
    BY StableConditions, OnPg!ObservationsAlwaysGo
  <1>2. OnSqlite!Spec => []OnSqlite!ObservationsGoWithMessages
    BY StableConditions, OnSqlite!ObservationsAlwaysGo
  <1>3. /\ OnPg!ObservationsGoWithMessages => ObservationsGoWithMessages
        /\ OnSqlite!ObservationsGoWithMessages => ObservationsGoWithMessages
    BY Zenon DEF
        ObservationsGoWithMessages, Pg!ObservationsGoWithMessages,
        OnPg!ObservationsGoWithMessages, OnSqlite!ObservationsGoWithMessages,
        Pg!Done, OnPg!Done, OnSqlite!Done, Pg!Left, OnPg!Left, OnSqlite!Left
  <1>4. part # "entities on SQLite" \/ part = "entities on SQLite"
    OBVIOUS
  <1> QED
    BY <1>1, <1>2, <1>3, <1>4, EntitiesOnPg, EntitiesOnSqlite, PTL
=============================================================================
