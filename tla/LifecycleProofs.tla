--------------------------- MODULE LifecycleProofs ---------------------------
(***************************************************************************)
(* An active namespace is fully covered by the one generation that is      *)
(* read, and a migration forgets no source, for any number of sources,     *)
(* spaces and backfill workers.  On PostgreSQL a transaction does with its *)
(* commit what its operation does at once, for any number of connections,  *)
(* so the same holds there, and a search is complete.                      *)
(***************************************************************************)
EXTENDS PostgresLifecycle, TLAPS

\* What a write of m leaves of the vectors: the given spaces and those that
\* had this text have it, all others lose m, and no other source is touched.
LEMMA VectorsAfterWriteFacts ==
    ASSUME TypeOK, NEW m \in Memories, NEW h \in Hashes, NEW given \in SUBSET Spaces
    PROVE  LET v == VectorsAfterWrite(m, h, given)
           IN  /\ v \in [Spaces -> [Memories -> Hashes \cup {NoHash}]]
               /\ \A s \in Spaces : v[s][m] = IF s \in given \/ vec[s][m] = h THEN h ELSE NoHash
               /\ \A s \in Spaces, o \in Memories : o # m => v[s][o] = vec[s][o]
  BY DEF VectorsAfterWrite, TypeOK

\* Reconciling touches the queue and the phase only, and leaves "ready".
LEMMA ReconcileFacts ==
    ASSUME TypeOK, NEW m \in Memories, NEW h \in Hashes, Reconcile(m, h)
    PROVE  /\ queue' \subseteq Rows
           /\ phase' = IF phase = "ready" THEN "backfilling" ELSE phase
  <1>1. ASSUME Requeue(queue, m, h) PROVE queue' \subseteq Rows
    BY <1>1 DEF Requeue, Rows, TypeOK
  <1>2. CASE phase \in {"backfilling", "ready"}
    BY <1>1, <1>2 DEF Reconcile
  <1>3. CASE phase \notin {"backfilling", "ready"}
    BY <1>3 DEF Reconcile, TypeOK
  <1> QED
    BY <1>2, <1>3 DEF Reconcile

\* The heart of the argument: a write that is live afterwards and happened in
\* an active namespace left the active vector of m in place, and every other
\* live source kept its text and its vector.
LEMMA WriteKeepsActiveCoverage ==
    ASSUME ActiveCoverage, NEW m \in Memories,
           phase' = "active" => phase = "active" /\ active' = active,
           phase' = "active" /\ m \notin superseded' => vec'[active][m] = content'[m],
           \A o \in Memories \ {m} :
               o \notin superseded' => /\ o \notin superseded
                                      /\ content'[o] = content[o]
                                      /\ \A t \in Spaces : vec'[t][o] = vec[t][o]
    PROVE  ActiveCoverage'
  <1> SUFFICES ASSUME phase' = "active"
               PROVE  active' \in Spaces /\ \A o \in LiveSources' : vec'[active'][o] = content'[o]
    BY DEF ActiveCoverage, Covered
  <1>1. phase = "active" /\ active' = active /\ active \in Spaces
    BY DEF ActiveCoverage
  <1>2. ASSUME NEW o \in LiveSources' PROVE vec'[active][o] = content'[o]
    <2>1. o \in Memories /\ o \notin superseded' /\ content'[o] # NoHash
      BY <1>2 DEF LiveSources, Live
    <2>2. CASE o = m
      BY <2>1, <2>2
    <2>3. CASE o # m
      <3>1. /\ o \notin superseded /\ content'[o] = content[o]
            /\ vec'[active][o] = vec[active][o]
        BY <1>1, <2>1, <2>3
      <3>2. o \in LiveSources
        BY <2>1, <3>1 DEF LiveSources, Live
      <3>3. vec[active][o] = content[o]
        BY <1>1, <3>2 DEF ActiveCoverage, Covered
      <3> QED
        BY <3>1, <3>3
    <2> QED
      BY <2>2, <2>3
  <1> QED
    BY <1>1, <1>2

\* save_memory_with_embedding
LEMMA SaveMemoryKeepsInv ==
    ASSUME LifecycleInv, NEW m \in Memories, NEW h \in Hashes,
           NEW s \in Spaces \cup {NoSpace}, SaveMemory(m, h, s)
    PROVE  LifecycleInv'
  <1> DEFINE given == {s} \ {NoSpace}
  <1>0. TypeOK /\ PointersAgree /\ given \in SUBSET Spaces
    BY LifecycleAssumption DEF LifecycleInv
  <1>1. /\ vec' \in [Spaces -> [Memories -> Hashes \cup {NoHash}]]
        /\ \A t \in Spaces : vec'[t][m] = IF t \in given \/ vec[t][m] = h THEN h ELSE NoHash
        /\ \A t \in Spaces, o \in Memories : o # m => vec'[t][o] = vec[t][o]
    BY <1>0, VectorsAfterWriteFacts DEF SaveMemory
  <1>2. /\ content' \in [Memories -> Hashes \cup {NoHash}]
        /\ content'[m] = h
        /\ \A o \in Memories : o # m => content'[o] = content[o]
        /\ superseded' = superseded \ {m}
    BY <1>0 DEF SaveMemory, TypeOK
  <1>3. NoStaleVector'
    BY <1>1, <1>2 DEF LifecycleInv, NoStaleVector, Covered
  <1>4. CASE ActivatesOnWrite(m, s)
    <2>1. /\ phase' = "active" /\ active' = s /\ s \in Spaces
          /\ UNCHANGED <<target, barrier, queue, job>>
      BY <1>4 DEF SaveMemory, ActivatesOnWrite
    <2>2. TypeOK' /\ PointersAgree'
      BY <1>0, <1>1, <1>2, <2>1 DEF TypeOK, PointersAgree
    <2>3. ActiveCoverage'
      BY <1>0, <1>1, <1>2, <1>4, <2>1
      DEF ActiveCoverage, ActivatesOnWrite, LiveSources, Live, Covered
    <2>4. ReadyIsCovered'
      BY <2>1 DEF ReadyIsCovered
    <2> QED
      BY <1>3, <2>2, <2>3, <2>4 DEF LifecycleInv
  <1>5. CASE ~ActivatesOnWrite(m, s)
    <2>1. Reconcile(m, h) /\ UNCHANGED <<active, target, barrier, job>>
      BY <1>5 DEF SaveMemory
    <2>2. /\ queue' \subseteq Rows
          /\ phase' = IF phase = "ready" THEN "backfilling" ELSE phase
      BY <1>0, <2>1, ReconcileFacts
    <2>3. TypeOK' /\ PointersAgree'
      BY <1>0, <1>1, <1>2, <2>1, <2>2 DEF TypeOK, PointersAgree
    <2>4. ActiveCoverage'
      <3>1. phase = "active" => active \in Spaces /\ vec'[active][m] = h
        BY <1>0, <1>1, LifecycleAssumption DEF SaveMemory, AllowsWrite, PointersAgree
      <3> QED
        BY <1>1, <1>2, <2>1, <2>2, <3>1, WriteKeepsActiveCoverage DEF LifecycleInv
    <2>5. ReadyIsCovered'
      BY <2>2 DEF ReadyIsCovered
    <2> QED
      BY <1>3, <2>3, <2>4, <2>5 DEF LifecycleInv
  <1> QED
    BY <1>4, <1>5

\* save_superseding_memory_with_embedding
LEMMA SaveSupersedingKeepsInv ==
    ASSUME LifecycleInv, NEW old \in Memories, NEW m \in Memories, NEW h \in Hashes,
           NEW s \in Spaces \cup {NoSpace}, SaveSuperseding(old, m, h, s)
    PROVE  LifecycleInv'
  <1> DEFINE given == {s} \ {NoSpace}
             v == VectorsAfterWrite(m, h, given)
  <1>0. TypeOK /\ PointersAgree /\ given \in SUBSET Spaces /\ old # m
    BY LifecycleAssumption DEF LifecycleInv, SaveSuperseding
  <1>1. /\ v \in [Spaces -> [Memories -> Hashes \cup {NoHash}]]
        /\ \A t \in Spaces : v[t][m] = IF t \in given \/ vec[t][m] = h THEN h ELSE NoHash
        /\ \A t \in Spaces, o \in Memories : o # m => v[t][o] = vec[t][o]
    BY <1>0, VectorsAfterWriteFacts
  <1>2. vec' = [t \in Spaces |-> [v[t] EXCEPT ![old] = NoHash]]
    BY DEF SaveSuperseding
  <1>3. /\ vec' \in [Spaces -> [Memories -> Hashes \cup {NoHash}]]
        /\ \A t \in Spaces : vec'[t][old] = NoHash
        /\ \A t \in Spaces : vec'[t][m] = IF t \in given \/ vec[t][m] = h THEN h ELSE NoHash
        /\ \A t \in Spaces, o \in Memories : o # m /\ o # old => vec'[t][o] = vec[t][o]
    <2> HIDE DEF v
    <2> QED
      BY <1>0, <1>1, <1>2
  <1>4. /\ content' \in [Memories -> Hashes \cup {NoHash}]
        /\ content'[m] = h
        /\ \A o \in Memories : o # m => content'[o] = content[o]
        /\ superseded' = (superseded \ {m}) \cup {old}
    BY <1>0 DEF SaveSuperseding, TypeOK
  <1>5. NoStaleVector'
    BY <1>3, <1>4 DEF LifecycleInv, NoStaleVector, Covered
  <1>6. CASE ActivatesOnWrite(m, s)
    <2>1. /\ phase' = "active" /\ active' = s /\ s \in Spaces
          /\ UNCHANGED <<target, barrier, queue, job>>
      BY <1>6 DEF SaveSuperseding, ActivatesOnWrite
    <2>2. TypeOK' /\ PointersAgree'
      BY <1>0, <1>3, <1>4, <2>1 DEF TypeOK, PointersAgree
    <2>3. ActiveCoverage'
      BY <1>0, <1>3, <1>4, <1>6, <2>1
      DEF ActiveCoverage, ActivatesOnWrite, LiveSources, Live, Covered
    <2>4. ReadyIsCovered'
      BY <2>1 DEF ReadyIsCovered
    <2> QED
      BY <1>5, <2>2, <2>3, <2>4 DEF LifecycleInv
  <1>7. CASE ~ActivatesOnWrite(m, s)
    <2>1. Reconcile(m, h) /\ UNCHANGED <<active, target, barrier, job>>
      BY <1>7 DEF SaveSuperseding
    <2>2. /\ queue' \subseteq Rows
          /\ phase' = IF phase = "ready" THEN "backfilling" ELSE phase
      BY <1>0, <2>1, ReconcileFacts
    <2>3. TypeOK' /\ PointersAgree'
      BY <1>0, <1>3, <1>4, <2>1, <2>2 DEF TypeOK, PointersAgree
    <2>4. ActiveCoverage'
      <3>1. phase = "active" => active \in Spaces /\ vec'[active][m] = h
        BY <1>0, <1>3, LifecycleAssumption DEF SaveSuperseding, AllowsWrite, PointersAgree
      <3> QED
        BY <1>3, <1>4, <2>1, <2>2, <3>1, WriteKeepsActiveCoverage DEF LifecycleInv
    <2>5. ReadyIsCovered'
      BY <2>2 DEF ReadyIsCovered
    <2> QED
      BY <1>5, <2>3, <2>4, <2>5 DEF LifecycleInv
  <1> QED
    BY <1>6, <1>7

\* restore_memory_page
LEMMA RestoreKeepsInv ==
    ASSUME LifecycleInv, NEW m \in Memories, NEW h \in Hashes,
           NEW given \in SUBSET Spaces, NEW dead \in BOOLEAN, RestoreMemory(m, h, given, dead)
    PROVE  LifecycleInv'
  <1>0. TypeOK /\ PointersAgree
    BY DEF LifecycleInv
  <1>1. /\ vec' \in [Spaces -> [Memories -> Hashes \cup {NoHash}]]
        /\ \A t \in Spaces : vec'[t][m] = IF t \in given \/ vec[t][m] = h THEN h ELSE NoHash
        /\ \A t \in Spaces, o \in Memories : o # m => vec'[t][o] = vec[t][o]
    BY <1>0, VectorsAfterWriteFacts DEF RestoreMemory
  <1>2. /\ content' \in [Memories -> Hashes \cup {NoHash}]
        /\ content'[m] = h
        /\ \A o \in Memories : o # m => content'[o] = content[o]
        /\ superseded' \subseteq Memories
        /\ \A o \in Memories : o # m => (o \in superseded' <=> o \in superseded)
        /\ m \notin superseded' => ~dead
    BY <1>0 DEF RestoreMemory, TypeOK
  <1>3. NoStaleVector'
    BY <1>1, <1>2 DEF LifecycleInv, NoStaleVector, Covered
  <1>4. Reconcile(m, h) /\ UNCHANGED <<active, target, barrier, job>>
    BY DEF RestoreMemory
  <1>5. /\ queue' \subseteq Rows
        /\ phase' = IF phase = "ready" THEN "backfilling" ELSE phase
    BY <1>0, <1>4, ReconcileFacts
  <1>6. TypeOK' /\ PointersAgree'
    BY <1>0, <1>1, <1>2, <1>4, <1>5 DEF TypeOK, PointersAgree
  <1>7. ActiveCoverage'
    <2>1. phase = "active" /\ m \notin superseded' => active \in Spaces /\ vec'[active][m] = h
      BY <1>0, <1>1, <1>2 DEF RestoreMemory, PointersAgree
    <2> QED
      BY <1>1, <1>2, <1>4, <1>5, <2>1, WriteKeepsActiveCoverage DEF LifecycleInv
  <1>8. ReadyIsCovered'
    BY <1>5 DEF ReadyIsCovered
  <1> QED
    BY <1>3, <1>6, <1>7, <1>8 DEF LifecycleInv

\* supersede_memory_in_namespace and the deletes: rows leave the live set
\* together with their vectors.
LEMMA RemoveKeepsInv ==
    ASSUME LifecycleInv, Remove PROVE LifecycleInv'
  <1>0. TypeOK
    BY DEF LifecycleInv
  <1>1. ASSUME NEW ms \in SUBSET Memories
        PROVE  LET v == VectorsWithout(ms)
               IN  /\ v \in [Spaces -> [Memories -> Hashes \cup {NoHash}]]
                   /\ \A t \in Spaces, o \in Memories :
                          v[t][o] = IF o \in ms THEN NoHash ELSE vec[t][o]
    BY <1>0 DEF VectorsWithout, TypeOK
  <1>2. PICK ms \in SUBSET Memories :
            /\ vec' = VectorsWithout(ms)
            /\ content' \in [Memories -> Hashes \cup {NoHash}]
            /\ superseded' \subseteq Memories
            /\ \A o \in Memories \ ms : content'[o] = content[o]
            /\ LiveSources' = LiveSources \ ms
            /\ UNCHANGED <<phase, active, target, barrier, queue, job>>
    <2>1. ASSUME NEW m \in Memories, SupersedeMemory(m)
          PROVE  /\ {m} \in SUBSET Memories
                 /\ vec' = VectorsWithout({m})
                 /\ content' \in [Memories -> Hashes \cup {NoHash}]
                 /\ superseded' \subseteq Memories
                 /\ \A o \in Memories \ {m} : content'[o] = content[o]
                 /\ LiveSources' = LiveSources \ {m}
                 /\ UNCHANGED <<phase, active, target, barrier, queue, job>>
      BY <1>0, <2>1 DEF SupersedeMemory, TypeOK, LiveSources, Live
    <2>2. ASSUME NEW ms \in SUBSET Memories, DeleteMemories(ms)
          PROVE  /\ vec' = VectorsWithout(ms)
                 /\ content' \in [Memories -> Hashes \cup {NoHash}]
                 /\ superseded' \subseteq Memories
                 /\ \A o \in Memories \ ms : content'[o] = content[o]
                 /\ LiveSources' = LiveSources \ ms
                 /\ UNCHANGED <<phase, active, target, barrier, queue, job>>
      BY <1>0, <2>2 DEF DeleteMemories, TypeOK, LiveSources, Live
    <2>3. CASE \E m \in Memories : SupersedeMemory(m)
      BY <2>1, <2>3
    <2>4. CASE \E ms \in SUBSET Memories : DeleteMemories(ms)
      BY <2>2, <2>4
    <2> QED
      BY <2>3, <2>4 DEF Remove
  <1>3. /\ vec' \in [Spaces -> [Memories -> Hashes \cup {NoHash}]]
        /\ \A t \in Spaces, o \in Memories :
               vec'[t][o] = IF o \in ms THEN NoHash ELSE vec[t][o]
    BY <1>1, <1>2
  <1>4. TypeOK' /\ PointersAgree'
    BY <1>0, <1>2, <1>3 DEF LifecycleInv, TypeOK, PointersAgree
  <1>5. NoStaleVector'
    BY <1>2, <1>3 DEF LifecycleInv, NoStaleVector, Covered
  <1>6. \A t \in Spaces, o \in LiveSources' : Covered(t, o) => Covered(t, o)'
    BY <1>2, <1>3 DEF Covered, LiveSources
  <1>7. ActiveCoverage' /\ ReadyIsCovered'
    BY <1>2, <1>6 DEF LifecycleInv, ActiveCoverage, ReadyIsCovered, CoverageComplete
  <1> QED
    BY <1>4, <1>5, <1>7 DEF LifecycleInv

\* The lifecycle operations, none of which touches a row or a vector.
LEMMA OperateKeepsInv ==
    ASSUME LifecycleInv, Operate PROVE LifecycleInv'
  <1>0. TypeOK /\ PointersAgree
    BY DEF LifecycleInv
  <1>1. ASSUME UNCHANGED rowVars
        PROVE  /\ LiveSources' = LiveSources /\ NoStaleVector'
               /\ \A t \in Spaces, o \in Memories : Covered(t, o)' <=> Covered(t, o)
    BY <1>1 DEF rowVars, LiveSources, Live, LifecycleInv, NoStaleVector, Covered
  <1>2. ASSUME NEW s \in Spaces, InitializeRuntimeSpace(s) PROVE LifecycleInv'
    <2>1. LiveSources' = LiveSources /\ NoStaleVector'
      BY <1>1, <1>2 DEF InitializeRuntimeSpace, rowVars
    <2>2. TypeOK' /\ PointersAgree'
      BY <1>0, <1>2 DEF InitializeRuntimeSpace, TypeOK, PointersAgree
    <2>3. ActiveCoverage' /\ ReadyIsCovered'
      BY <1>2, <2>1 DEF InitializeRuntimeSpace, ActiveCoverage, ReadyIsCovered
    <2> QED
      BY <2>1, <2>2, <2>3 DEF LifecycleInv
  <1>3. ASSUME NEW s \in Spaces, BeginMigration(s) PROVE LifecycleInv'
    <2>1. NoStaleVector' /\ phase' = "backfilling"
      BY <1>1, <1>3 DEF BeginMigration, rowVars
    <2>2. queue' \subseteq Rows /\ barrier' \in 0 .. MaxSeq
      <3>1. PICK order \in [LiveSources -> 1 .. MaxSeq], n \in 0 .. MaxSeq :
                /\ queue' = {[mem |-> m, hash |-> content[m], seq |-> order[m]] : m \in LiveSources}
                /\ barrier' = n
        BY <1>3 DEF BeginMigration
      <3>2. ASSUME NEW m \in LiveSources
            PROVE  [mem |-> m, hash |-> content[m], seq |-> order[m]] \in Rows
        <4>1. m \in Memories /\ content[m] \in Hashes
          BY <1>0 DEF LiveSources, Live, TypeOK
        <4>2. order[m] \in 0 .. MaxSeq
          BY LifecycleAssumption
        <4> QED
          BY <4>1, <4>2 DEF Rows
      <3> QED
        BY <3>1, <3>2
    <2>3. TypeOK' /\ PointersAgree'
      BY <1>0, <1>3, <2>1, <2>2, LifecycleAssumption DEF BeginMigration, TypeOK, PointersAgree
    <2> QED
      BY <2>1, <2>3 DEF LifecycleInv, ActiveCoverage, ReadyIsCovered
  <1>4. ASSUME NEW s \in Spaces, VerifyMigration(s) PROVE LifecycleInv'
    <2>1. LiveSources' = LiveSources /\ NoStaleVector' /\ target' = target /\ target = s
      BY <1>1, <1>4 DEF VerifyMigration, rowVars
    <2>2. CASE CoverageComplete(s)
      <3>1. phase' = "ready" /\ queue' = queue
        BY <1>4, <2>2 DEF VerifyMigration
      <3>2. TypeOK' /\ PointersAgree'
        BY <1>0, <1>4, <3>1 DEF VerifyMigration, TypeOK, PointersAgree
      <3>3. ReadyIsCovered'
        BY <1>0, <1>1, <1>4, <2>1, <2>2, <3>1
        DEF VerifyMigration, ReadyIsCovered, CoverageComplete, Covered, rowVars, LiveSources
      <3> QED
        BY <2>1, <3>1, <3>2, <3>3 DEF LifecycleInv, ActiveCoverage
    <2>3. CASE ~CoverageComplete(s)
      <3>1. phase' = "backfilling" /\ EnqueueUncovered(s)
        BY <1>4, <2>3 DEF VerifyMigration
      <3> DEFINE missing == {m \in LiveSources : ~Covered(s, m) /\
                       ~\E r \in queue : r.mem = m /\ r.hash = content[m]}
                 kept == {r \in queue : r.mem \notin missing}
      <3>2. PICK order \in [missing -> 0 .. MaxSeq] :
                queue' = kept \cup
                   {[mem |-> m, hash |-> content[m], seq |-> order[m]] : m \in missing}
        BY <3>1 DEF EnqueueUncovered
      <3>3. ASSUME NEW m \in missing
            PROVE  [mem |-> m, hash |-> content[m], seq |-> order[m]] \in Rows
        BY <1>0 DEF Rows, LiveSources, Live, TypeOK
      <3>4. queue' \subseteq Rows
        BY <1>0, <3>2, <3>3 DEF TypeOK
      <3>5. TypeOK' /\ PointersAgree'
        BY <1>0, <1>4, <3>1, <3>4 DEF VerifyMigration, TypeOK, PointersAgree
      <3> QED
        BY <2>1, <3>1, <3>5 DEF LifecycleInv, ActiveCoverage, ReadyIsCovered
    <2> QED
      BY <2>2, <2>3
  <1>5. ASSUME NEW s \in Spaces, ActivateMigration(s) PROVE LifecycleInv'
    <2>1. LiveSources' = LiveSources /\ NoStaleVector'
      BY <1>1, <1>5 DEF ActivateMigration, rowVars
    <2>2. TypeOK' /\ PointersAgree'
      BY <1>0, <1>5 DEF ActivateMigration, TypeOK, PointersAgree
    <2>3. ActiveCoverage' /\ ReadyIsCovered'
      BY <1>1, <1>5, <2>1
      DEF ActivateMigration, CoverageComplete, ActiveCoverage, ReadyIsCovered, Covered, rowVars
    <2> QED
      BY <2>1, <2>2, <2>3 DEF LifecycleInv
  <1>6. ASSUME RollbackLexical PROVE LifecycleInv'
    <2>1. NoStaleVector'
      BY <1>1, <1>6 DEF RollbackLexical, rowVars
    <2>2. TypeOK' /\ PointersAgree' /\ ActiveCoverage' /\ ReadyIsCovered'
      BY <1>0, <1>6
      DEF RollbackLexical, TypeOK, PointersAgree, ActiveCoverage, ReadyIsCovered
    <2> QED
      BY <2>1, <2>2 DEF LifecycleInv
  <1> QED
    BY <1>2, <1>3, <1>4, <1>5, <1>6 DEF Operate

\* The backfill steps of a worker.
LEMMA BackfillKeepsInv ==
    ASSUME LifecycleInv, NEW w \in Workers, Backfill(w) PROVE LifecycleInv'
  <1>0. TypeOK /\ PointersAgree
    BY DEF LifecycleInv
  <1>1. ASSUME NEW s \in Spaces, ReadBackfill(w, s) PROVE LifecycleInv'
    <2>1. PICK r \in queue :
              job' = [job EXCEPT ![w] =
                  [mem |-> r.mem, hash |-> r.hash, seq |-> r.seq,
                   space |-> s, embedded |-> content[r.mem]]]
      BY <1>1 DEF ReadBackfill
    <2>2. [mem |-> r.mem, hash |-> r.hash, seq |-> r.seq,
           space |-> s, embedded |-> content[r.mem]] \in Items
      BY <1>0 DEF TypeOK, Rows, Items
    <2>3. TypeOK'
      BY <1>0, <1>1, <2>1, <2>2 DEF ReadBackfill, TypeOK
    <2> QED
      BY <1>1, <2>3
      DEF LifecycleInv, ReadBackfill, PointersAgree, NoStaleVector, ActiveCoverage,
          ReadyIsCovered, CoverageComplete, LiveSources, Live, Covered
  <1>2. ASSUME CommitBackfill(w) PROVE LifecycleInv'
    <2> DEFINE j == job[w]
    <2>1. j \in Items
      BY <1>0, <1>2 DEF CommitBackfill, TypeOK
    <2>2. /\ phase' = "backfilling" /\ phase = "backfilling" /\ job' = [job EXCEPT ![w] = Idle]
          /\ UNCHANGED <<content, superseded, active, target, barrier>>
          /\ CommitDeleted(j) \/ CommitRequeued(j) \/ CommitVector(j)
      BY <1>2 DEF CommitBackfill, Migrating
    <2>3. RowsLeft(j) \subseteq Rows
      BY <1>0 DEF RowsLeft, TypeOK
    <2>4. queue' \subseteq Rows /\ vec' \in [Spaces -> [Memories -> Hashes \cup {NoHash}]] /\ NoStaleVector'
      <3>1. CASE CommitDeleted(j)
        BY <1>0, <2>2, <2>3, <3>1 DEF CommitDeleted, TypeOK, LifecycleInv, NoStaleVector, Covered
      <3>2. CASE CommitRequeued(j)
        <4>1. queue' \subseteq Rows
          BY <1>0, <2>1, <2>3, <3>2 DEF CommitRequeued, Rows, Items, TypeOK
        <4> QED
          BY <1>0, <2>2, <3>2, <4>1
          DEF CommitRequeued, TypeOK, LifecycleInv, NoStaleVector, Covered
      <3>3. CASE CommitVector(j)
        <4>1. /\ j.mem \in Memories /\ j.space \in Spaces /\ j.hash \in Hashes
              /\ content[j.mem] = j.hash /\ queue' \subseteq Rows
              /\ vec' = [vec EXCEPT ![j.space][j.mem] = j.hash]
          BY <2>1, <2>3, <3>3 DEF Items, CommitVector
        <4> HIDE DEF j
        <4> QED
          BY <1>0, <2>2, <4>1 DEF TypeOK, LifecycleInv, NoStaleVector, Covered
      <3> QED
        BY <2>2, <3>1, <3>2, <3>3
    <2>5. TypeOK' /\ PointersAgree'
      BY <1>0, <2>2, <2>4 DEF TypeOK, PointersAgree
    <2> QED
      BY <2>2, <2>4, <2>5 DEF LifecycleInv, ActiveCoverage, ReadyIsCovered
  <1>3. ASSUME DropBackfill(w) PROVE LifecycleInv'
    <2>1. TypeOK'
      BY <1>0, <1>3 DEF DropBackfill, TypeOK
    <2> QED
      BY <1>3, <2>1
      DEF LifecycleInv, DropBackfill, PointersAgree, NoStaleVector, ActiveCoverage,
          ReadyIsCovered, CoverageComplete, LiveSources, Live, Covered
  <1> QED
    BY <1>1, <1>2, <1>3 DEF Backfill

LEMMA LifecycleStarts == Init => LifecycleInv
  BY LifecycleAssumption
  DEF Init, LifecycleInv, TypeOK, PointersAgree, NoStaleVector, ActiveCoverage, ReadyIsCovered,
      Covered

LEMMA LifecycleStep ==
    ASSUME LifecycleInv, [Next]_vars PROVE LifecycleInv'
  <1>1. CASE Write
    BY <1>1, SaveMemoryKeepsInv, SaveSupersedingKeepsInv, RestoreKeepsInv DEF Write
  <1>2. CASE Remove
    BY <1>2, RemoveKeepsInv
  <1>3. CASE Operate
    BY <1>3, OperateKeepsInv
  <1>4. CASE \E w \in Workers : Backfill(w)
    BY <1>4, BackfillKeepsInv
  <1>5. CASE UNCHANGED vars
    BY <1>5
    DEF vars, LifecycleInv, TypeOK, PointersAgree, NoStaleVector, ActiveCoverage,
        ReadyIsCovered, CoverageComplete, LiveSources, Live, Covered
  <1> QED
    BY <1>1, <1>2, <1>3, <1>4, <1>5 DEF Next

\* The inductive invariant holds in every reachable state.
THEOREM LifecycleInvariant == Spec => []LifecycleInv
  BY LifecycleStarts, LifecycleStep, PTL DEF Spec

\* While a namespace is active, every live source has its current vector in
\* the space that semantic search reads.
THEOREM ActiveNamespaceIsCovered == Spec => []ActiveCoverage
  <1>1. LifecycleInv => ActiveCoverage
    BY DEF LifecycleInv
  <1> QED
    BY <1>1, LifecycleInvariant, PTL

\* No vector outlives the text it was computed from.
THEOREM VectorsAreCurrent == Spec => []NoStaleVector
  <1>1. LifecycleInv => NoStaleVector
    BY DEF LifecycleInv
  <1> QED
    BY <1>1, LifecycleInvariant, PTL

\* A ready migration is covered and has no pending row.
THEOREM ReadyMigrationIsCovered == Spec => []ReadyIsCovered
  <1>1. LifecycleInv => ReadyIsCovered
    BY DEF LifecycleInv
  <1> QED
    BY <1>1, LifecycleInvariant, PTL

-----------------------------------------------------------------------------
(* Nothing is forgotten                                                    *)

\* A live source that is to be embedded has its vector or is queued.
Remembered(m) ==
    Covered(target, m) \/ \E r \in queue : r.mem = m /\ r.hash = content[m]

\* A queue row of m with hash h remembers m at that text.
LEMMA RowRemembers ==
    ASSUME NEW rows, NEW m, NEW h, NEW n, [mem |-> m, hash |-> h, seq |-> n] \in rows
    PROVE  \E r \in rows : r.mem = m /\ r.hash = h
  <1> DEFINE row == [mem |-> m, hash |-> h, seq |-> n]
  <1>1. row \in rows /\ row.mem = m /\ row.hash = h
    OBVIOUS
  <1> QED
    BY <1>1

\* A write of m in a migration queues m with its text; the others keep vector,
\* text and queue row.
LEMMA WriteForgetsNothing ==
    ASSUME TypeOK, NothingForgotten, PointersAgree, NEW m \in Memories, NEW h \in Hashes,
           Reconcile(m, h), target' = target, content'[m] = h,
           \A o \in Memories \ {m} :
               o \notin superseded' => /\ o \notin superseded
                                      /\ content'[o] = content[o]
                                      /\ \A t \in Spaces : vec'[t][o] = vec[t][o]
    PROVE  NothingForgotten'
  <1> SUFFICES ASSUME phase' \in {"backfilling", "ready"}, NEW o \in LiveSources'
               PROVE  Remembered(o)'
    BY DEF NothingForgotten, Remembered
  <1>1. phase \in {"backfilling", "ready"} /\ Requeue(queue, m, h) /\ target \in Spaces
    BY DEF Reconcile, PointersAgree
  <1>2. PICK n \in 0 .. MaxSeq :
            queue' = {r \in queue : r.mem # m} \cup {[mem |-> m, hash |-> h, seq |-> n]}
    BY <1>1 DEF Requeue
  <1>3. o \in Memories /\ o \notin superseded' /\ content'[o] # NoHash
    BY DEF LiveSources, Live
  <1>4. CASE o = m
    <2>1. [mem |-> m, hash |-> h, seq |-> n] \in queue'
      BY <1>2
    <2>2. \E r \in queue' : r.mem = m /\ r.hash = h
      BY <2>1, RowRemembers
    <2> QED
      BY <1>4, <2>2 DEF Remembered
  <1>5. CASE o # m
    <2>1. /\ o \notin superseded /\ content'[o] = content[o]
          /\ vec'[target][o] = vec[target][o]
      BY <1>1, <1>3, <1>5
    <2>2. o \in LiveSources
      BY <1>3, <2>1 DEF LiveSources, Live
    <2>3. CASE Covered(target, o)
      BY <2>1, <2>3 DEF Remembered, Covered
    <2>4. CASE \E r \in queue : r.mem = o /\ r.hash = content[o]
      BY <1>2, <1>5, <2>1, <2>4 DEF Remembered
    <2> QED
      BY <1>1, <2>2, <2>3, <2>4 DEF NothingForgotten
  <1> QED
    BY <1>4, <1>5

LEMMA WriteStepForgetsNothing ==
    ASSUME LifecycleInv, NothingForgotten, Write PROVE NothingForgotten'
  <1>0. TypeOK /\ PointersAgree
    BY DEF LifecycleInv
  \* A write that activates a space ends outside any migration.
  <1>1. ASSUME phase' = "active" PROVE NothingForgotten'
    BY <1>1 DEF NothingForgotten
  <1>2. ASSUME NEW m \in Memories, NEW h \in Hashes, NEW s \in Spaces \cup {NoSpace}, SaveMemory(m, h, s)
        PROVE  NothingForgotten'
    <2> DEFINE given == {s} \ {NoSpace}
    <2>1. CASE ActivatesOnWrite(m, s)
      BY <1>1, <1>2, <2>1 DEF SaveMemory
    <2>2. CASE ~ActivatesOnWrite(m, s)
      <3>1. given \in SUBSET Spaces
        OBVIOUS
      <3>2. \A t \in Spaces, o \in Memories : o # m => vec'[t][o] = vec[t][o]
        BY <1>0, <1>2, <3>1, VectorsAfterWriteFacts DEF SaveMemory
      <3>3. /\ content'[m] = h /\ superseded' = superseded \ {m}
            /\ \A o \in Memories : o # m => content'[o] = content[o]
            /\ Reconcile(m, h) /\ target' = target
        BY <1>0, <1>2, <2>2 DEF SaveMemory, TypeOK
      <3> QED
        BY <1>0, <3>2, <3>3, WriteForgetsNothing
    <2> QED
      BY <2>1, <2>2
  <1>3. ASSUME NEW m \in Memories, NEW h \in Hashes, NEW s \in Spaces \cup {NoSpace},
               NEW old \in Memories, SaveSuperseding(old, m, h, s)
        PROVE  NothingForgotten'
    <2> DEFINE given == {s} \ {NoSpace}
               v == VectorsAfterWrite(m, h, given)
    <2>1. CASE ActivatesOnWrite(m, s)
      BY <1>1, <1>3, <2>1 DEF SaveSuperseding
    <2>2. CASE ~ActivatesOnWrite(m, s)
      <3>1. given \in SUBSET Spaces
        OBVIOUS
      <3>2. /\ v \in [Spaces -> [Memories -> Hashes \cup {NoHash}]]
            /\ \A t \in Spaces, o \in Memories : o # m => v[t][o] = vec[t][o]
        BY <1>0, <3>1, VectorsAfterWriteFacts
      <3>3. vec' = [t \in Spaces |-> [v[t] EXCEPT ![old] = NoHash]]
        BY <1>3 DEF SaveSuperseding
      <3> HIDE DEF v
      <3>4. \A t \in Spaces, o \in Memories : o # m /\ o # old => vec'[t][o] = vec[t][o]
        BY <3>2, <3>3
      <3>5. /\ content'[m] = h /\ superseded' = (superseded \ {m}) \cup {old}
            /\ \A o \in Memories : o # m => content'[o] = content[o]
            /\ Reconcile(m, h) /\ target' = target
        BY <1>0, <1>3, <2>2 DEF SaveSuperseding, TypeOK
      <3>6. \A o \in Memories \ {m} :
               o \notin superseded' => /\ o \notin superseded
                                      /\ content'[o] = content[o]
                                      /\ \A t \in Spaces : vec'[t][o] = vec[t][o]
        BY <3>4, <3>5
      <3> QED
        BY <1>0, <3>5, <3>6, WriteForgetsNothing
    <2> QED
      BY <2>1, <2>2
  <1>4. ASSUME NEW m \in Memories, NEW h \in Hashes, NEW given \in SUBSET Spaces,
               NEW dead \in BOOLEAN, RestoreMemory(m, h, given, dead)
        PROVE  NothingForgotten'
    <2>1. \A t \in Spaces, o \in Memories : o # m => vec'[t][o] = vec[t][o]
      BY <1>0, <1>4, VectorsAfterWriteFacts DEF RestoreMemory
    <2>2. /\ content'[m] = h
          /\ \A o \in Memories : o # m => content'[o] = content[o]
          /\ \A o \in Memories : o # m => (o \in superseded' <=> o \in superseded)
          /\ Reconcile(m, h) /\ target' = target
      BY <1>0, <1>4 DEF RestoreMemory, TypeOK
    <2> QED
      BY <1>0, <2>1, <2>2, WriteForgetsNothing
  <1> QED
    BY <1>2, <1>3, <1>4 DEF Write

LEMMA RemoveForgetsNothing ==
    ASSUME LifecycleInv, NothingForgotten, Remove PROVE NothingForgotten'
  <1>0. TypeOK /\ PointersAgree
    BY DEF LifecycleInv
  <1>1. UNCHANGED <<phase, target, queue>>
    BY DEF Remove, SupersedeMemory, DeleteMemories
  <1>2. \A o \in LiveSources' :
            /\ o \in LiveSources /\ content'[o] = content[o]
            /\ \A t \in Spaces : vec'[t][o] = vec[t][o]
    <2>1. ASSUME NEW m \in Memories, SupersedeMemory(m), NEW o \in LiveSources'
          PROVE  /\ o \in LiveSources /\ content'[o] = content[o]
                 /\ \A t \in Spaces : vec'[t][o] = vec[t][o]
      BY <1>0, <2>1 DEF SupersedeMemory, VectorsWithout, LiveSources, Live, TypeOK
    <2>2. ASSUME NEW ms \in SUBSET Memories, DeleteMemories(ms), NEW o \in LiveSources'
          PROVE  /\ o \in LiveSources /\ content'[o] = content[o]
                 /\ \A t \in Spaces : vec'[t][o] = vec[t][o]
      BY <1>0, <2>2 DEF DeleteMemories, VectorsWithout, LiveSources, Live, TypeOK
    <2> QED
      BY <2>1, <2>2 DEF Remove
  <1> QED
    BY <1>0, <1>1, <1>2 DEF NothingForgotten, PointersAgree, Covered

LEMMA OperateForgetsNothing ==
    ASSUME LifecycleInv, NothingForgotten, Operate PROVE NothingForgotten'
  <1>1. ASSUME phase' \notin {"backfilling", "ready"} PROVE NothingForgotten'
    BY <1>1 DEF NothingForgotten
  <1>2. ASSUME NEW s \in Spaces, InitializeRuntimeSpace(s) \/ ActivateMigration(s) PROVE NothingForgotten'
    BY <1>1, <1>2 DEF InitializeRuntimeSpace, ActivateMigration
  <1>3. CASE RollbackLexical
    BY <1>1, <1>3 DEF RollbackLexical
  <1>4. ASSUME NEW s \in Spaces, BeginMigration(s) PROVE NothingForgotten'
    <2>1. PICK order \in [LiveSources -> 1 .. MaxSeq] :
              queue' = {[mem |-> m, hash |-> content[m], seq |-> order[m]] : m \in LiveSources}
      BY <1>4 DEF BeginMigration
    <2>2. LiveSources' = LiveSources /\ content' = content
      BY <1>4 DEF BeginMigration, LiveSources, Live
    <2>3. ASSUME NEW m \in LiveSources
          PROVE  \E r \in queue' : r.mem = m /\ r.hash = content[m]
      <3>1. [mem |-> m, hash |-> content[m], seq |-> order[m]] \in queue'
        BY <2>1
      <3> QED
        BY <3>1, RowRemembers
    <2> QED
      BY <2>2, <2>3 DEF NothingForgotten
  <1>5. ASSUME NEW s \in Spaces, VerifyMigration(s) PROVE NothingForgotten'
    <2>1. /\ phase \in {"backfilling", "ready"} /\ target = s
          /\ UNCHANGED <<content, superseded, vec, target>>
          /\ LiveSources' = LiveSources
      BY <1>5 DEF VerifyMigration, LiveSources, Live
    <2>2. CASE CoverageComplete(s)
      BY <2>1, <2>2 DEF CoverageComplete, NothingForgotten, Covered
    <2>3. CASE ~CoverageComplete(s)
      <3> DEFINE missing == {m \in LiveSources : ~Covered(s, m) /\
                       ~\E r \in queue : r.mem = m /\ r.hash = content[m]}
                 kept == {r \in queue : r.mem \notin missing}
      <3>1. EnqueueUncovered(s)
        BY <1>5, <2>3 DEF VerifyMigration
      <3>2. PICK order \in [missing -> 0 .. MaxSeq] :
                queue' = kept \cup
                   {[mem |-> m, hash |-> content[m], seq |-> order[m]] : m \in missing}
        BY <3>1 DEF EnqueueUncovered
      <3>3. ASSUME NEW o \in LiveSources PROVE Remembered(o)'
        <4>1. CASE o \in missing
          <5>1. [mem |-> o, hash |-> content[o], seq |-> order[o]] \in queue'
            BY <3>2, <4>1
          <5>2. \E r \in queue' : r.mem = o /\ r.hash = content[o]
            BY <5>1, RowRemembers
          <5> QED
            BY <2>1, <5>2 DEF Remembered
        <4>2. CASE o \notin missing
          <5>1. Covered(s, o) \/ \E r \in queue : r.mem = o /\ r.hash = content[o]
            BY <4>2
          <5>2. \A r \in queue : r.mem = o => r \in queue'
            BY <3>2, <4>2
          <5> QED
            BY <2>1, <5>1, <5>2 DEF Remembered, Covered
        <4> QED
          BY <4>1, <4>2
      <3> QED
        BY <2>1, <3>3 DEF NothingForgotten, Remembered
    <2> QED
      BY <2>2, <2>3
  <1> QED
    BY <1>2, <1>3, <1>4, <1>5 DEF Operate

\* A commit takes rows of its own source only, whichever sequence number they
\* have, and leaves that source covered, gone or queued again.
LEMMA BackfillForgetsNothing ==
    ASSUME LifecycleInv, NothingForgotten, NEW w \in Workers, Backfill(w) PROVE NothingForgotten'
  <1>0. TypeOK /\ PointersAgree
    BY DEF LifecycleInv
  <1>1. ASSUME UNCHANGED <<content, superseded, vec, phase, target, queue>> PROVE NothingForgotten'
    BY <1>1 DEF NothingForgotten, LiveSources, Live, Covered
  <1>2. CASE (\E s \in Spaces : ReadBackfill(w, s)) \/ DropBackfill(w)
    BY <1>1, <1>2 DEF ReadBackfill, DropBackfill
  <1>3. CASE CommitBackfill(w)
    <2>1. PICK j \in Items :
          /\ phase = "backfilling" /\ target = j.space
          /\ UNCHANGED <<content, superseded, phase, target>>
          /\ CommitDeleted(j) \/ CommitRequeued(j) \/ CommitVector(j)
          /\ LiveSources' = LiveSources
      BY <1>0, <1>3 DEF CommitBackfill, Migrating, TypeOK, LiveSources, Live
    <2>2. j.mem \in Memories /\ j.space \in Spaces
      BY <2>1 DEF Items
    <2>3. RowsLeft(j) \subseteq queue'
      BY <2>1 DEF CommitDeleted, CommitRequeued, CommitVector
    <2>4. \/ vec' = vec
          \/ j.hash = content[j.mem] /\ vec' = [vec EXCEPT ![j.space][j.mem] = j.hash]
      BY <2>1 DEF CommitDeleted, CommitRequeued, CommitVector
    <2>5. \/ vec'[target] = vec[target]
          \/ vec'[target] = [vec[target] EXCEPT ![j.mem] = content[j.mem]]
      BY <1>0, <2>1, <2>2, <2>4 DEF TypeOK
    <2>6. ASSUME NEW o \in LiveSources, o # j.mem PROVE Remembered(o)'
      <3>1. \A r \in queue : r.mem = o => r \in queue'
        BY <2>3, <2>6 DEF RowsLeft
      <3>2. vec'[target][o] = vec[target][o]
        <4>1. vec[target] \in [Memories -> Hashes \cup {NoHash}]
          BY <1>0, <2>1, <2>2 DEF TypeOK
        <4>2. CASE vec'[target] = [vec[target] EXCEPT ![j.mem] = content[j.mem]]
          BY <2>6, <4>1, <4>2 DEF LiveSources
        <4> QED
          BY <2>5, <4>2
      <3> QED
        BY <2>1, <2>6, <3>1, <3>2 DEF NothingForgotten, Remembered, Covered
    <2>7. ASSUME j.mem \in LiveSources PROVE Remembered(j.mem)'
      <3>1. CASE CommitDeleted(j)
        BY <2>7, <3>1 DEF CommitDeleted, LiveSources, Live
      <3>2. CASE CommitRequeued(j)
        <4>1. PICK n \in 0 .. MaxSeq :
                  [mem |-> j.mem, hash |-> content[j.mem], seq |-> n] \in queue'
          BY <3>2 DEF CommitRequeued
        <4>2. \E r \in queue' : r.mem = j.mem /\ r.hash = content[j.mem]
          BY <4>1, RowRemembers
        <4> QED
          BY <2>1, <4>2 DEF Remembered
      <3>3. CASE CommitVector(j)
        <4>1. vec'[target][j.mem] = content[j.mem]
          <5>1. /\ j.hash = content[j.mem]
                /\ vec' = [vec EXCEPT ![target][j.mem] = content[j.mem]]
            BY <2>1, <3>3 DEF CommitVector
          <5>2. /\ target \in Spaces
                /\ vec[target] \in [Memories -> Hashes \cup {NoHash}]
            BY <1>0, <2>1, <2>2 DEF TypeOK
          <5>3. vec'[target] = [vec[target] EXCEPT ![j.mem] = content[j.mem]]
            BY <1>0, <5>1, <5>2 DEF TypeOK
          <5> QED
            BY <2>2, <5>2, <5>3
        <4> QED
          BY <2>1, <4>1 DEF Remembered, Covered
      <3> QED
        BY <2>1, <3>1, <3>2, <3>3
    <2>8. \A o \in LiveSources' : Remembered(o)'
      BY <2>1, <2>6, <2>7
    <2> QED
      BY <2>8 DEF NothingForgotten, Remembered
  <1> QED
    BY <1>2, <1>3 DEF Backfill

LEMMA ForgettingStep ==
    ASSUME LifecycleInv, NothingForgotten, [Next]_vars PROVE NothingForgotten'
  <1>1. CASE UNCHANGED vars
    BY <1>1 DEF vars, NothingForgotten, LiveSources, Live, Covered
  <1>2. CASE Next
    BY <1>2, WriteStepForgetsNothing, RemoveForgetsNothing, OperateForgetsNothing,
       BackfillForgetsNothing DEF Next
  <1> QED
    BY <1>1, <1>2

\* A migration forgets no source: for any number of sources, spaces and workers
\* each live one has its vector in the target space or a queue row with its
\* current text, although sequence numbers are used again and workers commit late.
THEOREM MigrationForgetsNothing == Spec => []NothingForgotten
  <1>1. Init => NothingForgotten
    BY DEF Init, NothingForgotten
  <1> QED
    BY <1>1, ForgettingStep, LifecycleInvariant, PTL DEF Spec

-----------------------------------------------------------------------------
(* PostgreSQL                                                              *)

Table == <<rowVars, stateVars, queue>>

\* What a transaction has decided from what it read is what it would decide
\* now.
DecidedWrite(x) ==
    \E old, m \in Memories, h \in Hashes, s \in Spaces \cup {NoSpace} :
        PgAllows(m, h, {s} \ {NoSpace}) /\ x = WriteOf(old, m, h, {s} \ {NoSpace})

DecidedRestore(x) ==
    \E m \in Memories, h \in Hashes, given \in SUBSET Spaces, dead \in BOOLEAN :
        /\ phase = "active" /\ ~dead => active \in given
        /\ x = [op |-> "restore", mem |-> m, hash |-> h, given |-> given, dead |-> dead]

DecidedSupersede(x) ==
    \E m \in Memories : Live(m) /\ x = [op |-> "supersede", mem |-> m]

DecidedDelete(x) ==
    \E ms \in SUBSET Memories :
        (\E m \in ms : content[m] # NoHash) /\ x = [op |-> "delete", mems |-> ms]

DecidedBegin(x) ==
    \E s \in Spaces :
        /\ phase \in {"none", "lexical_only"} \/ (phase = "active" /\ active # s)
        /\ x = [op |-> "begin", space |-> s, previous |-> active,
                sources |-> [m \in LiveSources |-> content[m]]]

DecidedVerify(x) ==
    \E s \in Spaces :
        /\ phase \in {"backfilling", "ready"} /\ target = s
        /\ x = [op |-> "verify", space |-> s, covered |-> PgCovered(s)]

DecidedActivate(x) ==
    \E s \in Spaces :
        /\ phase = "ready" /\ target = s /\ PgCovered(s)
        /\ x = [op |-> "activate", space |-> s]

DecidedRollback(x) ==
    phase = "active" /\ active # NoSpace /\ active = target /\ x = [op |-> "rollback"]

DecidedBackfill(x) ==
    \E w \in Workers :
        /\ job[w] # Idle /\ phase = "backfilling" /\ target = job[w].space
        /\ x = [op |-> "backfill", worker |-> w, current |-> content[job[w].mem]]

Decided(x) ==
    \/ x = NoOp
    \/ DecidedWrite(x) \/ DecidedRestore(x) \/ DecidedSupersede(x) \/ DecidedDelete(x)
    \/ DecidedBegin(x) \/ DecidedVerify(x) \/ DecidedActivate(x) \/ DecidedRollback(x)
    \/ DecidedBackfill(x)

PageRows == [space : Spaces, mem : Memories, hash : Hashes, seq : 0 .. MaxSeq]

\* One transaction at a time has the row of the namespace, and nobody changes
\* what it has read: writers and operators have that row, and the worker whose
\* page it commits waits for it.
LocksInv ==
    /\ tx = [t \in Txs |-> tx[t]]
    /\ \A t \in Txs : Decided(tx[t]) /\ (tx[t] # NoOp => nsLock = t)

PagesInv ==
    /\ page \in [Workers -> {Idle} \cup [space : Spaces] \cup PageRows]
    /\ \A w \in Workers : page[w] # Idle => job[w] = Idle

SearchInv ==
    /\ search = [r \in Searchers |-> search[r]]
    /\ \A r \in Searchers : search[r] = [space |-> search[r].space, missing |-> {}]

PgInv == LifecycleInv /\ NothingForgotten /\ LocksInv /\ PagesInv /\ SearchInv

-----------------------------------------------------------------------------
(* A transaction does at its commit what its operation would do at once.   *)

\* The operators of the two backends agree.
LEMMA SameVectors ==
    ASSUME NEW m, NEW h, NEW given
    PROVE  PgVectors(m, h, given) = VectorsAfterWrite(m, h, given)
  <1> DEFINE V(s) == [vec[s] EXCEPT ![m] = IF s \in given THEN h ELSE IF @ = h THEN h ELSE NoHash]
             W(s) == [vec[s] EXCEPT ![m] = IF s \in given \/ @ = h THEN h ELSE NoHash]
  <1>1. ASSUME NEW s \in Spaces
        PROVE  (IF s \in given THEN h ELSE IF vec[s][m] = h THEN h ELSE NoHash)
                   = (IF s \in given \/ vec[s][m] = h THEN h ELSE NoHash)
    OBVIOUS
  <1>2. ASSUME NEW s \in Spaces PROVE V(s) = W(s)
    BY <1>1
  <1> HIDE DEF V, W
  <1>3. [s \in Spaces |-> V(s)] = [s \in Spaces |-> W(s)]
    BY <1>2
  <1> QED
    BY <1>3 DEF V, W, PgVectors, VectorsAfterWrite

LEMMA SameReconcile ==
    ASSUME NEW m, NEW h, PgReconcile(m, h)
    PROVE  Reconcile(m, h)
  BY DEF PgReconcile, Reconcile

LEMMA SameCoverage == \A s : PgCovered(s) <=> CoverageComplete(s)
  BY DEF PgCovered, CoverageComplete, Covered

LEMMA SameActivation ==
    ASSUME NEW m \in Memories, NEW s \in Spaces \cup {NoSpace}
    PROVE  PgActivates(m, {s} \ {NoSpace}) <=> ActivatesOnWrite(m, s)
  BY LifecycleAssumption DEF PgActivates, ActivatesOnWrite

LEMMA SamePermission ==
    ASSUME NEW m, NEW h, NEW s \in Spaces \cup {NoSpace}, PgAllows(m, h, {s} \ {NoSpace})
    PROVE  AllowsWrite(m, h, s)
  BY DEF PgAllows, AllowsWrite

\* Which operation it is says which decision it is.
LEMMA OperationOf ==
    ASSUME NEW x, Decided(x)
    PROVE  /\ x = NoOp \/ x.op # "none"
           /\ x.op = "write" => DecidedWrite(x)
           /\ x.op = "restore" => DecidedRestore(x)
           /\ x.op = "supersede" => DecidedSupersede(x)
           /\ x.op = "delete" => DecidedDelete(x)
           /\ x.op = "begin" => DecidedBegin(x)
           /\ x.op = "verify" => DecidedVerify(x)
           /\ x.op = "activate" => DecidedActivate(x)
           /\ x.op = "rollback" => DecidedRollback(x)
           /\ x.op = "backfill" => DecidedBackfill(x)
  <1>1. \A old, m, h, given : WriteOf(old, m, h, given).op = "write" /\ NoOp.op = "none"
    BY DEF NoOp, WriteOf
  <1>2. /\ DecidedRestore(x) => x.op = "restore"
        /\ DecidedSupersede(x) => x.op = "supersede"
        /\ DecidedDelete(x) => x.op = "delete"
    BY DEF DecidedRestore, DecidedSupersede, DecidedDelete
  <1>3. /\ DecidedBegin(x) => x.op = "begin"
        /\ DecidedVerify(x) => x.op = "verify"
        /\ DecidedActivate(x) => x.op = "activate"
    BY DEF DecidedBegin, DecidedVerify, DecidedActivate
  <1>4. /\ DecidedRollback(x) => x.op = "rollback"
        /\ DecidedBackfill(x) => x.op = "backfill"
    BY DEF DecidedRollback, DecidedBackfill
  <1> QED
    BY <1>1, <1>2, <1>3, <1>4 DEF Decided, DecidedWrite

LEMMA WriteAtOnce ==
    ASSUME LifecycleInv, NEW t \in Txs, CommitWrite(t), Decided(tx[t])
    PROVE  AtOnce(tx[t]) /\ Next
  <1>0. DecidedWrite(tx[t])
    BY OperationOf DEF CommitWrite
  <1>1. PICK old \in Memories, m \in Memories, h \in Hashes, s \in Spaces \cup {NoSpace} :
            /\ PgAllows(m, h, {s} \ {NoSpace})
            /\ tx[t] = WriteOf(old, m, h, {s} \ {NoSpace})
    BY <1>0, Zenon DEF DecidedWrite
  <1> DEFINE given == {s} \ {NoSpace}
  <1>2. /\ tx[t].op = "write" /\ tx[t].old = old /\ tx[t].mem = m /\ tx[t].hash = h
        /\ tx[t].given = given /\ tx[t].activates = PgActivates(m, given)
    BY <1>1 DEF WriteOf
  <1>3. AllowsWrite(m, h, s)
    BY <1>1, SamePermission
  <1>4. /\ content' = [content EXCEPT ![m] = h]
        /\ superseded' = (superseded \ {m}) \cup ({old} \ {m})
        /\ vec' = [u \in Spaces |-> [o \in Memories |->
                      IF o \in {old} \ {m} THEN NoHash ELSE VectorsAfterWrite(m, h, given)[u][o]]]
        /\ job' = job /\ {old} \ {m} \subseteq LiveSources
    BY <1>2, SameVectors DEF CommitWrite
  <1>5. IF ActivatesOnWrite(m, s)
          THEN phase' = "active" /\ active' = s /\ UNCHANGED <<target, barrier, queue>>
          ELSE Reconcile(m, h) /\ UNCHANGED <<active, target, barrier>>
    <2>1. WriteLifecycle(tx[t])
      BY DEF CommitWrite
    <2>2. CASE ActivatesOnWrite(m, s)
      <3>1. PgActivates(m, given) /\ active' \in given
        BY <2>1, <2>2, <1>2, SameActivation DEF WriteLifecycle
      <3> QED
        BY <3>1, <2>1, <2>2, <1>2 DEF WriteLifecycle
    <2>3. CASE ~ActivatesOnWrite(m, s)
      <3>1. ~PgActivates(m, given)
        BY <2>3, SameActivation
      <3>2. PgReconcile(m, h) /\ UNCHANGED <<active, target, barrier>>
        BY <3>1, <2>1, <1>2 DEF WriteLifecycle
      <3> QED
        BY <3>2, <2>3, SameReconcile
    <2> QED
      BY <2>2, <2>3
  <1>6. given \subseteq {s} /\ s \in given \cup {NoSpace}
    OBVIOUS
  <1>7. CASE old = m
    <2>1. superseded' = superseded \ {m}
      BY <1>4, <1>7
    <2>2. vec' = VectorsAfterWrite(m, h, given)
      <3>1. \A o : o \notin {old} \ {m}
        BY <1>7
      <3> DEFINE v == VectorsAfterWrite(m, h, given)
      <3>2. /\ v = [u \in Spaces |-> v[u]]
            /\ \A u \in Spaces : v[u] = [o \in Memories |-> v[u][o]]
        BY DEF VectorsAfterWrite, LifecycleInv, TypeOK
      <3>3. vec' = [u \in Spaces |-> [o \in Memories |-> v[u][o]]]
        BY <1>4, <3>1
      <3> HIDE DEF v
      <3>4. vec' = [u \in Spaces |-> v[u]]
        BY <3>2, <3>3
      <3> QED
        BY <3>2, <3>4 DEF v
    <2>3. SaveMemory(m, h, s)
      BY <1>3, <1>4, <1>5, <2>1, <2>2 DEF SaveMemory
    <2> QED
      BY <1>2, <1>6, <1>7, <2>3 DEF AtOnce, Next, Write
  <1>8. CASE old # m
    <2>1. superseded' = (superseded \ {m}) \cup {old} /\ {old} \ {m} = {old}
      BY <1>4, <1>8
    <2>2. vec' = [u \in Spaces |-> [VectorsAfterWrite(m, h, given)[u] EXCEPT ![old] = NoHash]]
      <3> DEFINE v == VectorsAfterWrite(m, h, given)
      <3>2. \A u \in Spaces : v[u] = [o \in Memories |-> v[u][o]]
        BY DEF VectorsAfterWrite, LifecycleInv, TypeOK
      <3>3. vec' = [u \in Spaces |-> [o \in Memories |-> IF o = old THEN NoHash ELSE v[u][o]]]
        BY <1>4, <2>1
      <3> HIDE DEF v
      <3>4. \A u \in Spaces : [v[u] EXCEPT ![old] = NoHash]
                = [o \in Memories |-> IF o = old THEN NoHash ELSE v[u][o]]
        BY <3>2
      <3>5. vec' = [u \in Spaces |-> [v[u] EXCEPT ![old] = NoHash]]
        BY <3>3, <3>4
      <3> QED
        BY <3>5 DEF v
    <2>3. content[old] # NoHash /\ old \notin superseded
      BY <1>4, <1>8 DEF LiveSources, Live
    <2>4. SaveSuperseding(old, m, h, s)
      BY <1>3, <1>4, <1>5, <1>8, <2>1, <2>2, <2>3 DEF SaveSuperseding
    <2> QED
      BY <1>2, <1>6, <1>8, <2>4 DEF AtOnce, Next, Write
  <1> QED
    BY <1>7, <1>8

LEMMA RestoreAtOnce ==
    ASSUME NEW t \in Txs, CommitRestore(t), Decided(tx[t])
    PROVE  AtOnce(tx[t]) /\ Next
  <1>0. DecidedRestore(tx[t])
    BY OperationOf DEF CommitRestore
  <1>1. PICK m \in Memories, h \in Hashes, given \in SUBSET Spaces, dead \in BOOLEAN :
            /\ phase = "active" /\ ~dead => active \in given
            /\ tx[t] = [op |-> "restore", mem |-> m, hash |-> h, given |-> given, dead |-> dead]
    BY <1>0, Zenon DEF DecidedRestore
  <1>2. /\ tx[t].op = "restore" /\ tx[t].mem = m /\ tx[t].hash = h
        /\ tx[t].given = given /\ tx[t].dead = dead
    BY <1>1
  <1>3. RestoreMemory(m, h, given, dead)
    BY <1>1, <1>2, SameVectors, SameReconcile DEF CommitRestore, RestoreMemory
  <1> QED
    BY <1>2, <1>3 DEF AtOnce, Next, Write

LEMMA RemoveAtOnce ==
    ASSUME NEW t \in Txs, CommitSupersede(t) \/ CommitDelete(t), Decided(tx[t]), LifecycleInv
    PROVE  AtOnce(tx[t]) /\ Next
  <1>1. CASE CommitSupersede(t)
    <2>0. DecidedSupersede(tx[t])
      BY <1>1, OperationOf DEF CommitSupersede
    <2>1. PICK m \in Memories : Live(m) /\ tx[t] = [op |-> "supersede", mem |-> m]
      BY <2>0, Zenon DEF DecidedSupersede
    <2>2. tx[t].op = "supersede" /\ tx[t].mem = m
      BY <2>1
    <2>3. [s \in Spaces |-> [vec[s] EXCEPT ![m] = NoHash]] = VectorsWithout({m})
      BY DEF VectorsWithout, LifecycleInv, TypeOK
    <2>4. SupersedeMemory(m)
      BY <1>1, <2>1, <2>2, <2>3 DEF CommitSupersede, SupersedeMemory
    <2> QED
      BY <2>2, <2>4 DEF AtOnce, Next, Remove
  <1>2. CASE CommitDelete(t)
    <2>0. DecidedDelete(tx[t])
      BY <1>2, OperationOf DEF CommitDelete
    <2>1. PICK ms \in SUBSET Memories :
              (\E m \in ms : content[m] # NoHash) /\ tx[t] = [op |-> "delete", mems |-> ms]
      BY <2>0, Zenon DEF DecidedDelete
    <2>2. tx[t].op = "delete" /\ tx[t].mems = ms
      BY <2>1
    <2>3. DeleteMemories(ms)
      BY <1>2, <2>1, <2>2 DEF CommitDelete, DeleteMemories, VectorsWithout
    <2> QED
      BY <2>2, <2>3 DEF AtOnce, Next, Remove
  <1> QED
    BY <1>1, <1>2

LEMMA StartAtOnce ==
    ASSUME NEW t \in Txs, CommitStart(t), Decided(tx[t]), LifecycleInv
    PROVE  AtOnce(tx[t]) /\ Next
  <1>0. DecidedBegin(tx[t])
    BY OperationOf DEF CommitStart
  <1>1. PICK s \in Spaces :
            /\ phase \in {"none", "lexical_only"} \/ (phase = "active" /\ active # s)
            /\ tx[t] = [op |-> "begin", space |-> s, previous |-> active,
                       sources |-> [m \in LiveSources |-> content[m]]]
    BY <1>0, Zenon DEF DecidedBegin
  <1>2. /\ tx[t].op = "begin" /\ tx[t].space = s /\ tx[t].previous = active
        /\ tx[t].sources = [m \in LiveSources |-> content[m]]
    BY <1>1
  <1>3. DOMAIN tx[t].sources = LiveSources
    BY <1>2
  <1>4. active = IF phase = "active" THEN active ELSE NoSpace
    BY <1>1 DEF LifecycleInv, PointersAgree
  <1>5. PICK order \in [LiveSources -> 1 .. MaxSeq], n \in 0 .. MaxSeq :
            /\ {order[m] : m \in LiveSources} = 1 .. n
            /\ \A m, o \in LiveSources : order[m] = order[o] => m = o
            /\ queue' = {[mem |-> m, hash |-> tx[t].sources[m], seq |-> order[m]] : m \in LiveSources}
            /\ barrier' = n
    BY <1>3 DEF CommitStart
  <1>6. queue' = {[mem |-> m, hash |-> content[m], seq |-> order[m]] : m \in LiveSources}
    <2>1. \A m \in LiveSources : tx[t].sources[m] = content[m]
      BY <1>2
    <2> QED
      BY <1>5, <2>1
  <1>7. /\ phase' = "backfilling" /\ target' = s /\ active' = active
        /\ UNCHANGED <<content, superseded, vec, job>>
    BY <1>2 DEF CommitStart
  <1>8. BeginMigration(s)
    BY <1>1, <1>4, <1>5, <1>6, <1>7 DEF BeginMigration
  <1> QED
    BY <1>2, <1>8 DEF AtOnce, Next, Operate

LEMMA OperateAtOnce ==
    ASSUME NEW t \in Txs, CommitVerify(t) \/ CommitActivate(t) \/ CommitRollback(t),
           Decided(tx[t])
    PROVE  AtOnce(tx[t]) /\ Next
  <1>1. CASE CommitVerify(t)
    <2>0. DecidedVerify(tx[t])
      BY <1>1, OperationOf DEF CommitVerify
    <2>1. PICK s \in Spaces :
              /\ phase \in {"backfilling", "ready"} /\ target = s
              /\ tx[t] = [op |-> "verify", space |-> s, covered |-> PgCovered(s)]
      BY <2>0, Zenon DEF DecidedVerify
    <2>2. tx[t].op = "verify" /\ tx[t].space = s /\ tx[t].covered = PgCovered(s)
      BY <2>1
    <2>3. PgEnqueueUncovered(s) <=> EnqueueUncovered(s)
      BY DEF PgEnqueueUncovered, EnqueueUncovered, Covered
    <2>4. VerifyMigration(s)
      BY <1>1, <2>1, <2>2, <2>3, SameCoverage DEF CommitVerify, VerifyMigration
    <2> QED
      BY <2>2, <2>4 DEF AtOnce, Next, Operate
  <1>2. CASE CommitActivate(t)
    <2>0. DecidedActivate(tx[t])
      BY <1>2, OperationOf DEF CommitActivate
    <2>1. PICK s \in Spaces :
              /\ phase = "ready" /\ target = s /\ PgCovered(s)
              /\ tx[t] = [op |-> "activate", space |-> s]
      BY <2>0, Zenon DEF DecidedActivate
    <2>2. tx[t].op = "activate" /\ tx[t].space = s
      BY <2>1
    <2>3. ActivateMigration(s)
      BY <1>2, <2>1, <2>2, SameCoverage DEF CommitActivate, ActivateMigration
    <2> QED
      BY <2>2, <2>3 DEF AtOnce, Next, Operate
  <1>3. CASE CommitRollback(t)
    <2>1. phase = "active" /\ active # NoSpace /\ active = target /\ tx[t].op = "rollback"
      BY <1>3, OperationOf DEF CommitRollback, DecidedRollback
    <2>2. RollbackLexical
      BY <1>3, <2>1 DEF CommitRollback, RollbackLexical
    <2> QED
      BY <2>1, <2>2 DEF AtOnce, Next, Operate
  <1> QED
    BY <1>1, <1>2, <1>3

LEMMA BackfillAtOnce ==
    ASSUME NEW t \in Txs, CommitBackfillPg(t), Decided(tx[t])
    PROVE  AtOnce(tx[t]) /\ Next
  <1>0. DecidedBackfill(tx[t])
    BY OperationOf DEF CommitBackfillPg
  <1>1. PICK w \in Workers :
            /\ job[w] # Idle /\ phase = "backfilling" /\ target = job[w].space
            /\ tx[t] = [op |-> "backfill", worker |-> w, current |-> content[job[w].mem]]
    BY <1>0, Zenon DEF DecidedBackfill
  <1>2. tx[t].op = "backfill" /\ tx[t].worker = w /\ tx[t].current = content[job[w].mem]
    BY <1>1
  <1>3. PgRowsLeft(job[w]) = RowsLeft(job[w])
    BY DEF PgRowsLeft, RowsLeft
  <1>4. CommitDeleted(job[w]) \/ CommitRequeued(job[w]) \/ CommitVector(job[w])
    BY <1>2, <1>3
    DEF CommitBackfillPg, PgRequeue, PgWriteVector, CommitDeleted, CommitRequeued, CommitVector
  <1>5. CommitBackfill(w)
    BY <1>1, <1>2, <1>4 DEF CommitBackfillPg, CommitBackfill, Migrating, stateVars
  <1> QED
    BY <1>2, <1>5 DEF AtOnce, Next, Backfill

\* What a transaction has read is so still, and it does what its operation does
\* at once.
LEMMA CommitAtOnce ==
    ASSUME LifecycleInv, LocksInv, NEW t \in Txs, PgCommit(t)
    PROVE  AtOnce(tx[t]) /\ Next
  <1>1. Decided(tx[t])
    BY DEF LocksInv
  <1> QED
    BY <1>1, WriteAtOnce, RestoreAtOnce, RemoveAtOnce, StartAtOnce, OperateAtOnce,
       BackfillAtOnce DEF PgCommit

-----------------------------------------------------------------------------
(* The inductive invariant                                                 *)

\* What a transaction has decided stays so while nobody changes the rows and
\* its worker keeps its item.
LEMMA DecidedKept ==
    ASSUME NEW x, Decided(x), UNCHANGED Table,
           \A w \in Workers : x.op = "backfill" /\ x.worker = w => job'[w] = job[w]
    PROVE  Decided(x)'
  <1>1. /\ UNCHANGED <<content, superseded, vec, phase, active, target, barrier, queue>>
        /\ LiveSources' = LiveSources
    BY DEF Table, rowVars, stateVars, LiveSources, Live
  <1>2. ASSUME NEW s PROVE PgCovered(s)' <=> PgCovered(s)
    BY <1>1 DEF PgCovered
  <1>3. CASE DecidedWrite(x)
    <2>1. PICK old \in Memories, m \in Memories, h \in Hashes, s \in Spaces \cup {NoSpace} :
              /\ PgAllows(m, h, {s} \ {NoSpace})
              /\ x = WriteOf(old, m, h, {s} \ {NoSpace})
      BY <1>3, Zenon DEF DecidedWrite
    <2>2. PgAllows(m, h, {s} \ {NoSpace})'
      BY <1>1, <2>1 DEF PgAllows
    <2>3. PgActivates(m, {s} \ {NoSpace})' = PgActivates(m, {s} \ {NoSpace})
      BY <1>1, Zenon DEF PgActivates
    <2>4. x = WriteOf(old, m, h, {s} \ {NoSpace})'
      BY <2>1, <2>3, Zenon DEF WriteOf
    <2>5. DecidedWrite(x)'
      BY <2>2, <2>4, Zenon DEF DecidedWrite
    <2> QED
      BY <2>5 DEF Decided
  <1>4. CASE DecidedRestore(x)
    <2>1. DecidedRestore(x)'
      BY <1>1, <1>4, Zenon DEF DecidedRestore
    <2> QED
      BY <2>1 DEF Decided
  <1>5. CASE DecidedSupersede(x) \/ DecidedDelete(x)
    <2>1. DecidedSupersede(x)' \/ DecidedDelete(x)'
      BY <1>1, <1>5, Zenon DEF DecidedSupersede, DecidedDelete, Live
    <2> QED
      BY <2>1 DEF Decided
  <1>6. CASE DecidedBegin(x)
    <2>1. DecidedBegin(x)'
      BY <1>1, <1>6, Zenon DEF DecidedBegin
    <2> QED
      BY <2>1 DEF Decided
  <1>7. CASE DecidedVerify(x)
    <2>1. PICK s \in Spaces :
              /\ phase \in {"backfilling", "ready"} /\ target = s
              /\ x = [op |-> "verify", space |-> s, covered |-> PgCovered(s)]
      BY <1>7, Zenon DEF DecidedVerify
    <2>2. PgCovered(s)' = PgCovered(s)
      BY <1>1, Zenon DEF PgCovered
    <2>3. DecidedVerify(x)'
      BY <1>1, <2>1, <2>2, Zenon DEF DecidedVerify
    <2> QED
      BY <2>3 DEF Decided
  <1>8. CASE DecidedActivate(x) \/ DecidedRollback(x)
    <2>1. DecidedActivate(x)' \/ DecidedRollback(x)'
      BY <1>1, <1>2, <1>8, Zenon DEF DecidedActivate, DecidedRollback
    <2> QED
      BY <2>1 DEF Decided
  <1>9. CASE DecidedBackfill(x)
    <2>1. PICK w \in Workers :
              /\ job[w] # Idle /\ phase = "backfilling" /\ target = job[w].space
              /\ x = [op |-> "backfill", worker |-> w, current |-> content[job[w].mem]]
      BY <1>9, Zenon DEF DecidedBackfill
    <2>2. job'[w] = job[w]
      BY <2>1
    <2>3. DecidedBackfill(x)'
      BY <1>1, <2>1, <2>2, Zenon DEF DecidedBackfill, Idle
    <2> QED
      BY <2>3 DEF Decided
  <1>10. CASE x = NoOp
    BY <1>10 DEF Decided, NoOp
  <1> QED
    BY <1>3, <1>4, <1>5, <1>6, <1>7, <1>8, <1>9, <1>10 DEF Decided

\* A step that changes no row keeps what LifecycleInv says of rows.
LEMMA RowsKept ==
    ASSUME LifecycleInv, NothingForgotten, UNCHANGED Table,
           job' \in [Workers -> Items \cup {Idle}]
    PROVE  LifecycleInv' /\ NothingForgotten'
  BY DEF Table, rowVars, stateVars, LifecycleInv, TypeOK, PointersAgree, NoStaleVector,
         ActiveCoverage, ReadyIsCovered, CoverageComplete, NothingForgotten, LiveSources, Live,
         Covered

\* The transactions of the other connections while nobody has a lock, or t has.
LEMMA OthersClosed ==
    ASSUME LocksInv, NEW t \in Txs, nsLock = NoTx \/ tx[t] # NoOp
    PROVE  \A u \in Txs \ {t} : tx[u] = NoOp
  BY PostgresAssumption DEF LocksInv

\* BEGIN and the statements that decide.
LEMMA StartKeeps ==
    ASSUME PgInv, NEW t \in Txs, NEW x, Start(t, x), Decided(x)
    PROVE  PgInv'
  <1>1. UNCHANGED <<vars, page, search>>
    BY DEF Start
  <1>2. UNCHANGED Table /\ UNCHANGED job
    BY <1>1 DEF vars, Table, rowVars, stateVars
  <1>3. LifecycleInv' /\ NothingForgotten'
    BY <1>2, RowsKept DEF PgInv, LifecycleInv, TypeOK
  <1>4. PagesInv' /\ SearchInv'
    BY <1>1, <1>2 DEF PgInv, PagesInv, SearchInv
  <1>5. LocksInv'
    <2>1. Decided(x)' /\ Decided(NoOp)'
      <3>1. Decided(NoOp)'
        BY DEF Decided, NoOp
      <3> QED
        BY <1>2, <3>1, DecidedKept
    <2>2. tx'[t] = x /\ \A u \in Txs \ {t} : tx'[u] = NoOp
      BY OthersClosed DEF PgInv, LocksInv, Start
    <2>3. tx' = [u \in Txs |-> tx'[u]] /\ nsLock' = t
      BY DEF PgInv, LocksInv, Start
    <2>4. ASSUME NEW u \in Txs PROVE Decided(tx[u])' /\ (tx'[u] # NoOp => nsLock' = u)
      <3>1. CASE u = t
        BY <2>1, <2>2, <2>3, <3>1
      <3>2. CASE u # t
        BY <2>1, <2>2, <3>2 DEF NoOp
      <3> QED
        BY <3>1, <3>2
    <2> QED
      BY <2>3, <2>4 DEF LocksInv, NoOp
  <1> QED
    BY <1>3, <1>4, <1>5 DEF PgInv

\* The first statements of a transaction decide what it is to do.
LEMMA BeginDecides ==
    ASSUME NEW t \in Txs, PgBegin(t)
    PROVE  \E x : Start(t, x) /\ Decided(x)
  <1>1. ASSUME NEW m \in Memories, NEW h \in Hashes, NEW s \in Spaces \cup {NoSpace},
               \/ BeginSave(t, m, h, s)
               \/ \E old \in Memories : BeginSuperseding(t, old, m, h, s)
        PROVE  \E x : Start(t, x) /\ Decided(x)
    <2>1. PICK old \in Memories :
              /\ PgAllows(m, h, {s} \ {NoSpace})
              /\ Start(t, WriteOf(old, m, h, {s} \ {NoSpace}))
      BY <1>1 DEF BeginSave, BeginSuperseding
    <2>2. DecidedWrite(WriteOf(old, m, h, {s} \ {NoSpace}))
      BY <2>1, Zenon DEF DecidedWrite
    <2> QED
      BY <2>1, <2>2 DEF Decided
  <1>2. ASSUME NEW m \in Memories, NEW h \in Hashes, NEW given \in SUBSET Spaces,
               NEW dead \in BOOLEAN, BeginRestore(t, m, h, given, dead)
        PROVE  \E x : Start(t, x) /\ Decided(x)
    <2>1. DecidedRestore([op |-> "restore", mem |-> m, hash |-> h, given |-> given,
                          dead |-> dead])
      BY <1>2, Zenon DEF BeginRestore, DecidedRestore
    <2> QED
      BY <1>2, <2>1, Zenon DEF BeginRestore, Decided
  <1>3. ASSUME NEW m \in Memories, BeginSupersede(t, m)
        PROVE  \E x : Start(t, x) /\ Decided(x)
    <2>1. DecidedSupersede([op |-> "supersede", mem |-> m])
      BY <1>3, Zenon DEF BeginSupersede, DecidedSupersede
    <2> QED
      BY <1>3, <2>1, Zenon DEF BeginSupersede, Decided
  <1>4. ASSUME NEW ms \in SUBSET Memories, BeginDelete(t, ms)
        PROVE  \E x : Start(t, x) /\ Decided(x)
    <2>1. DecidedDelete([op |-> "delete", mems |-> ms])
      BY <1>4, Zenon DEF BeginDelete, DecidedDelete
    <2> QED
      BY <1>4, <2>1, Zenon DEF BeginDelete, Decided
  <1>5. ASSUME NEW s \in Spaces, BeginStart(t, s)
        PROVE  \E x : Start(t, x) /\ Decided(x)
    <2>1. DecidedBegin([op |-> "begin", space |-> s, previous |-> active,
                        sources |-> [m \in LiveSources |-> content[m]]])
      BY <1>5, Zenon DEF BeginStart, DecidedBegin
    <2> QED
      BY <1>5, <2>1, Zenon DEF BeginStart, Decided
  <1>6. ASSUME NEW s \in Spaces, BeginVerify(t, s)
        PROVE  \E x : Start(t, x) /\ Decided(x)
    <2>1. DecidedVerify([op |-> "verify", space |-> s, covered |-> PgCovered(s)])
      BY <1>6, Zenon DEF BeginVerify, DecidedVerify
    <2> QED
      BY <1>6, <2>1, Zenon DEF BeginVerify, Decided
  <1>7. ASSUME NEW s \in Spaces, BeginActivate(t, s)
        PROVE  \E x : Start(t, x) /\ Decided(x)
    <2>1. DecidedActivate([op |-> "activate", space |-> s])
      BY <1>7, Zenon DEF BeginActivate, DecidedActivate
    <2> QED
      BY <1>7, <2>1, Zenon DEF BeginActivate, Decided
  <1>8. ASSUME BeginRollback(t)
        PROVE  \E x : Start(t, x) /\ Decided(x)
    <2>1. DecidedRollback([op |-> "rollback"])
      BY <1>8, Zenon DEF BeginRollback, DecidedRollback
    <2> QED
      BY <1>8, <2>1, Zenon DEF BeginRollback, Decided
  <1>9. ASSUME NEW w \in Workers, BeginBackfill(t, w)
        PROVE  \E x : Start(t, x) /\ Decided(x)
    <2>1. DecidedBackfill([op |-> "backfill", worker |-> w, current |-> content[job[w].mem]])
      BY <1>9, Zenon DEF BeginBackfill, DecidedBackfill
    <2> QED
      BY <1>9, <2>1, Zenon DEF BeginBackfill, Decided
  <1> QED
    BY <1>1, <1>2, <1>3, <1>4, <1>5, <1>6, <1>7, <1>8, <1>9, Zenon DEF PgBegin

\* A transaction that ends leaves none open.
LEMMA EndKeepsLocks ==
    ASSUME LocksInv, NEW t \in Txs, tx[t] # NoOp, End(t)
    PROVE  LocksInv'
  <1>1. \A u \in Txs \ {t} : tx[u] = NoOp
    BY OthersClosed
  <1>2. tx' = [u \in Txs |-> tx'[u]] /\ \A u \in Txs : tx'[u] = NoOp
    BY <1>1 DEF End, LocksInv
  <1>3. Decided(NoOp)'
    BY DEF Decided, NoOp
  <1> QED
    BY <1>2, <1>3 DEF LocksInv, NoOp

LEMMA CommitEnds ==
    ASSUME LifecycleInv, NEW t \in Txs, PgCommit(t)
    PROVE  /\ End(t) /\ tx[t] # NoOp
           /\ \A w \in Workers : job'[w] = job[w] \/ job'[w] = Idle
  <1>1. End(t)
    BY DEF PgCommit, CommitWrite, CommitRestore, CommitSupersede, CommitDelete, CommitStart,
           CommitVerify, CommitActivate, CommitRollback, CommitBackfillPg
  <1>2. tx[t].op # "none"
    BY DEF PgCommit, CommitWrite, CommitRestore, CommitSupersede, CommitDelete, CommitStart,
           CommitVerify, CommitActivate, CommitRollback, CommitBackfillPg
  <1>3. job' = job \/ job' = [job EXCEPT ![tx[t].worker] = Idle]
    BY DEF PgCommit, CommitWrite, CommitRestore, CommitSupersede, CommitDelete, CommitStart,
           CommitVerify, CommitActivate, CommitRollback, CommitBackfillPg
  <1>4. tx[t] # NoOp
    BY <1>2 DEF NoOp
  <1> QED
    BY <1>1, <1>3, <1>4 DEF LifecycleInv, TypeOK

LEMMA CommitKeeps ==
    ASSUME PgInv, NEW t \in Txs, PgCommit(t)
    PROVE  PgInv'
  <1>1. Next
    BY CommitAtOnce DEF PgInv
  <1>2. LifecycleInv' /\ NothingForgotten'
    BY <1>1, LifecycleStep, ForgettingStep DEF PgInv
  <1>3. LocksInv'
    BY CommitEnds, EndKeepsLocks DEF PgInv
  <1>4. PagesInv' /\ SearchInv'
    BY CommitEnds DEF PgInv, PagesInv, SearchInv, End, Idle
  <1> QED
    BY <1>2, <1>3, <1>4 DEF PgInv

LEMMA AbortKeeps ==
    ASSUME PgInv, NEW t \in Txs, Abort(t)
    PROVE  PgInv'
  <1>1. UNCHANGED vars /\ End(t) /\ tx[t] # NoOp
    BY DEF Abort
  <1>2. UNCHANGED Table /\ UNCHANGED job
    BY <1>1 DEF vars, Table, rowVars, stateVars
  <1>3. LifecycleInv' /\ NothingForgotten'
    BY <1>2, RowsKept DEF PgInv, LifecycleInv, TypeOK
  <1>4. LocksInv'
    BY <1>1, EndKeepsLocks DEF PgInv
  <1>5. PagesInv' /\ SearchInv'
    BY <1>1, <1>2 DEF PgInv, PagesInv, SearchInv, End
  <1> QED
    BY <1>3, <1>4, <1>5 DEF PgInv

\* A statement of a worker or of a search changes no row and nothing that an
\* open transaction has read.
LEMMA StatementKeepsLocks ==
    ASSUME LocksInv, UNCHANGED Table, UNCHANGED <<nsLock, tx>>,
           \A t \in Txs, w \in Workers :
               tx[t].op = "backfill" /\ tx[t].worker = w => job'[w] = job[w]
    PROVE  LocksInv'
  <1>1. ASSUME NEW t \in Txs PROVE Decided(tx[t])'
    <2>1. Decided(tx[t]) /\ tx'[t] = tx[t]
      BY DEF LocksInv
    <2> DEFINE x == tx[t]
    <2>2. PICK y : y = x
      OBVIOUS
    <2>3. Decided(y)'
      BY <2>1, <2>2, DecidedKept
    <2> QED
      BY <2>1, <2>2, <2>3
  <1> QED
    BY <1>1 DEF LocksInv, NoOp

\* The item of a worker whose page is being committed.
LEMMA CommittingHasItem ==
    ASSUME LocksInv, NEW t \in Txs, tx[t].op = "backfill"
    PROVE  job[tx[t].worker] # Idle
  <1>1. DecidedBackfill(tx[t])
    BY OperationOf DEF LocksInv
  <1>2. PICK w \in Workers :
            /\ job[w] # Idle
            /\ tx[t] = [op |-> "backfill", worker |-> w, current |-> content[job[w].mem]]
    BY <1>1, Zenon DEF DecidedBackfill
  <1> QED
    BY <1>2

LEMMA WorkerKeeps ==
    ASSUME PgInv, NEW w \in Workers,
           (\E s \in Spaces : PageTarget(w, s)) \/ PageRow(w) \/ PageSource(w) \/ GiveUp(w)
    PROVE  PgInv'
  <1>0. /\ LifecycleInv /\ NothingForgotten /\ LocksInv /\ PagesInv /\ SearchInv
        /\ TypeOK
    BY DEF PgInv, LifecycleInv
  <1>1. UNCHANGED Table /\ UNCHANGED <<nsLock, tx, search>>
    BY DEF PageTarget, PageRow, PageSource, GiveUp, Table, vars, rowVars, stateVars
  <1>2. SearchInv'
    BY <1>0, <1>1 DEF SearchInv
  <1>3. CASE \E s \in Spaces : PageTarget(w, s)
    <2>1. UNCHANGED job
      BY <1>3 DEF PageTarget, vars
    <2>2. PagesInv'
      BY <1>0, <1>3, <2>1 DEF PageTarget, PagesInv, Idle
    <2> QED
      BY <1>0, <1>1, <1>2, <2>1, <2>2, RowsKept, StatementKeepsLocks DEF PgInv, TypeOK
  <1>4. CASE PageRow(w)
    <2>1. UNCHANGED job
      BY <1>4 DEF PageRow, vars
    <2>2. page[w] \in [space : Spaces] /\ job[w] = Idle
      <3>1. \A p \in PageRows : DOMAIN p # {"space"}
        BY DEF PageRows
      <3> QED
        BY <1>0, <1>4, <3>1 DEF PageRow, PagesInv
    <2>3. \A r \in queue : [space |-> page[w].space, mem |-> r.mem, hash |-> r.hash,
                            seq |-> r.seq] \in PageRows
      BY <1>0, <2>2 DEF TypeOK, Rows, PageRows
    <2>4. PagesInv'
      BY <1>0, <1>4, <2>1, <2>2, <2>3 DEF PageRow, PagesInv, Idle
    <2> QED
      BY <1>0, <1>1, <1>2, <2>1, <2>4, RowsKept, StatementKeepsLocks DEF PgInv, TypeOK
  <1>5. CASE PageSource(w)
    <2>1. page[w] \in PageRows /\ page[w] # Idle /\ job[w] = Idle
      BY <1>0, <1>5 DEF PageSource, PagesInv, Idle
    <2>2. [mem |-> page[w].mem, hash |-> page[w].hash, seq |-> page[w].seq,
           space |-> page[w].space, embedded |-> content[page[w].mem]] \in Items
      BY <1>0, <2>1 DEF PageRows, Items, TypeOK
    <2>3. job' \in [Workers -> Items \cup {Idle}] /\ \A o \in Workers \ {w} : job'[o] = job[o]
      BY <1>0, <1>5, <2>2 DEF PageSource, TypeOK
    <2>4. PagesInv'
      BY <1>0, <1>5, <2>3 DEF PageSource, PagesInv, Idle
    <2>5. \A t \in Txs, o \in Workers :
              tx[t].op = "backfill" /\ tx[t].worker = o => job'[o] = job[o]
      BY <1>0, <2>1, <2>3, CommittingHasItem
    <2> QED
      BY <1>0, <1>1, <1>2, <2>3, <2>4, <2>5, RowsKept, StatementKeepsLocks DEF PgInv
  <1>6. CASE GiveUp(w)
    <2>1. /\ job' \in [Workers -> Items \cup {Idle}] /\ job'[w] = Idle
          /\ \A o \in Workers \ {w} : job'[o] = job[o]
      BY <1>0, <1>6 DEF GiveUp, TypeOK
    <2>2. PagesInv'
      BY <1>0, <1>6, <2>1 DEF GiveUp, PagesInv, Idle
    <2>3. \A t \in Txs, o \in Workers :
              tx[t].op = "backfill" /\ tx[t].worker = o => job'[o] = job[o]
      BY <1>6, <2>1 DEF GiveUp
    <2> QED
      BY <1>0, <1>1, <1>2, <2>1, <2>2, <2>3, RowsKept, StatementKeepsLocks DEF PgInv
  <1> QED
    BY <1>3, <1>4, <1>5, <1>6

LEMMA SearchKeeps ==
    ASSUME PgInv, NEW r \in Searchers,
           (\E s \in Spaces : SearchLifecycle(r, s)) \/ SearchRank(r)
    PROVE  PgInv'
  <1>0. /\ LifecycleInv /\ NothingForgotten /\ LocksInv /\ PagesInv /\ SearchInv
        /\ TypeOK /\ ActiveCoverage
    BY DEF PgInv, LifecycleInv
  <1>1. UNCHANGED <<vars, nsLock, tx, page>>
    BY DEF SearchLifecycle, SearchRank
  <1>2. UNCHANGED Table /\ UNCHANGED job
    BY <1>1 DEF Table, vars, rowVars, stateVars
  <1>3. LifecycleInv' /\ NothingForgotten' /\ LocksInv' /\ PagesInv'
    BY <1>0, <1>1, <1>2, RowsKept, StatementKeepsLocks DEF TypeOK, PagesInv
  <1>4. \E s : search' = [search EXCEPT ![r] = [space |-> s, missing |-> {}]]
    <2>1. CASE \E s \in Spaces : SearchLifecycle(r, s)
      BY <2>1 DEF SearchLifecycle
    <2>2. CASE SearchRank(r)
      <3>1. phase = "active" => Uncovered(active) = {}
        BY <1>0 DEF ActiveCoverage, Uncovered, Covered
      <3>2. (IF phase = "active" /\ active = search[r].space
             THEN Uncovered(search[r].space) ELSE {}) = {}
        BY <3>1
      <3> QED
        BY <2>2, <3>2 DEF SearchRank
    <2> QED
      BY <2>1, <2>2
  <1>5. SearchInv'
    BY <1>0, <1>4 DEF SearchInv
  <1> QED
    BY <1>3, <1>5 DEF PgInv

\* Every step of every connection keeps it.
LEMMA PgStepKeeps ==
    ASSUME PgInv, [PgNext]_<<vars, pgVars>>
    PROVE  PgInv'
  <1>1. CASE UNCHANGED <<vars, pgVars>>
    <2>1. UNCHANGED Table /\ UNCHANGED <<job, nsLock, tx, page, search>>
      BY <1>1 DEF vars, pgVars, Table, rowVars, stateVars
    <2> QED
      BY <2>1, RowsKept, StatementKeepsLocks
      DEF PgInv, LifecycleInv, TypeOK, PagesInv, SearchInv
  <1>2. ASSUME NEW t \in Txs, PgBegin(t) PROVE PgInv'
    BY <1>2, BeginDecides, StartKeeps
  <1>3. CASE PgNext
    BY <1>2, <1>3, CommitKeeps, AbortKeeps, WorkerKeeps, SearchKeeps DEF PgNext, PgRead
  <1> QED
    BY <1>1, <1>3

-----------------------------------------------------------------------------
(* The theorems                                                            *)

\* On PostgreSQL too the rows keep the invariant of the lifecycle and no source
\* is forgotten, one transaction has the namespace at a time, what it has decided
\* stays what it would decide, and every search that answers is complete.
THEOREM PgInvariant == PgSpec => []PgInv
  <1>1. PgInit => PgInv
    <2> SUFFICES ASSUME PgInit PROVE PgInv
      OBVIOUS
    <2>1. LifecycleInv /\ NothingForgotten
      BY LifecycleStarts DEF PgInit, Init, NothingForgotten
    <2>2. LocksInv
      BY DEF PgInit, LocksInv, Decided
    <2>3. PagesInv /\ SearchInv
      BY DEF PgInit, PagesInv, SearchInv, Idle, NotSearching
    <2> QED
      BY <2>1, <2>2, <2>3 DEF PgInv
  <1> QED
    BY <1>1, PgStepKeeps, PTL DEF PgSpec

\* So a namespace on PostgreSQL is never active without its vectors, and its
\* migrations forget nothing, for any number of connections and workers.
THEOREM CoverageHoldsOnPg == PgSpec => [](ActiveCoverage /\ NoStaleVector /\ NothingForgotten)
  <1>1. PgInv => ActiveCoverage /\ NoStaleVector /\ NothingForgotten
    BY DEF PgInv, LifecycleInv
  <1> QED
    BY <1>1, PgInvariant, PTL

\* A transaction does with its commit what its operation would do at once.
THEOREM TransactionsAreAtomic == PgSpec => CommitsAreAtomic
  <1>1. ASSUME PgInv, PgNext, NEW t \in Txs, tx'[t] # tx[t]
        PROVE  AtOnce(tx[t]) \/ UNCHANGED <<rowVars, stateVars, queue>>
    <2>1. CASE PgRead \/ \E u \in Txs : PgBegin(u) \/ Abort(u)
      <3>1. UNCHANGED <<rowVars, stateVars, queue>>
        <4>1. ASSUME NEW u \in Txs, PgBegin(u) PROVE UNCHANGED vars
          BY <4>1, BeginDecides DEF Start
        <4> QED
          BY <2>1, <4>1
          DEF PgRead, PageTarget, PageRow, PageSource, GiveUp, SearchLifecycle, SearchRank,
              Abort, vars, rowVars, stateVars
      <3> QED
        BY <3>1
    <2>2. ASSUME NEW u \in Txs, PgCommit(u) PROVE AtOnce(tx[t])
      <3>1. AtOnce(tx[u]) /\ End(u)
        BY <1>1, <2>2, CommitAtOnce, CommitEnds DEF PgInv
      <3>2. tx'= [tx EXCEPT ![u] = NoOp]
        BY <3>1 DEF End
      <3>3. t = u
        BY <1>1, <3>2 DEF PgInv, LocksInv
      <3> QED
        BY <3>1, <3>3
    <2> QED
      BY <1>1, <2>1, <2>2 DEF PgNext
  <1>2. PgInv /\ [PgNext]_<<vars, pgVars>>
            => [\A t \in Txs : tx'[t] # tx[t] => AtOnce(tx[t])]_<<rowVars, stateVars, queue>>
    <2> SUFFICES ASSUME PgInv, [PgNext]_<<vars, pgVars>>,
                        ~UNCHANGED <<rowVars, stateVars, queue>>,
                        NEW t \in Txs, tx'[t] # tx[t]
                 PROVE  AtOnce(tx[t])
      OBVIOUS
    <2>1. PgNext
      BY DEF vars, pgVars, rowVars, stateVars
    <2> QED
      BY <1>1, <2>1
  <1> QED
    BY <1>2, PgInvariant, PTL DEF PgSpec, CommitsAreAtomic

\* A search that answers has ranked every live source by its current text, for
\* any number of connections, workers and searches.
THEOREM SearchesAreComplete == PgSpec => []SearchIsComplete
  <1>1. PgInv => SearchIsComplete
    <2> SUFFICES ASSUME PgInv, NEW r \in Searchers PROVE search[r].missing = {}
      BY DEF SearchIsComplete
    <2>1. PICK q : q = search[r].space
      OBVIOUS
    <2>2. search[r] = [space |-> q, missing |-> {}]
      BY <2>1 DEF PgInv, SearchInv
    <2> QED
      BY <2>2
  <1> QED
    BY <1>1, PgInvariant, PTL
=============================================================================
