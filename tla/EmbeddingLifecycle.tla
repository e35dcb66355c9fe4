------------------------- MODULE EmbeddingLifecycle -------------------------
(***************************************************************************)
(* The embedding generations of one namespace: the source rows, their      *)
(* vectors per embedding space, the lifecycle row                          *)
(* (namespace_embedding_state), the backfill queue, and the operations of  *)
(* pensyve-core/src/embedding_migration.rs and storage/sqlite.rs on them.  *)
(*                                                                         *)
(* Each storage operation is one transaction and one action.  A backfill   *)
(* worker reads a queue row in one transaction, embeds outside any, and    *)
(* commits in another; in between, writers, deleters and other operators   *)
(* run.  A page of several rows is several workers that commit one after   *)
(* the other.  A source's text is abstracted to its hash; vector contents, *)
(* dimensions and the registry of spaces are left out.                     *)
(***************************************************************************)
EXTENDS Integers

CONSTANTS
    Memories,   \* source rows (all four memory types)
    Hashes,     \* canonical_embedding_source_sha256 values
    NoHash,     \* no row, no vector
    Spaces,     \* embedding space identities
    NoSpace,    \* NULL space pointer, or a write without embedding
    Workers,    \* backfill calls that may be under way
    MaxSeq      \* bound on queue sequence numbers

ASSUME LifecycleAssumption ==
    /\ NoHash \notin Hashes
    /\ NoSpace \notin Spaces
    /\ MaxSeq \in Nat

VARIABLES
    content,    \* hash of the stored source row, NoHash when there is none
    superseded, \* rows with superseded_by / invalid_at set
    vec,        \* memory_embeddings: source_sha256 per space and memory
    phase,      \* namespace_embedding_state.state; "none" is no such row
    active,     \* active_read_space_id
    target,     \* target_space_id
    barrier,    \* barrier_sequence
    queue,      \* embedding_backfill_queue rows with status 'pending'
    job         \* the queue row a worker has read, with what it embedded

rowVars == <<content, superseded, vec>>
stateVars == <<phase, active, target, barrier>>
vars == <<content, superseded, vec, phase, active, target, barrier, queue, job>>

Rows == [mem : Memories, hash : Hashes, seq : 0 .. MaxSeq]

\* A worker's item: the row, the space it embeds for and the hash of the text
\* it embedded (NoHash: the source was gone when the page was read).
Items == [mem : Memories, hash : Hashes, seq : 0 .. MaxSeq,
          space : Spaces, embedded : Hashes \cup {NoHash}]

Idle == [space |-> NoSpace]

Live(m) == content[m] # NoHash /\ m \notin superseded

LiveSources == {m \in Memories : Live(m)}

Covered(s, m) == vec[s][m] = content[m]

Init ==
    /\ content = [m \in Memories |-> NoHash]
    /\ superseded = {}
    /\ vec = [s \in Spaces |-> [m \in Memories |-> NoHash]]
    /\ phase = "none" /\ active = NoSpace /\ target = NoSpace /\ barrier = 0
    /\ queue = {}
    /\ job = [w \in Workers |-> Idle]

-----------------------------------------------------------------------------
(* Queue rows and vectors                                                  *)

\* MAX(sequence, barrier_sequence) + 1 over the rows in the queue
IsNextSequence(rows, n) ==
    /\ n > barrier
    /\ \A r \in rows : n > r.seq
    /\ n = barrier + 1 \/ \E r \in rows : n = r.seq + 1

\* Delete the pending rows of m and enqueue it again with hash h.
Requeue(rows, m, h) ==
    LET kept == {r \in rows : r.mem # m}
    IN  \E n \in 0 .. MaxSeq :
            /\ IsNextSequence(kept, n)
            /\ queue' = kept \cup {[mem |-> m, hash |-> h, seq |-> n]}

\* reconcile_embedding_source, then insert_embedding for the spaces in `given':
\* vectors of another text of m go, the given ones are written.
VectorsAfterWrite(m, h, given) ==
    [s \in Spaces |-> [vec[s] EXCEPT ![m] =
        IF s \in given \/ @ = h THEN h ELSE NoHash]]

VectorsWithout(ms) ==
    [s \in Spaces |-> [m \in Memories |-> IF m \in ms THEN NoHash ELSE vec[s][m]]]

\* The queue part of reconcile_embedding_source: while a migration is under
\* way every written source is queued, and a ready migration is so no longer.
Reconcile(m, h) ==
    /\ IF phase \in {"backfilling", "ready"} THEN Requeue(queue, m, h) ELSE queue' = queue
    /\ phase' = IF phase = "ready" THEN "backfilling" ELSE phase

-----------------------------------------------------------------------------
(* Writers                                                                 *)

\* Variant: the first write with an embedding activates its space, whatever
\* other live sources there are.
ActivatesAlways(m, s) == phase = "none" /\ s # NoSpace

\* validate_active_embedding_write without a lifecycle row: the first source,
\* written with its embedding, makes that space active.
ActivatesOnWrite(m, s) ==
    /\ phase = "none"
    /\ s # NoSpace
    /\ LiveSources \ {m} = {}

\* validate_active_embedding_write with an active namespace: the write brings
\* the vector of the active space, or leaves the one there valid.
AllowsWrite(m, h, s) == phase = "active" => s = active \/ vec[active][m] = h

\* save_memory_with_embedding of text h for m, with a vector in space s or
\* with none.
SaveMemory(m, h, s) ==
    /\ AllowsWrite(m, h, s)
    /\ content' = [content EXCEPT ![m] = h]
    /\ superseded' = superseded \ {m}
    /\ vec' = VectorsAfterWrite(m, h, {s} \ {NoSpace})
    /\ IF ActivatesOnWrite(m, s)
         THEN /\ phase' = "active" /\ active' = s
              /\ UNCHANGED <<target, barrier, queue>>
         ELSE Reconcile(m, h) /\ UNCHANGED <<active, target, barrier>>
    /\ UNCHANGED job

\* save_superseding_memory_with_embedding: m replaces old, in one transaction
\* that is rolled back when old is not there or superseded already.
SaveSuperseding(old, m, h, s) ==
    /\ old # m
    /\ content[old] # NoHash /\ old \notin superseded
    /\ AllowsWrite(m, h, s)
    /\ content' = [content EXCEPT ![m] = h]
    /\ superseded' = (superseded \ {m}) \cup {old}
    /\ vec' = [sp \in Spaces |->
                  [VectorsAfterWrite(m, h, {s} \ {NoSpace})[sp] EXCEPT ![old] = NoHash]]
    /\ IF ActivatesOnWrite(m, s)
         THEN /\ phase' = "active" /\ active' = s
              /\ UNCHANGED <<target, barrier, queue>>
         ELSE Reconcile(m, h) /\ UNCHANGED <<active, target, barrier>>
    /\ UNCHANGED job

\* restore_memory_page for one captured row, with the vectors captured with
\* it.  It never creates a lifecycle row.
RestoreMemory(m, h, given, dead) ==
    /\ phase = "active" /\ ~dead => active \in given
    /\ content' = [content EXCEPT ![m] = h]
    /\ superseded' = IF dead THEN superseded \cup {m} ELSE superseded \ {m}
    /\ vec' = VectorsAfterWrite(m, h, given)
    /\ Reconcile(m, h)
    /\ UNCHANGED <<active, target, barrier, job>>

SupersedeMemory(m) ==
    /\ Live(m)
    /\ superseded' = superseded \cup {m}
    /\ vec' = VectorsWithout({m})
    /\ UNCHANGED <<content, phase, active, target, barrier, queue, job>>

\* The deletes (by id, by entity, erase, capture) and purge_namespace: rows
\* and vectors go together; queue and lifecycle row stay.
DeleteMemories(ms) ==
    /\ \E m \in ms : content[m] # NoHash
    /\ content' = [m \in Memories |-> IF m \in ms THEN NoHash ELSE content[m]]
    /\ superseded' = superseded \ ms
    /\ vec' = VectorsWithout(ms)
    /\ UNCHANGED <<phase, active, target, barrier, queue, job>>

-----------------------------------------------------------------------------
(* The migration                                                           *)

\* initialize_local_runtime_space when a runtime of space s opens the
\* namespace.  An active namespace of another space is refused.
InitializeRuntimeSpace(s) ==
    /\ \/ phase = "none"
       \/ phase = "lexical_only" /\ LiveSources = {}
    /\ IF LiveSources = {}
         THEN phase' = "active" /\ active' = s
         ELSE phase' = "lexical_only" /\ UNCHANGED active
    /\ UNCHANGED <<content, superseded, vec, target, barrier, queue, job>>

\* begin_embedding_migration: queue every live source, in order.
BeginMigration(s) ==
    /\ \/ phase \in {"none", "lexical_only"}
       \/ phase = "active" /\ active # s
    /\ \E order \in [LiveSources -> 1 .. MaxSeq], n \in 0 .. MaxSeq :
           /\ {order[m] : m \in LiveSources} = 1 .. n
           /\ \A m, o \in LiveSources : order[m] = order[o] => m = o
           /\ queue' = {[mem |-> m, hash |-> content[m], seq |-> order[m]] : m \in LiveSources}
           /\ barrier' = n
    /\ phase' = "backfilling"
    /\ target' = s
    /\ active' = IF phase = "active" THEN active ELSE NoSpace
    /\ UNCHANGED <<content, superseded, vec, job>>

Migrating(s) == phase = "backfilling" /\ target = s

\* page_embedding_backfill, and the embedding of what it read.
ReadBackfill(w, s) ==
    /\ job[w] = Idle
    /\ Migrating(s)
    /\ \E r \in queue :
           job' = [job EXCEPT ![w] =
               [mem |-> r.mem, hash |-> r.hash, seq |-> r.seq,
                space |-> s, embedded |-> content[r.mem]]]
    /\ UNCHANGED <<content, superseded, vec, phase, active, target, barrier, queue>>

\* The rows commit_embedding_backfill_page deletes for an item.
RowsLeft(j) == {r \in queue : ~(r.mem = j.mem /\ r.seq = j.seq)}

\* The three outcomes of commit_embedding_backfill_page for an item whose
\* migration is still the current one, and its errors.
CommitDeleted(j) ==
    /\ content[j.mem] = NoHash
    /\ queue' = RowsLeft(j)
    /\ UNCHANGED vec

\* Variant: a changed source only loses its queue row.
CommitForgotten(j) ==
    /\ content[j.mem] # NoHash /\ content[j.mem] # j.hash
    /\ queue' = RowsLeft(j)
    /\ UNCHANGED vec

\* The source changed while it was being embedded: queue its current text.
CommitRequeued(j) ==
    /\ content[j.mem] # NoHash /\ content[j.mem] # j.hash
    /\ \E n \in 0 .. MaxSeq :
           /\ IsNextSequence(RowsLeft(j), n)
           /\ queue' = RowsLeft(j)
                        \cup {[mem |-> j.mem, hash |-> content[j.mem], seq |-> n]}
    /\ UNCHANGED vec

CommitVector(j) ==
    /\ content[j.mem] = j.hash
    /\ j.embedded = j.hash
    /\ vec' = [vec EXCEPT ![j.space][j.mem] = j.hash]
    /\ queue' = RowsLeft(j)

CommitBackfill(w) ==
    /\ job[w] # Idle
    /\ Migrating(job[w].space)
    /\ \/ CommitDeleted(job[w])
       \/ CommitRequeued(job[w])
       \/ CommitVector(job[w])
    /\ job' = [job EXCEPT ![w] = Idle]
    /\ UNCHANGED <<content, superseded, phase, active, target, barrier>>

\* The call ends without a commit: cancelled, the embedder failed, the
\* migration is no longer current, or the item does not match its source.
DropBackfill(w) ==
    /\ job[w] # Idle
    /\ job' = [job EXCEPT ![w] = Idle]
    /\ UNCHANGED <<content, superseded, vec, phase, active, target, barrier, queue>>

CoverageComplete(s) ==
    /\ queue = {}
    /\ \A m \in LiveSources : Covered(s, m)

\* enqueue_uncovered_sources: the uncovered ones that are not queued with
\* their current text.
EnqueueUncovered(s) ==
    LET missing == {m \in LiveSources : ~Covered(s, m) /\
                       ~\E r \in queue : r.mem = m /\ r.hash = content[m]}
        kept == {r \in queue : r.mem \notin missing}
    IN  \E order \in [missing -> 0 .. MaxSeq], lo \in 1 .. MaxSeq + 1, hi \in 0 .. MaxSeq :
            /\ IsNextSequence(kept, lo)
            /\ {order[m] : m \in missing} = lo .. hi
            /\ \A m, o \in missing : order[m] = order[o] => m = o
            /\ queue' = kept \cup
                   {[mem |-> m, hash |-> content[m], seq |-> order[m]] : m \in missing}

\* verify_embedding_migration
VerifyMigration(s) ==
    /\ phase \in {"backfilling", "ready"}
    /\ target = s
    /\ IF CoverageComplete(s)
         THEN phase' = "ready" /\ UNCHANGED queue
         ELSE phase' = "backfilling" /\ EnqueueUncovered(s)
    /\ UNCHANGED <<content, superseded, vec, active, target, barrier, job>>

\* activate_embedding_migration: the previous generation becomes the target.
ActivateMigration(s) ==
    /\ phase = "ready"
    /\ target = s
    /\ CoverageComplete(s)
    /\ target' = IF active = NoSpace THEN s ELSE active
    /\ active' = s
    /\ phase' = "active"
    /\ UNCHANGED <<content, superseded, vec, barrier, queue, job>>

\* Variant: the rolled back space stays the target.
RollbackKeepsTarget ==
    /\ phase = "active"
    /\ active # NoSpace /\ active = target
    /\ phase' = "lexical_only"
    /\ active' = NoSpace
    /\ queue' = {}
    /\ UNCHANGED <<content, superseded, vec, target, barrier, job>>

\* rollback_embedding_migration_to_lexical: a first migration only.
RollbackLexical ==
    /\ phase = "active"
    /\ active # NoSpace /\ active = target
    /\ phase' = "lexical_only"
    /\ active' = NoSpace /\ target' = NoSpace
    /\ queue' = {}
    /\ UNCHANGED <<content, superseded, vec, barrier, job>>

Write ==
    \E m \in Memories, h \in Hashes :
        \/ \E s \in Spaces \cup {NoSpace} :
               \/ SaveMemory(m, h, s)
               \/ \E old \in Memories : SaveSuperseding(old, m, h, s)
        \/ \E given \in SUBSET Spaces, dead \in BOOLEAN : RestoreMemory(m, h, given, dead)

Remove ==
    \/ \E m \in Memories : SupersedeMemory(m)
    \/ \E ms \in SUBSET Memories : DeleteMemories(ms)

Backfill(w) ==
    \/ \E s \in Spaces : ReadBackfill(w, s)
    \/ CommitBackfill(w)
    \/ DropBackfill(w)

Operate ==
    \/ \E s \in Spaces :
           \/ InitializeRuntimeSpace(s) \/ BeginMigration(s)
           \/ VerifyMigration(s) \/ ActivateMigration(s)
    \/ RollbackLexical

Next == Write \/ Remove \/ Operate \/ \E w \in Workers : Backfill(w)

Spec == Init /\ [][Next]_vars

-----------------------------------------------------------------------------
TypeOK ==
    /\ content \in [Memories -> Hashes \cup {NoHash}]
    /\ superseded \subseteq Memories
    /\ vec \in [Spaces -> [Memories -> Hashes \cup {NoHash}]]
    /\ phase \in {"none", "lexical_only", "backfilling", "ready", "active"}
    /\ active \in Spaces \cup {NoSpace}
    /\ target \in Spaces \cup {NoSpace}
    /\ barrier \in 0 .. MaxSeq
    /\ queue \subseteq Rows
    /\ job \in [Workers -> Items \cup {Idle}]

\* No mixed or partial vector ranking: while a namespace is active, every live
\* source has the vector of its current text in the one space that is read,
\* however writes, restores and a migration interleaved before.
ActiveCoverage ==
    phase = "active" => active \in Spaces /\ \A m \in LiveSources : Covered(active, m)

\* A stored vector is always that of the text its row has now; in particular a
\* backfill that embedded an older text never writes it.
NoStaleVector ==
    \A s \in Spaces, m \in Memories : vec[s][m] # NoHash => Covered(s, m)

\* A ready migration is covered and has nothing pending, so activation after a
\* successful verify can only be refused if something was written meanwhile,
\* and such a write takes the migration back to backfilling.
ReadyIsCovered == phase = "ready" => target \in Spaces /\ CoverageComplete(target)

\* During a migration no live source is forgotten: it has its vector in the
\* target space or a queue row with its current text, so draining the queue
\* covers the namespace.
NothingForgotten ==
    phase \in {"backfilling", "ready"} =>
        \A m \in LiveSources :
            Covered(target, m) \/ \E r \in queue : r.mem = m /\ r.hash = content[m]

\* The pointers of the lifecycle row agree with its phase.
PointersAgree ==
    /\ phase \in {"none", "lexical_only"} => active = NoSpace /\ target = NoSpace
    /\ phase \in {"backfilling", "ready"} => target \in Spaces /\ target # active
    /\ phase = "active" => active \in Spaces

\* Together these are inductive.
LifecycleInv ==
    TypeOK /\ PointersAgree /\ NoStaleVector /\ ActiveCoverage /\ ReadyIsCovered
=============================================================================
