------------------------- MODULE PostgresLifecycle -------------------------
(***************************************************************************)
(* The embedding generations of EmbeddingLifecycle on PostgreSQL           *)
(* (pensyve-core/src/storage/postgres.rs).  SQLite has one writer; here    *)
(* transactions of several connections run side by side at READ COMMITTED, *)
(* where every statement sees what is committed when it starts.  A writer  *)
(* or operator locks the row of its namespace before anything else.  Its   *)
(* first statements read and decide (Begin...), later ones write, and the  *)
(* writes are visible from its commit on (Commit...).  Search and the page *)
(* of a backfill take no such lock: their statements are steps.            *)
(*                                                                         *)
(* The variables of EmbeddingLifecycle are the committed rows.             *)
(***************************************************************************)
EXTENDS EmbeddingLifecycle

CONSTANTS
    Txs,        \* connections that may have a transaction open
    NoTx,
    Searchers   \* vector searches that may be under way

ASSUME PostgresAssumption == NoTx \notin Txs

VARIABLES
    nsLock,     \* holder of the namespaces row, NoTx when it is free
    tx,         \* open transaction: its operation and what it has decided
    page,       \* backfill page between its statements
    search      \* vector search between its statements

pgVars == <<nsLock, tx, page, search>>
NoOp == [op |-> "none"]
NotSearching == [space |-> NoSpace, missing |-> {}]

PgInit ==
    /\ Init
    /\ nsLock = NoTx
    /\ tx = [t \in Txs |-> NoOp]
    /\ page = [w \in Workers |-> Idle]
    /\ search = [r \in Searchers |-> NotSearching]

-----------------------------------------------------------------------------
(* Transactions                                                            *)

\* Variant: the namespaces row is not locked.
StartUnlocked(t, x) ==
    /\ tx[t] = NoOp
    /\ tx' = [tx EXCEPT ![t] = x]
    /\ UNCHANGED <<vars, nsLock, page, search>>

\* BEGIN, lock_namespace_embedding_serialization_pg_tx, and the statements
\* that decide x.
Start(t, x) ==
    /\ tx[t] = NoOp
    /\ nsLock = NoTx
    /\ nsLock' = t
    /\ tx' = [tx EXCEPT ![t] = x]
    /\ UNCHANGED <<vars, page, search>>

End(t) ==
    /\ tx' = [tx EXCEPT ![t] = NoOp]
    /\ nsLock' = IF nsLock = t THEN NoTx ELSE nsLock
    /\ UNCHANGED <<page, search>>

\* An error, an early return or a lost connection: nothing of it is seen.
Abort(t) ==
    /\ tx[t] # NoOp
    /\ End(t)
    /\ UNCHANGED vars

-----------------------------------------------------------------------------
(* Writers                                                                 *)

\* reconcile_embedding_source_in_pg_tx deletes the vectors of another text,
\* insert_embedding_in_pg_tx writes the given ones.
PgVectors(m, h, given) ==
    [s \in Spaces |-> [vec[s] EXCEPT ![m] =
        IF s \in given THEN h ELSE IF @ = h THEN h ELSE NoHash]]

\* The rest of reconcile_embedding_source_in_pg_tx: the lifecycle row is read
\* again, the pending rows of m are replaced by one behind all others.
PgReconcile(m, h) ==
    IF phase \notin {"backfilling", "ready"}
      THEN UNCHANGED <<queue, phase>>
      ELSE /\ Requeue(queue, m, h)
           /\ phase' = "backfilling"

\* validate_active_embedding_write_pg_tx: refuse, or find that this write
\* starts the lifecycle.
PgAllows(m, h, given) ==
    phase = "active" => active \in given \/ vec[active][m] = h

PgActivates(m, given) ==
    phase = "none" /\ given # {} /\ LiveSources \subseteq {m}

\* A write that replaces `old'; old = m when there is none.
WriteOf(old, m, h, given) ==
    [op |-> "write", old |-> old, mem |-> m, hash |-> h, given |-> given,
     activates |-> PgActivates(m, given)]

BeginSave(t, m, h, s) ==
    LET given == {s} \ {NoSpace}
    IN  PgAllows(m, h, given) /\ Start(t, WriteOf(m, m, h, given))

BeginSuperseding(t, old, m, h, s) ==
    LET given == {s} \ {NoSpace}
    IN  /\ old # m
        /\ PgAllows(m, h, given)
        /\ Start(t, WriteOf(old, m, h, given))

\* The lifecycle row and the queue.  A second lifecycle row cannot be inserted:
\* such a transaction fails.
WriteLifecycle(x) ==
    IF x.activates
      THEN /\ phase = "none" /\ phase' = "active"
           /\ active' \in x.given
           /\ UNCHANGED <<target, barrier, queue>>
      ELSE PgReconcile(x.mem, x.hash) /\ UNCHANGED <<active, target, barrier>>

\* save_memory_with_embedding, and save_superseding_memory_with_embedding,
\* whose last statement supersedes `old' or, when no row is updated, gives up.
CommitWrite(t) ==
    LET x == tx[t]
        replaced == {x.old} \ {x.mem}
    IN  /\ x.op = "write"
        /\ replaced \subseteq LiveSources
        /\ content' = [content EXCEPT ![x.mem] = x.hash]
        /\ superseded' = (superseded \ {x.mem}) \cup replaced
        /\ vec' = [s \in Spaces |-> [m \in Memories |->
                      IF m \in replaced THEN NoHash
                      ELSE PgVectors(x.mem, x.hash, x.given)[s][m]]]
        /\ WriteLifecycle(x)
        /\ End(t)
        /\ UNCHANGED job

\* restore_memory_page; validate_restore_embedding_lifecycle_pg_tx asks for the
\* active space whatever vector the row has.
BeginRestore(t, m, h, given, dead) ==
    /\ phase = "active" /\ ~dead => active \in given
    /\ Start(t, [op |-> "restore", mem |-> m, hash |-> h, given |-> given, dead |-> dead])

CommitRestore(t) ==
    LET x == tx[t]
    IN  /\ x.op = "restore"
        /\ content' = [content EXCEPT ![x.mem] = x.hash]
        /\ superseded' = IF x.dead THEN superseded \cup {x.mem} ELSE superseded \ {x.mem}
        /\ vec' = PgVectors(x.mem, x.hash, x.given)
        /\ PgReconcile(x.mem, x.hash)
        /\ End(t)
        /\ UNCHANGED <<active, target, barrier, job>>

\* supersede_memory_in_namespace
BeginSupersede(t, m) == Live(m) /\ Start(t, [op |-> "supersede", mem |-> m])

CommitSupersede(t) ==
    LET x == tx[t]
    IN  /\ x.op = "supersede"
        /\ superseded' = superseded \cup {x.mem}
        /\ vec' = [s \in Spaces |-> [vec[s] EXCEPT ![x.mem] = NoHash]]
        /\ End(t)
        /\ UNCHANGED <<content, phase, active, target, barrier, queue, job>>

\* The deletes of one memory, an entity, a page of it or the namespace.
BeginDelete(t, ms) ==
    /\ \E m \in ms : content[m] # NoHash
    /\ Start(t, [op |-> "delete", mems |-> ms])

CommitDelete(t) ==
    LET x == tx[t]
    IN  /\ x.op = "delete"
        /\ content' = [m \in Memories |-> IF m \in x.mems THEN NoHash ELSE content[m]]
        /\ superseded' = superseded \ x.mems
        /\ vec' = [s \in Spaces |->
                      [m \in Memories |-> IF m \in x.mems THEN NoHash ELSE vec[s][m]]]
        /\ End(t)
        /\ UNCHANGED <<phase, active, target, barrier, queue, job>>

-----------------------------------------------------------------------------
(* The migration                                                           *)

\* begin_embedding_migration reads the live sources page by page.
BeginStart(t, s) ==
    /\ \/ phase \in {"none", "lexical_only"}
       \/ phase = "active" /\ active # s
    /\ Start(t, [op |-> "begin", space |-> s, previous |-> active,
                 sources |-> [m \in LiveSources |-> content[m]]])

CommitStart(t) ==
    LET x == tx[t]
        queued == DOMAIN x.sources
    IN  /\ x.op = "begin"
        /\ \E order \in [queued -> 1 .. MaxSeq], n \in 0 .. MaxSeq :
               /\ {order[m] : m \in queued} = 1 .. n
               /\ \A m, o \in queued : order[m] = order[o] => m = o
               /\ queue' = {[mem |-> m, hash |-> x.sources[m], seq |-> order[m]] : m \in queued}
               /\ barrier' = n
        /\ phase' = "backfilling"
        /\ target' = x.space
        /\ active' = x.previous
        /\ End(t)
        /\ UNCHANGED <<content, superseded, vec, job>>

\* pg_migration_coverage
PgCovered(s) == queue = {} /\ \A m \in LiveSources : vec[s][m] = content[m]

\* verify_embedding_migration
BeginVerify(t, s) ==
    /\ phase \in {"backfilling", "ready"}
    /\ target = s
    /\ Start(t, [op |-> "verify", space |-> s, covered |-> PgCovered(s)])

\* enqueue_uncovered_pg_sources, one source after the other
PgEnqueueUncovered(s) ==
    LET queued(m) == \E r \in queue : r.mem = m /\ r.hash = content[m]
        missing == {m \in LiveSources : vec[s][m] # content[m] /\ ~queued(m)}
        kept == {r \in queue : r.mem \notin missing}
    IN  \E order \in [missing -> 0 .. MaxSeq], lo \in 1 .. MaxSeq + 1, hi \in 0 .. MaxSeq :
            /\ IsNextSequence(kept, lo)
            /\ {order[m] : m \in missing} = lo .. hi
            /\ \A m, o \in missing : order[m] = order[o] => m = o
            /\ queue' = kept \cup
                   {[mem |-> m, hash |-> content[m], seq |-> order[m]] : m \in missing}

CommitVerify(t) ==
    LET x == tx[t]
    IN  /\ x.op = "verify"
        /\ target = x.space
        /\ \/ x.covered /\ phase' = "ready" /\ UNCHANGED queue
           \/ ~x.covered /\ phase' = "backfilling" /\ PgEnqueueUncovered(x.space)
        /\ End(t)
        /\ UNCHANGED <<content, superseded, vec, active, target, barrier, job>>

\* activate_embedding_migration
BeginActivate(t, s) ==
    /\ phase = "ready" /\ target = s
    /\ PgCovered(s)
    /\ Start(t, [op |-> "activate", space |-> s])

CommitActivate(t) ==
    LET x == tx[t]
    IN  /\ x.op = "activate"
        /\ phase = "ready" /\ target = x.space
        /\ phase' = "active"
        /\ active' = x.space
        /\ target' = IF active = NoSpace THEN x.space ELSE active
        /\ End(t)
        /\ UNCHANGED <<content, superseded, vec, barrier, queue, job>>

\* rollback_embedding_migration_to_lexical
BeginRollback(t) ==
    /\ phase = "active" /\ active # NoSpace /\ active = target
    /\ Start(t, [op |-> "rollback"])

CommitRollback(t) ==
    /\ tx[t].op = "rollback"
    /\ phase' = "lexical_only" /\ active' = NoSpace /\ target' = NoSpace
    /\ queue' = {}
    /\ End(t)
    /\ UNCHANGED <<content, superseded, vec, barrier, job>>

-----------------------------------------------------------------------------
(* A backfill worker: a page in three statements, a commit in a transaction *)

\* page_embedding_backfill, first statement
PageTarget(w, s) ==
    /\ page[w] = Idle /\ job[w] = Idle
    /\ phase = "backfilling" /\ target = s
    /\ page' = [page EXCEPT ![w] = [space |-> s]]
    /\ UNCHANGED <<vars, nsLock, tx, search>>

\* Its second: the pending rows, of whatever migration they are by now.
PageRow(w) ==
    /\ page[w] # Idle /\ DOMAIN page[w] = {"space"}
    /\ IF queue = {} THEN page' = [page EXCEPT ![w] = Idle]
       ELSE \E r \in queue : page' = [page EXCEPT ![w] =
                [space |-> page[w].space, mem |-> r.mem, hash |-> r.hash, seq |-> r.seq]]
    /\ UNCHANGED <<vars, nsLock, tx, search>>

\* Its third, for each row: the source, which may have changed since.  The text
\* is embedded outside of any transaction.
PageSource(w) ==
    /\ DOMAIN page[w] # {"space"}
    /\ job' = [job EXCEPT ![w] =
           [mem |-> page[w].mem, hash |-> page[w].hash, seq |-> page[w].seq,
            space |-> page[w].space, embedded |-> content[page[w].mem]]]
    /\ page' = [page EXCEPT ![w] = Idle]
    /\ UNCHANGED <<rowVars, stateVars, queue, nsLock, tx, search>>

\* commit_embedding_backfill_page: the migration must still be that of the
\* item; then the source is locked and read.
BeginBackfill(t, w) ==
    /\ job[w] # Idle
    /\ phase = "backfilling" /\ target = job[w].space
    /\ Start(t, [op |-> "backfill", worker |-> w, current |-> content[job[w].mem]])

\* delete_pg_backfill_item
PgRowsLeft(j) == queue \ {r \in queue : r.mem = j.mem /\ r.seq = j.seq}

\* Variant: the text is not compared with the one that was embedded.
PgWriteVectorUnchecked(j, current) ==
    /\ current # NoHash
    /\ vec' = [vec EXCEPT ![j.space][j.mem] = j.hash]
    /\ queue' = PgRowsLeft(j)

PgWriteVector(j, current) ==
    /\ current = j.hash /\ j.embedded = j.hash
    /\ vec' = [vec EXCEPT ![j.space][j.mem] = j.hash]
    /\ queue' = PgRowsLeft(j)

PgRequeue(j, current) ==
    /\ current # NoHash /\ current # j.hash
    /\ \E n \in 0 .. MaxSeq :
           /\ IsNextSequence(PgRowsLeft(j), n)
           /\ queue' = PgRowsLeft(j) \cup {[mem |-> j.mem, hash |-> current, seq |-> n]}
    /\ UNCHANGED vec

CommitBackfillPg(t) ==
    LET x == tx[t]
        j == job[x.worker]
    IN  /\ x.op = "backfill"
        /\ j # Idle
        /\ \/ x.current = NoHash /\ queue' = PgRowsLeft(j) /\ UNCHANGED vec
           \/ PgRequeue(j, x.current)
           \/ PgWriteVector(j, x.current)
        /\ job' = [job EXCEPT ![x.worker] = Idle]
        /\ End(t)
        /\ UNCHANGED <<content, superseded, stateVars>>

\* The worker gives its page up, but not while its commit is under way.
GiveUp(w) ==
    /\ ~\E t \in Txs : tx[t].op = "backfill" /\ tx[t].worker = w
    /\ \/ page[w] # Idle \/ job[w] # Idle
    /\ page' = [page EXCEPT ![w] = Idle]
    /\ job' = [job EXCEPT ![w] = Idle]
    /\ UNCHANGED <<rowVars, stateVars, queue, nsLock, tx, search>>

-----------------------------------------------------------------------------
(* search_vector_filtered                                                  *)

\* First statement: is the space of this runtime the active one?
SearchLifecycle(r, s) ==
    /\ search[r].space = NoSpace
    /\ phase = "active" /\ active = s
    /\ search' = [search EXCEPT ![r] = [space |-> s, missing |-> {}]]
    /\ UNCHANGED <<vars, nsLock, tx, page>>

Uncovered(s) == {m \in LiveSources : vec[s][m] # content[m]}

\* Variant: the ranking does not read the lifecycle row with the vectors.
SearchRankUnchecked(r) ==
    /\ search[r].space # NoSpace
    /\ search' = [search EXCEPT ![r] =
           [space |-> NoSpace, missing |-> Uncovered(search[r].space)]]
    /\ UNCHANGED <<vars, nsLock, tx, page>>

\* POSTGRES_VECTOR_SEARCH_SQL: phase, active space and ranking in one
\* statement.  `missing' are the live sources that an answer does not rank.
SearchRank(r) ==
    /\ search[r].space # NoSpace
    /\ search' = [search EXCEPT ![r] =
           [space |-> NoSpace,
            missing |-> IF phase = "active" /\ active = search[r].space
                        THEN Uncovered(search[r].space) ELSE {}]]
    /\ UNCHANGED <<vars, nsLock, tx, page>>

-----------------------------------------------------------------------------
PgBegin(t) ==
    \/ \E m \in Memories, h \in Hashes, s \in Spaces \cup {NoSpace} :
           \/ BeginSave(t, m, h, s)
           \/ \E old \in Memories : BeginSuperseding(t, old, m, h, s)
    \/ \E m \in Memories, h \in Hashes, given \in SUBSET Spaces, dead \in BOOLEAN :
           BeginRestore(t, m, h, given, dead)
    \/ \E m \in Memories : BeginSupersede(t, m)
    \/ \E ms \in SUBSET Memories : BeginDelete(t, ms)
    \/ \E s \in Spaces : BeginStart(t, s) \/ BeginVerify(t, s) \/ BeginActivate(t, s)
    \/ BeginRollback(t)
    \/ \E w \in Workers : BeginBackfill(t, w)

PgCommit(t) ==
    \/ CommitWrite(t) \/ CommitRestore(t) \/ CommitSupersede(t) \/ CommitDelete(t)
    \/ CommitStart(t) \/ CommitVerify(t) \/ CommitActivate(t) \/ CommitRollback(t)
    \/ CommitBackfillPg(t)

PgRead ==
    \/ \E w \in Workers :
           \/ \E s \in Spaces : PageTarget(w, s)
           \/ PageRow(w) \/ PageSource(w) \/ GiveUp(w)
    \/ \E r \in Searchers : (\E s \in Spaces : SearchLifecycle(r, s)) \/ SearchRank(r)

PgNext == PgRead \/ \E t \in Txs : PgBegin(t) \/ PgCommit(t) \/ Abort(t)

PgSpec == PgInit /\ [][PgNext]_<<vars, pgVars>>

-----------------------------------------------------------------------------
\* The operation of EmbeddingLifecycle that x stands for.
AtOnce(x) ==
    \/ /\ x.op = "write"
       /\ \E s \in x.given \cup {NoSpace} :
              /\ x.given \subseteq {s}
              /\ IF x.old = x.mem THEN SaveMemory(x.mem, x.hash, s)
                 ELSE SaveSuperseding(x.old, x.mem, x.hash, s)
    \/ x.op = "restore" /\ RestoreMemory(x.mem, x.hash, x.given, x.dead)
    \/ x.op = "supersede" /\ SupersedeMemory(x.mem)
    \/ x.op = "delete" /\ DeleteMemories(x.mems)
    \/ x.op = "begin" /\ BeginMigration(x.space)
    \/ x.op = "verify" /\ VerifyMigration(x.space)
    \/ x.op = "activate" /\ ActivateMigration(x.space)
    \/ x.op = "rollback" /\ RollbackLexical
    \/ x.op = "backfill" /\ CommitBackfill(x.worker)

\* A transaction that changes rows does with its commit what its operation
\* would do at once: nothing it has read was changed by another meanwhile.
CommitsAreAtomic ==
    [][\A t \in Txs : tx'[t] # tx[t] => AtOnce(tx[t])]_<<rowVars, stateVars, queue>>

\* A vector search that answers has ranked every live source by its current
\* text, whatever committed between its statements.
SearchIsComplete ==
    \A r \in Searchers : search[r].missing = {}
=============================================================================
