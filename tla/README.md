# A TLA+ model of Pensyve

Pensyve is a memory runtime for agents. A program saves episodes, facts and
procedures in a namespace; the runtime keeps one vector per source and
embedding space beside them, retrieves, and consolidates: repeated episodic
sources become one semantic fact, and what is not used fades. This directory
holds TLA+ modules for the parts of it whose correctness depends on the order in
which things happen, the TLC configurations that check them on small instances,
and TLAPS proofs of the theorems that matter most.

Paths in this file are relative to `src/`; `core`, `tools` and `gateway` stand
for `pensyve-core/src`, `pensyve-mcp-tools/src` and `pensyve-mcp-gateway/src`.

## Inventory

| Part | State | Operations | Interacts with |
|---|---|---|---|
| Consolidation permit (`core/consolidation/mod.rs`, `FairPermit`) | `next_ticket`, `serving`, `abandoned` under one mutex | `acquire` (waits, polls, may give up), guard drop | every engine run of the process |
| Consolidation gate (`core/consolidation/gate.rs`) | the registry: namespace to pending flag | `dispatch`: claim or coalesce, run, rerun, release | the permit inside, triggers outside (episode end, REST endpoint, periodic sweep) |
| Promotion pass (`promote_bounded`) and its workspace (`core/storage/sqlite.rs`, `postgres.rs`, `consolidation_workspace.rs`) | `consolidation_runs`, `consolidation_sources`, semantic `mentioned` rows, the run's locals | begin or resume, page, match, finalize, promote, checkpoint, complete | writers of sources, users superseding facts, other processes on the database |
| Decay pass (`decay_bounded`) | stability, retrievability, reliability columns | page, commit | recalls, saves, deletes, other processes |
| Embedding generations (`core/embedding_migration.rs`, `storage/`) | `namespace_embedding_state`, `memory_embeddings`, `embedding_backfill_queue`, source rows | save, supersede, restore, delete; initialize, begin, backfill, verify, activate, roll back | writers, backfill workers, operators, recall (which reads the active space) |
| Entities and memories (`core/storage/`, `tools/server.rs`, `core/observation.rs`) | entity rows, messages, facts, observations | remember, observe, extract, forget, erase | one another, between the storage calls of a request |
| Snapshots (`core/snapshot.rs`) | a directory of files per namespace, the rows | bounded forget with its snapshot, retention, restore in pages | writers, other forgets, the file system |
| PostgreSQL backend (`core/storage/postgres.rs`) | the same tables | the same operations, as transactions that lock rows | other connections |
| Retrieval (`core/retrieval/`, `rrf.rs`, `recall_grouped.rs`, ...) | none of its own | ranking and fusion | active space, lexical index, reinforcement of what it returns |
| Recall admission (`tools/state.rs`) | semaphore, reserved bytes | acquire, try_acquire, drop | every recall |
| Gateway (`gateway`) | circuit breaker, key cache, rate windows, usage counts, tenant cache | per request; Redis and Postgres may be down | Redis and the database shared with sibling gateways |
| Front ends (`pensyve-mcp`, `pensyve-cli`, Python, TypeScript, Go, WASM) | none | call the core or the REST API | |

What is hard in this code:

* threads that share one permit and one registry and may be cancelled or time
  out anywhere;
* operations made of several transactions: a backfill that embeds outside any
  transaction, a promotion or decay pass whose every page is a transaction, a
  request that looks a name up, embeds for seconds, then writes;
* work that ends early, by a deadline, a cancellation or a crash, and resumes
  from what it has stored;
* several processes or gateways on one database, one Redis, one directory;
* answers that come too late, or never, although the command was executed.

`PROJECT.json` lists the single hazards at their lines, each with the property
that would show it going wrong.

What makes the parts correct:

* permit: at most one holder, first come first served, never lost;
* gate: at most one owner of a namespace, no claim without an owner, no
  coalesced trigger without a later snapshot, every call returns;
* promotion: no fact twice, only on current evidence, none resurrected; the
  clustering does not depend on pages and interruptions; everything is decided
  in the end;
* decay: a complete pass has seen every row, nothing is halved twice for one
  span of time, what is not used fades;
* embedding generations: what recall ranks is one complete generation of
  current vectors, and a migration forgets nothing, on either backend;
* entities: a name keeps its id, a forget or an erasure takes what it names;
* snapshots: what is deleted can be had back;
* gateway: one probe of a broken service, limits that hold across replicas, one
  namespace per tenant, counts that are neither lost nor doubled beyond what
  the code says.

## Modules

| Module | Models | Composition |
|---|---|---|
| `FifoPermit` | what the permit promises: a queue whose waiters may leave | abstract specification |
| `FairPermit` | `PermitState`, `acquire`, `abandon`, `advance_abandoned`, the guard's drop | |
| `ConsolidationGate` | `dispatch`, `claim`, `finish_or_rerun`, `Lease`, `run_bounded_internal` | `EXTENDS FairPermit` |
| `ConsolidationWorkspace` | `promote_bounded` over the SQLite workspace | |
| `PostgresWorkspace` | the same pass on PostgreSQL: statements, row locks, deadlock detection | `EXTENDS ConsolidationWorkspace` |
| `ConsolidationDecay` | `decay_bounded` over `page_decay` and `commit_decay`, recalls beside it | |
| `EmbeddingLifecycle` | the embedding generations of a namespace in SQLite: one transaction, one action | what `PostgresLifecycle` implements |
| `PostgresLifecycle` | the same on PostgreSQL: transactions, row locks, READ COMMITTED, vector search | `EXTENDS EmbeddingLifecycle` |
| `EntityData` | entities, messages, facts and observations under concurrent requests | |
| `SnapshotStore` | bounded forget, snapshot files, retention, restore | |
| `TenantNamespaces` | how processes find, create, initialize and cache a tenant's namespace | |
| `RateLimiter` | the Redis script, its timeout, the fallback buckets | |
| `UsageCounter` | increments, the flush loop, shutdown | |
| `RecallAdmission` | permits and bytes of recalls over tokio's semaphore | |
| `CircuitBreaker` | deployments: pods, the Redis keys they share, callers | |
| `ConsolidationProofs` | theorems of permit, gate and decay, and of `MCConsolidation` | `EXTENDS MCConsolidation`, instantiates `PostgresWorkspaceProofs` |
| `ConsolidationWorkspaceProofs` | theorems of the pass of one process | `EXTENDS ConsolidationWorkspace` |
| `PostgresWorkspaceProofs` | theorems of any number of processes, on either backend | `EXTENDS` the one before and `PostgresWorkspace` |
| `LifecycleProofs` | theorems of the embedding generations on either backend | `EXTENDS PostgresLifecycle` |
| `EntityDataProofs` | theorems of `EntityData` | `EXTENDS` it |
| `GatewayProofs` | theorems of tenants, rate limits and snapshots, and of `MCGateway` | `EXTENDS MCGateway`, instantiates `EntityDataProofs` |
| `ProgressProofs` | theorems of recall admission and usage counter | `EXTENDS` both |
| `CircuitBreakerProofs` | theorems of the breaker | `EXTENDS CircuitBreaker` |
| `MCConsolidation` | gate with permit (mapped to `FifoPermit`), promotion and decay of two processes | composes `ConsolidationGate`, `ConsolidationDecay`, `PostgresWorkspace` |
| `MCProgress` | dispatch, admission and usage counter with fairness | composes the three |
| `MCGateway` | rate limiter, tenants, snapshots, entities | composes the four |
| `MCConsolidationWorkspace`, `MCPostgresWorkspace`, `MCPostgresLifecycle`, `MCCircuitBreakerFleet` | instances | |

Some runs hold several instances of one question. A variable that is chosen
once and never changes (`part`, `conf`, `config`, `postgres`) says which one a
behaviour is of; the variables of the others keep their initial values.

`FifoPermit` states the line as a relation: `line` is who waits or is served,
`order` the pairs of whom the first asked before the second, `served` who has
the permit. `FairPermit` maps to it by the distances of tickets from `serving`.

Definitions that begin with a comment `Variant:` are plausible mistakes in the
code (a dropped test, a missing reset). No specification uses them; each
property of a run was seen to fail when a definition is replaced by its
variant, and `PROJECT.json` pairs them under `mutants`.

### FairPermit

The variables are the fields of `PermitState`, the local `ticket` of each
thread and the set of live guards. `Acquire(p, stop)` is `acquire` up to its
first wait, which happens under one lock; `Recheck(p, stop)` is another pass of
its loop after `notify_all` or 50 ms; `stop` is the test of the token and the
clock, which comes before the comparison with `serving`. Both either abandon the
ticket, are granted, or wait. `AdvanceAbandoned` is the loop that skips
abandoned tickets, as the position it stops at. The u64 counters are integers
modulo `TicketSpan`; `SpanLeft` is what 2^64 gives the code for granted, that
fewer tickets are outstanding than there are values.

### ConsolidationGate

A caller walks through `pc`: `enter`, `waiting`, `running`, `snapped`,
`complete`, `finishing`, and out, with `failed` and `expired` for the outcomes
that drop an armed lease. `registry[n]` is the map's entry. `elapsed` is the
one clock of the caller (`start` is read before `dispatch`), counted in ticks up
to the budget; a rerun goes on with what is left of it, although the module
comment of `gate.rs` says that each run has its own (see Disagreements). A run is
reduced to its source snapshot and its outcome. `owed`
is a history variable: namespaces triggered since the last snapshot.

### ConsolidationWorkspace

One namespace, one active space. A source is its rank in the order of the
workspace (entity, timestamp, id); its text stands for hash and vector, and
`Similar` for the cosine test. Each storage call of `promote_bounded` is an
action: `Begin`, `ReadCursor`, `NextPage`, `TakeSource`, `LoadAnchor`,
`ScanCandidates`, `MatchCandidate`, `Finalize`, `CommitPromotion`,
`Checkpoint`, `Complete`; `run[r]` is what the function holds in its locals
between them. `Stop` ends a run anywhere, with a checkpoint (cancelled, out of
time) or without (an error, a crash). Writers rewrite, retire and delete
sources and supersede or delete promotions between any two actions. `Cluster`
and `Taken` define the clustering the pass should compute, as a recursive
function over the sources.

### PostgresWorkspace

The variables of `ConsolidationWorkspace` are the committed rows, `tx[c]` is the
open transaction of a connection: the statement it is at, the row locks it has,
those it still waits for, and what it has read for a later statement (`note`).
`Ask` starts a statement, `Lock` grants the next row when nobody has it in a
conflicting mode, and the action that follows does what the statement finds
then, which is what READ COMMITTED sees. What the pass decides from its locals
is that of `ConsolidationWorkspace`: the actions call `NextPage`, `LoadAnchor`,
`ScanCandidates` and `Finalize` where the backends agree. They disagree in
`Assigns`, which takes fewer rows than SQLite's `Matches`. `DetectDeadlock`
ends one transaction of a circle; in a run that is an error without a
checkpoint. Updates of the run's row alone need no transaction and are guarded
by `RunFree`.

### ConsolidationDecay

`page_decay` and `commit_decay` are two transactions; the values computed from
the first are written by the second as they are, so `pass[r].page` is a copy
that may be stale. The same holds for a recall that reinforces an episodic row.
FSRS is reduced to what the pass does with it: stability is the number of times
it was halved, a row has faded when it was not used for longer than
`HorizonOf` that number (a recursive function: each halving halves it), and `commit_decay` writes the time of the commit as
the last access. A pass is interrupted between pages or in the middle of one
and starts again from the first. `fresh` and `used` are history.

### EmbeddingLifecycle

`content`, `superseded` and `vec` are the rows; `phase`, `active`, `target`,
`barrier` the lifecycle row; `queue` the pending rows; `job[w]` a backfill item
between the transaction that read it and the one that commits it. Every storage
operation is one action, with what it does to queue and phase included
(`Reconcile` is part of every write). A page of several items is several
workers. Sequence numbers are computed as in the code, from the rows present.

### PostgresLifecycle

The variables of `EmbeddingLifecycle` are the committed rows. A transaction is
`tx[t]`: its first statements read and decide (`Begin...`), its later ones write,
and what they write is visible from its commit on (`Commit...`). Writers and
operators take the row of the namespace first (`nsLock`), so of those only one
is open; a backfill page and a vector search take no such lock and are split at
every statement, each of which sees what is committed when it starts.
`CommitsAreAtomic` is the refinement step by step: what a commit does to the
rows is what the action of `EmbeddingLifecycle` of the same name does in that
state, although the transaction has decided earlier.

### EntityData

A request is a sequence of storage calls: look a name up, create the entity if
it is missing, embed, write; an erasure or forget looks up and deletes. Calls
are atomic, and any other request may run between two of them. Ids are named
after the request that made them. SQLite's `save_entity` is INSERT OR REPLACE
on a unique name, PostgreSQL's refuses the second row. An observation holds its
episode and no entity. `before` and `erased` are history: what was stored when
a forget or an erase was asked for, and which ids are gone.

### SnapshotStore

The rows of one entity, forgets that delete them page by page in one
transaction while they write the file, and restores that read a file twice,
once to validate it. A file is partial until `Finish` renames it inside the
transaction, which may still fail, or commit and answer with an error
(`CommitUnknown`). Retention runs after the commit under the lock of the
namespace, with a clock that may have been set back. `Crash` drops what a
process holds; files stay. Bytes are counted in units: a row has one or two.

### TenantNamespaces

`GetTenantState`, `ResolveTenant`, `SaveNamespace`, `EnsureLifecycle` and
`InsertTenant` are the steps of the gateway's `get_tenant_state`, each a
transaction or a change of the cache; the lock of the cache is held throughout,
so a process opens one tenant at a time. Processes crash anywhere. A process
without a cache (the stdio server, the CLI) is one that crashes after each
request.

### RateLimiter

One tenant. A check reads the clock (`Arrive`), sends the script
(`SendScript`), and takes its answer or falls back to the bucket of its pod
after 150 ms, an error or with Redis down. The script may still run
(`RunScript`) up to `Lag` ticks after the clock was read, or never. The bucket
of a pod is the set of its admissions, each with the time and the turn in which
it was pushed, which is the deque of timestamps with their owners. Scores and
the day are those of the check's own clock readings, so scripts run in another
order than their times. That is why `WindowHolds` speaks of windows shortened by
`Lag` only: of a whole window the limit holds when no script is late, and not
otherwise (see Disagreements).

### UsageCounter

`channel` and `batch` are sequences of increments, `flushing` the batch by key
while `flush_batch` writes it one key after the other with `Attempts` tries; an
upsert may be executed and answered with an error (`repeated`). `Return` is
`main` returning: the runtime ends its tasks and does not wait for them.

### RecallAdmission

`available` and `queue` are the semaphore, which is external and modelled from
its documented behaviour: first come first served, and a permit given back goes
to the head of the queue. `reserved` is `reserved_bytes`. Permit and bytes are
taken in two steps and given back in two: `Drop` of the reservation subtracts
the bytes before the compiler drops its permit field. The runtime calls
`try_acquire` only, `acquire` is used by the tests; both are modelled. The
overload counters are left out.

### CircuitBreaker

`state`, `since` and `failures` are the `FallbackState` of each pod, `redis` and
`count` the keys the pods share. A timestamp is its age, a key is the age of its
last write and goes at its TTL, so `Tick` is the only thing that makes time
pass. The local part of `check`, `record_success` and `record_failure` is one
step, because the code holds its mutex for it; every Redis command is a step of
its own, and `todo[c]` is the list of those the caller has still to send. A
command may be lost: it is not executed and the caller sees an error. `Timeout`
is the 100 ms limit: what the preflight has not read counts as absent, what an
outcome has not sent stays unsent. `Drop` is a request that is cancelled at an
await; it records no outcome. GETs whose answers the decision ignores are left
out.

A behaviour is of one deployment, `config`: the pod of each caller, whether there
is Redis, thresholds, times and the bounds of the model. `ConfigAssumption` says
of all of them that a call is shorter than the cooldown, and a call with a wait
for Redis shorter than the probe timeout (3 s and 100 ms against 30 s for both
in the code): a probe is over before the next is due unless its caller is gone.

`HalfOpenIsQuiet` speaks of pods without Redis. `OneProbeUndisturbed` speaks of
pods with Redis while no command is lost and no caller is dropped, and makes one
exception. `holder` is the caller whose claim the key `probe` stands for;
`overridden` are callers whose key was deleted by somebody else's outcome while
they have the probe. A call that was let through before the circuit opened, by a
pod that had not heard of it, reports late, and `record_success` and
`record_failure` delete the key whoever set it. With a caller dropped in the
middle of its outcome, after the probe key is deleted and before the new open
state is written, a second pod may probe too; that is why lost commands and
dropped callers are excluded.

## Runs

| Run | Instance | Checks | Shows |
|---|---|---|---|
| `consolidation` | gate: 3 callers, tickets modulo 5, 2 namespaces, budget 1 tick. Promotion on SQLite: 2 processes, 3 sources of one text about entities 1, 1, 2, pages of 2 and 1, at most 2 members, 1 write. Promotion on PostgreSQL: the first two of these sources, 2 processes, and either 1 writer or 1 run that stops early. Decay: 2 rows, 2 sweepers, pages of 1, horizon 1, clock to 2 | `PermitNotLost`, `OneOwner`, `ClaimHasOwner`, `OnePass`, `NoDuplicatePromotion`, `SupersededStaysBuried`, `MutationsSerialize`, `CompletePassSawAll`, `HalvingsArePaid`, `ImplementsFifo`, `NoWorkDropped` | Who may consolidate at a time, and what is left to the transactions when two processes do |
| `workspace` | 1 run, 3 sources of one entity, 3 texts where the middle one is similar to both others, pages of 2 and 1, 2 writes, 1 early end | `CursorCoversDecided`, `ClusteringIsGreedy`, `EvidenceIsCurrent`, `EventuallyConsolidated` | An interrupted pass resumes as if it had not stopped, on current evidence, and finishes |
| `embedding_lifecycle` | 2 memories, 2 hashes, 2 spaces, 1 worker, sequence numbers to 3; on PostgreSQL 2 transactions at a time and a searcher | `LifecycleInv`, `ActiveCoverage`, `NoStaleVector`, `NothingForgotten`, `SearchIsComplete`, `CommitsAreAtomic` | Either backend keeps the active generation complete and current; a PostgreSQL transaction does at its commit what the operation promises |
| `gateway` | limits: 4 requests, 1 pod, 2 per window of 3, 3 per day, midnight at 2, scripts up to 1 tick late, time to 4. Tenants: 2 processes, 3 tenants, caches of 2. Snapshots: 3 rows, two of them large, pages of 2 rows or 3 bytes, 2 forgets, 1 restore. Entities: 2 names, 3 requests, 1 episode | `WindowHolds`, `QuotaIsAdmissions`, `RetryFindsRoom`, `OneNamespace`, `NothingIsLost`, `RetentionHolds`, `RestoreIsComplete`, `ForgetTakesAll`, `NamesAreStable`, `LeftIsOfTheErased`, `ObservationsGoWithMessages` | What the handlers of one or several servers share |
| `progress` | dispatch: 2 triggers, tickets modulo 4, 2 namespaces. Admission: 4 callers, 2 permits, 2 bytes, requests of 0 to 3. Usage: 2 keys, amounts 1 and 2, channel of 2, batches of 3, 2 attempts | `CountsConserved`, `FairShareAdmitted`, `CallerReturns`, `WaitEnds`, `CountsSettle` | Callers return, waits end, counts arrive |
| `breaker_fleet` | 3 callers on one pod without Redis (threshold 2, window 2, cooldown 2, probe timeout 3, 2 mishaps, 4 failures); 2 pods with a caller each and Redis (threshold 1, window 1, cooldown 3, probe timeout 3, 1 mishap, 2 failures) | `HalfOpenIsQuiet`, `OneProbeUndisturbed`, `Recovers` | One probe at a time while nothing is lost, and a healthy service is used again |
| `breaker_late_answer` | 3 pods with a caller each and Redis (threshold 1, window 1, cooldown 2, probe timeout 3), 1 failure, nothing lost, nobody dropped | `OneProbe` violated | finding |
| `entity_forget` | SQLite, 1 name, 3 requests | `ForgetIsEntityWide` violated | finding |
| `postgres_resume` | PostgreSQL, 2 sources, 1 process, 1 early end | `CursorCoversDecided` violated | finding |
| `decay_unused` | 1 row, 1 sweeper, horizon 2, clock to 4 | `UnusedIsDecayed` violated | finding |
| `usage_shutdown` | 2 keys, counts to 3 | `ShutDownLosesNothing` violated | finding |
| `snapshot_pages` | 3 rows, 1 forget, 1 restore | `EverySnapshotRestores` violated | finding |

Why the bounds are enough:

* a ticket span of 5 with three callers wraps around while tickets are waiting,
  held and abandoned; two callers share one namespace while the third has
  another;
* three sources with pages of 2 and 1 have page boundaries before, inside and
  after a cluster; with the chain of three texts a source is similar to two
  possible anchors; two writes let a source change and change back, or change
  twice around a decision. With two processes one text is enough for a
  duplicate, and two sources for every circle of two transactions;
* two sources of one text, or one of two texts, two spaces and one worker give
  each pair of operations both orders. More sources only repeat these pairs;
* two forgets are a writer and a pruner; the sizes make a page end by rows in
  one case and by bytes in the other; a restored file is the oldest;
* three requests are two that create one name and a third that forgets it, or
  a message, the extraction from it and the erasure between them;
* four requests exceed the limit on both sides of midnight and of a window;
* a pod needs three callers for a late outcome, a probe and a third that asks
  meanwhile; the fleet needs two pods, and three for a late outcome of one, a
  probe of the next and a second probe of the third.

Sequence numbers, clocks, tickets, counts, writes and stops are bounded by
guards (`MaxSeq`, `MaxClock`, `MaxTime`, `TicketSpan`, `MaxCount`,
`MaxRepeated`, `MaxWrites`, `MaxStops`, `MaxMishaps`, `MaxFailures`); a clock at
its bound stands still.

Symmetry is used where the configuration names it, never in a run with a
liveness property. The values of `Tasks` are those of `Tenants` in `MCGateway`:
the parts do not meet, so one set of permutations serves both.

Deadlock is not checked in `MCProgress`, `MCGateway`, `MCUsageShutDown`,
`MCSnapshotStore` and `MCEntityDataForget`: a finite number of requests is made
and then the system really stops. It is checked in the others.

## Fairness

* `progress`: a caller inside `dispatch` takes its next step and the clock goes
  on (threads are scheduled, `Instant` advances); an admitted recall finishes,
  since its work is bounded by its deadlines; the flush loop runs, being a task
  of the runtime. A trigger need not come, a waiter need not give up, an
  interruption need not happen. `CallerReturns` therefore rests on the clock:
  the budget is the only end of an owner whose namespace is triggered without
  pause, and an owner whose run ended incomplete must not look at the pending
  flag again. It holds because the runs of one call share the clock
  (`core/consolidation/mod.rs:637`). Were the module comment of `gate.rs` true,
  that an owner spends its budget once per run, a call under sustained triggers
  would never have to return (see Disagreements).
* `workspace`: the pass takes its next step (`WF_vars(Pass(r))`), which includes
  a new run after the last one, as the periodic sweep makes one. Writers and
  stops are bounded and not fair. `EventuallyConsolidated` is `<>[]`.
* `breaker_fleet`: a caller that is let through answers or is dropped, Redis
  commands end by their timeout, and time passes. Nobody need fail or be
  dropped.

All of it is weak fairness. No lock or queue is assumed to be fair beyond what
the code or tokio's documentation gives: the order in the permit is that of the
tickets, the semaphore is first come first served.

## Proofs

Every safety property that a run checks is also a theorem; `PROJECT.json` lists
the theorems with the property each of them states.

| Module | Theorems | Along which argument |
|---|---|---|
| `ConsolidationProofs`, permit | `PermitInvariant`, `PermitIsExclusive`, `PermitIsNeverLost`, `PermitImplementsFifo` | `PermitInv`: the tickets from `serving` to `next_ticket` are all taken, each by one waiter, the holder or an abandonment, and `serving` itself is not abandoned. That nothing is lost is not inductive: it needs that a skipped run of abandoned tickets ends at a waiter or at `next_ticket`. The refinement compares distances from `serving`, which wrapping around does not change |
| gate | `GateInvariant`, `GateHasOneOwner`, `ClaimsAreOwned`, `OnePassAtATime`, `CoalescingDropsNoWork`, `GateImplementsFifo` | `GateInv`: a claim is in the registry exactly while one caller is between claim and release; with `OwedNoted`, that what was triggered since the last snapshot is noted in the registry or belongs to an owner before its snapshot |
| decay | `DecayInvariant`, `CompletePassesSawAll`, `HalvingsAreAlwaysPaid` | `DecayInv`: behind its cursor a pass has read every row that is still there, and what a page was charged is what its rows' updates cost (`Paid`). The two recursive functions of the module are shown to satisfy their equations first |
| both backends | `PromotionsAreUnique`, `SupersededFactsStay`, `MutationsNeverInvert` | the specification of `MCConsolidation` starts and steps as the instance of `PostgresWorkspace` does, so the theorems of that module are its own |
| `ConsolidationWorkspaceProofs` | `PassInvariant`, `CursorAlwaysCovers`, `EvidenceIsAlwaysCurrent`, `ClusteringIsAlwaysGreedy` | for one process (`OneRunner`). `PassInv`: what each step of the run knows of the workspace is still so (`Knows`), and the stored cursor has passed nothing undecided. `GreedyInv` adds, while nobody has changed a text under the pass, that the clusters resolved so far are those of the reference and the open one has what a greedy scan has gathered up to where the run is |
| `PostgresWorkspaceProofs` | `SharedInvariant`, `FactsAreUnique`, `BuriedFactsStay` | for any number of processes on SQLite. `SharedInv`: a cluster is of one entity, a run in its loop has an anchor of its page and compares it with sources of the anchor's entity, and a fact is live once or not at all |
| | `TransactionsInvariant`, `FactsAreUniqueOnPg`, `BuriedFactsStayOnPg`, `NoInversion` | the same on PostgreSQL. `WInv` adds the locks: a row is had in one conflicting mode at a time (`Exclusive`), each statement asks for the rows it is to have (`Asks`), mutations ask in one order (`Ordered`), and what was read under a lock is so still (`Ready`). Assumed is `OwnConnections`: a process's connections and a writer's are not the same |
| `LifecycleProofs` | `LifecycleInvariant`, `ActiveNamespaceIsCovered`, `VectorsAreCurrent`, `ReadyMigrationIsCovered`, `MigrationForgetsNothing` | `LifecycleInv`, which relates phase, pointers, queue and coverage; activation uses that a ready migration is covered. `MigrationForgetsNothing` adds `PointersAgree` and what a late worker may still delete: a row is named by memory and sequence number, and numbers are used again |
| | `PgInvariant`, `TransactionsAreAtomic`, `CoverageHoldsOnPg`, `SearchesAreComplete` | `PgInv`: one transaction has the row of the namespace, and what it has decided is what it would decide now (`Decided`, one predicate for each operation). A commit is then a step of `EmbeddingLifecycle` (`CommitAtOnce`, operation by operation), whose invariants carry over. The worker of an open backfill keeps its item, although its page is read under no lock |
| `EntityDataProofs` | `DataInvariant`, `NamesAreAlwaysStable`, `OnlyTheErasedIsLeft`, `ObservationsAlwaysGo` | ids are made once, and a name that has a row keeps it until an erasure, on PostgreSQL, or on SQLite with entities that exist (`StableNames`); then a memory holds the ids of the names it was stored for, unless they were erased |
| `GatewayProofs`, tenants | `TenantInvariant`, `TenantHasOneNamespace` | `TenantInv`: what a process holds or has cached for a tenant is the row in the database, at every step of opening it |
| rate limiter | `RateInvariant`, `WindowAlwaysHolds`, `QuotaCountsAdmissions`, `RetryAlwaysFindsRoom` | `RateInv`: every admission is in the sorted set or the bucket that counted it until it has left the window of the present time, scripts that run late included, so that a decision by a clock at most `Lag` behind counts all of the last `Window - Lag` ticks; and the counter of a day is what was admitted or is about to be given back |
| snapshots | `SnapshotInvariant`, `NoRowIsLost`, `ForgetKeepsItsSnapshot`, `RestoresAreComplete`, `CommitsTakeAll`, `RetentionAlwaysHolds` | `SnapshotInv`: what a transaction has deleted is in its partial file, a file gets its name before the rows can go, and a forget that is not over protects its file from pruning. `RestoreInv`: a row of the restored file is stored, still to be written, or was deleted since. `RetentionInv`: how many files a prune leaves |
| entities | `EntityNamesAreStable`, `EntityForgetsLeaveTheErased`, `EntityObservationsAlwaysGo` | the theorems of `EntityDataProofs` for the two backends of `MCGateway` |
| `ProgressProofs` | `AdmissionInvariant`, `PermitsMeanBytes` | permits are in the semaphore, with a caller, or on their way to a queued one, and whoever has bytes has a permit |
| | `CountsAreConserved` | `UInv`: types and the conservation itself. The work is in the sums: an increment more at the end of a sequence, or one less at its head, changes the total by its share |
| `CircuitBreakerProofs` | `BreakerInvariant`, `HalfOpenIsAlwaysQuiet`, `OneProbeWhileUndisturbed` | `Inv`: a request on its way through a pod that is not closed is at least as old as the pod's state (`Quiet`), and a caller that has the probe and was not overridden has the key, which is not older than the caller and its wait for Redis (`Claimed`) |

Every theorem is for all values of the constants under the named assumptions of
the module: `TicketSpanAssumption`, `GateAssumption`, `DecayAssumption`,
`WorkspaceAssumption`, `LifecycleAssumption`, `PostgresAssumption`,
`TenantAssumption`, `RateAssumption`, `SnapshotAssumption`,
`AdmissionAssumption`, `UsageAssumption`, and of the compositions
`ConnectionsAssumption` and `EntitiesAssumption`. They say no more than that
bounds are numbers, sets of actors are what the code gives and model values are
distinct. `ConfigAssumption` says of the breaker's times what its defaults
have. `SpanLeft` is a guard of `FairPermit` and not an assumption of the
theorems. `OneRunner` and `OwnConnections` are hypotheses of the theorems that
need them, since the other theorems of these modules do without.

Two arguments come again. The library states induction for an operator, which
the provers cannot be given; a proof that needs it takes the least number that
does not have the property (`LeastNat`), whose predecessor has it. And a
recursive function is a `CHOOSE` until something satisfies its equation; the
lemmas `Recursion` and `SumsExist` construct that.

Where a theorem states a property that a run checks too, the run was first.

Only model-checked:

* liveness: `EventuallyConsolidated`, `CallerReturns`, `FairShareAdmitted`,
  `WaitEnds`, `CountsSettle`, `Recovers`. The temporal provers do not handle
  fairness, which is stated by `ENABLED`;
* the converses: that a property of one process (`CursorCoversDecided`,
  `ClusteringIsGreedy`) may fail with two, and the findings, which are
  counterexamples.

## Findings

Each is a run that ends with a counterexample; `PROJECT.json` has the lines and
the sentences of the repository they contradict.

1. `breaker_late_answer`: a call let through by a pod that never learned of the
   trip reports while another pod's probe is under way; its outcome deletes the
   probe key, and a third pod is granted the probe, although Redis answers
   everything. (When Redis answers with errors, two callers of one pod that both
   saw the cooldown elapsed are both let through as well, because `check` enters
   half-open after the await without asking again.)
2. `entity_forget`: on SQLite two requests that create one name at once leave
   memories under an id that no name leads to; `pensyve_forget` of the name does
   not find them.
3. `postgres_resume`: on PostgreSQL a run that ends between the decision about a
   cluster and its promotion, for example because the embedder fails there,
   leaves the cluster finalized. The next run can neither take it up nor see
   that nobody else has it; it checkpoints past it, and the fact is not promoted
   until one of its sources changes. SQLite takes it up.
4. `decay_unused`: the decay pass writes the last access it measures from, so a
   memory nobody uses never fades where the pass comes often enough.
5. `usage_shutdown`: `main` does not wait for the flush loop; what it holds at
   shutdown is lost.
6. `snapshot_pages`: a forget of rows that fill a page by bytes writes a
   snapshot that the restore refuses, because it counts pages by rows.

### Disagreements between comments and code

Seen while modelling, and not runs of their own; the steps are what TLC finds
when it is asked.

* The budget of a run. `core/consolidation/gate.rs:58-66` says that
  `max_duration_secs` "bounds a *run*, not a caller", that an owner which runs
  again "spends that budget once per run", and that it keeps running while
  triggers keep arriving. `run_bounded_internal` reads the clock once per call
  (`core/consolidation/mod.rs:637`), before `dispatch`, and hands that `start` to
  the permit and the pass of every run, so a run again has what the runs before
  have left. In the model: a caller claims a namespace, a trigger coalesces, the
  run takes its snapshot and ends complete, the budget passes (`Tick`), `Rerun`,
  and `EnterRun` abandons its ticket and goes to `expired`. The snapshot that
  the coalesced trigger waits for is not taken, and the call answers
  `DurationExceeded` although its first run was complete; the trigger's work is
  left to the next trigger or sweep, as after any incomplete run.
  `NoWorkDropped` and its theorem speak of owners that leave through
  `finish_or_rerun` only. `CallerReturns` needs what the code does: with a clock
  that starts again at every `Rerun`, as the comment has it, TLC finds a caller
  that never returns. The model follows the code; it is the comment that
  misleads.
* The limit of requests. `gateway/rate_limit.rs:11-12` says that the script's
  single round trip keeps concurrent replicas from racing past the limit. It
  prunes by the clock its request has read (`gateway/rate_limit.rs:333`), and
  scripts reach Redis in another order than their clocks. In the model, with a
  limit of 2, a window of 3 and scripts up to one tick late: two requests are
  admitted at 0, the script of one with clock 3 prunes them, and a later one with
  clock 2 is admitted, the third of the window from 0 to 2. `WindowHolds` is what
  is left of the claim; with limits above one, nearly twice as many can be in a
  whole window.

Also met: on PostgreSQL the cluster
mutations lock in one order (`MutationsSerialize`), but other transactions of
the pass do not share it. `begin_or_resume` locks the lifecycle before the run
and a promotion the run before the lifecycle; `load_source` and
`page_later_unassigned` lock a workspace row before the run and a match or a
finalization the run before its rows; the rebuild in `begin_or_resume` checks a
foreign key to the namespace with the lifecycle locked, a save locks them the
other way round. With two processes, or a process and a writer, PostgreSQL ends
one of the two, which the model includes as `DetectDeadlock`. The module comment
of the snapshots speaks of a lock per namespace; the two backends serialize
forgets by themselves.

## Limits of the models

* Two processes on one workspace: `gate.rs` says that it is process-local.
  `consolidation` checks what the transactions still guarantee then
  (uniqueness, nothing resurrected). That the text of a promotion is one of the
  texts its sources have now, and `CursorCoversDecided`, can fail with two
  processes, as one rebuilds or checkpoints what the other works on.
* A source that changes and changes back between the decision and the promotion
  is not distinguished from one that did not change, neither by the code nor by
  `EvidenceIsCurrent`.
* A cluster above `MAX_PROMOTION_CLUSTER_MEMBERS` ends the run before its
  checkpoint, and every later run again. The code reports this with a type of
  its own; the instances for liveness stay within the bound.
* The limit of requests is checked and proved for windows of `Window - Lag`
  ticks. The claim of `gateway/rate_limit.rs:12`, that replicas cannot race past
  the limit, is not covered for a whole window, and does not hold of one (see
  Disagreements).
* Byte budgets of the pass are left out: they end a run as a stop does.
* `EntityData`: an erasure after a forget finds no messages any more, so
  observations made from them stay; `ObservationsGoWithMessages` speaks of
  observations whose messages the erasure itself takes.
* SQLite's page deletes leave a transaction without ROLLBACK when COMMIT itself
  fails; that error is not modelled.
* A pod of the breaker counts failures by the TTL of a shared key which each
  failure refreshes; the model has that, and no property forbids it.

## Not modelled

* Retrieval, fusion, reranking, classification, the formulas of decay, salience
  and reliability: numbers and orderings without control of their own.
* Sharing (`mesh.rs`, `sync.rs`, `a2a.rs`): small, sequential, in memory.
* Front ends and bindings, parameters and REST glue: calls into what is
  modelled.
* Authentication: checks of keys and tokens and the cache behind the breaker.
* Row CRUD and row level security of PostgreSQL (`storage/postgres/live_rls.rs`
  holds the tests of the latter); exports; the older, unpaged snapshot
  functions, which are sequential.
* Benchmarks, load test, integrations, scripts.

## Plan

In this order, as far as the project is continued:

1. `PostgresWorkspace` with two processes and a reference clustering that
   tolerates rebuilds, so that what two unsynchronised processes still compute
   can be said exactly; `EventuallyConsolidated` on PostgreSQL once
   `record_tentative_match` agrees with SQLite's.
2. Proofs for the specifications of the other compositions, as those of
   `MCConsolidation` and `MCGateway` have: `MCPostgresLifecycle`, `MCProgress`.
3. Leads-to properties reduced to the action properties they rest on, which can
   be proved where fairness cannot: that an attempt of the flush loop or a page
   of a pass never goes back.
4. The cache of `auth.rs` with its expiry and revocations, composed with
   `CircuitBreaker`.
5. Exports under concurrent deletes on PostgreSQL, where pages are statements.
