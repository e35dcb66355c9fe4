-------------------------- MODULE TenantNamespaces --------------------------
(***************************************************************************)
(* How processes come by the namespace of a name: the tenants of the       *)
(* gateway (pensyve-mcp-gateway/src/tenant.rs), and the namespace a        *)
(* pensyve-mcp server, the CLI or the Python binding opens when it starts. *)
(* The name is looked up, a missing namespace saved under a fresh id, and  *)
(* its embedding lifecycle initialized.  The three are transactions of     *)
(* their own and processes share the database.                             *)
(*                                                                         *)
(* On SQLite saving is INSERT OR REPLACE: the row that has the name goes,  *)
(* unless another table refers to it.  On PostgreSQL a second row of a     *)
(* name is refused, and nothing is initialized.                            *)
(*                                                                         *)
(* The gateway keeps the namespaces of its tenants in a cache, least       *)
(* recently used first here; one lock is held from the look into the cache *)
(* until the namespace is in it.  A process without a cache is one that    *)
(* crashes after every request.                                            *)
(***************************************************************************)
EXTENDS Naturals, Sequences, SequencesExt

CONSTANTS
    Procs,
    Tenants,   \* names
    MaxCached, \* MAX_CACHED_TENANTS
    None

\* A process saves at most one row for a name: its second lookup finds one.
Ids == Procs \X Tenants

ASSUME TenantAssumption == MaxCached \in Nat \ {0} /\ None \notin Ids

VARIABLES
    postgres,  \* the storage is PostgreSQL, or else SQLite
    row,       \* the id in the namespaces row of a name
    lifecycle, \* ids that have a namespace_embedding_state row
    cache,     \* per process: [name, id], least recently used first
    opening,   \* per process: what the holder of the lock has got to
    answers    \* what requests were answered with: [name, id]

tvars == <<postgres, row, lifecycle, cache, opening, answers>>

Free == [at |-> "free", name |-> None, id |-> None]

TInit ==
    /\ postgres \in BOOLEAN
    /\ row = [n \in Tenants |-> None]
    /\ lifecycle = {}
    /\ cache = [p \in Procs |-> <<>>]
    /\ opening = [p \in Procs |-> Free]
    /\ answers = {}

Entry(n, id) == [name |-> n, id |-> id]

Answer(n, id) == answers' = answers \union {Entry(n, id)}

\* The entries that were idle too long: they were used before all others.
Fresh(p, k) == SubSeq(cache[p], k + 1, Len(cache[p]))

\* get_tenant_state up to the lookup: a hit is answered and becomes the most
\* recently used, a miss is left to the steps below.
GetTenantState(p, n) ==
    /\ opening[p] = Free
    /\ \E k \in 0..Len(cache[p]) :
        LET kept == Fresh(p, k) IN
        \/ /\ \A i \in DOMAIN kept : kept[i].name # n
           /\ cache' = [cache EXCEPT ![p] = kept]
           /\ opening' = [opening EXCEPT ![p] = [at |-> "lookup", name |-> n, id |-> None]]
           /\ UNCHANGED answers
        \/ \E i \in DOMAIN kept :
            /\ kept[i].name = n
            /\ cache' = [cache EXCEPT ![p] = Append(RemoveAt(kept, i), kept[i])]
            /\ Answer(n, kept[i].id)
            /\ UNCHANGED opening
    /\ UNCHANGED <<row, lifecycle>>

Advance(p, l, id) == opening' = [opening EXCEPT ![p] = [at |-> l, name |-> @.name, id |-> id]]

GiveUp(p) == opening' = [opening EXCEPT ![p] = Free]

\* get_namespace_by_name
ResolveTenant(p) ==
    /\ opening[p].at = "lookup"
    /\ IF row[opening[p].name] = None
         THEN Advance(p, "save", <<p, opening[p].name>>)
         ELSE Advance(p, "ensure", row[opening[p].name])
    /\ UNCHANGED <<row, lifecycle, cache, answers>>

\* Variant: SQLite without its foreign keys.
SqliteReplaces(p, n) ==
    /\ row' = [row EXCEPT ![n] = opening[p].id]
    /\ Advance(p, "ensure", opening[p].id)

\* save_namespace on SQLite.  The old row of the name cannot go when a
\* lifecycle state refers to it.
SqliteSaveNamespace(p, n) ==
    IF row[n] \in lifecycle
    THEN GiveUp(p) /\ UNCHANGED row
    ELSE /\ row' = [row EXCEPT ![n] = opening[p].id]
         /\ Advance(p, "ensure", opening[p].id)

\* save_namespace on PostgreSQL.
PgSaveNamespace(p, n) ==
    IF row[n] # None
    THEN GiveUp(p) /\ UNCHANGED row
    ELSE /\ row' = [row EXCEPT ![n] = opening[p].id]
         /\ Advance(p, "ensure", opening[p].id)

SaveNamespace(p) ==
    /\ opening[p].at = "save"
    /\ LET n == opening[p].name
       IN IF postgres THEN PgSaveNamespace(p, n) ELSE SqliteSaveNamespace(p, n)
    /\ UNCHANGED <<lifecycle, cache, answers>>

\* initialize_local_runtime_space: the id must still be in the table.
Initializes(id) == \E n \in Tenants : row[n] = id

\* ensure_namespace_embedding_lifecycle
EnsureLifecycle(p) ==
    /\ opening[p].at = "ensure"
    /\ LET id == opening[p].id
       IN IF postgres \/ id \in lifecycle
          THEN Advance(p, "insert", id) /\ UNCHANGED lifecycle
          ELSE IF Initializes(id)
          THEN Advance(p, "insert", id) /\ lifecycle' = lifecycle \union {id}
          ELSE GiveUp(p) /\ UNCHANGED lifecycle
    /\ UNCHANGED <<row, cache, answers>>

\* Room for one more.
Evict(s) == SubSeq(s, (IF Len(s) >= MaxCached THEN Len(s) - MaxCached + 1 ELSE 0) + 1, Len(s))

\* The end of get_tenant_state.
InsertTenant(p) ==
    /\ opening[p].at = "insert"
    /\ LET e == Entry(opening[p].name, opening[p].id)
       IN cache' = [cache EXCEPT ![p] = Append(Evict(@), e)]
    /\ Answer(opening[p].name, opening[p].id)
    /\ GiveUp(p)
    /\ UNCHANGED <<row, lifecycle>>

\* The process dies between any two transactions and starts again.
Restart(p) ==
    /\ cache' = [cache EXCEPT ![p] = <<>>]
    /\ GiveUp(p)
    /\ UNCHANGED <<row, lifecycle, answers>>

TNext ==
    /\ UNCHANGED postgres
    /\ \E p \in Procs :
        \/ \E n \in Tenants : GetTenantState(p, n)
        \/ ResolveTenant(p) \/ SaveNamespace(p) \/ EnsureLifecycle(p) \/ InsertTenant(p)
        \/ Restart(p)

TSpec == TInit /\ [][TNext]_tvars

-----------------------------------------------------------------------------

TTypeOK ==
    /\ postgres \in BOOLEAN
    /\ row \in [Tenants -> Ids \union {None}]
    /\ lifecycle \in SUBSET Ids
    /\ \A p \in Procs : cache[p] \in Seq([name : Tenants, id : Ids])
    /\ \A p \in Procs :
        \/ opening[p] = Free
        \/ /\ opening[p].at \in {"lookup", "save", "ensure", "insert"}
           /\ opening[p].name \in Tenants
           /\ opening[p].id \in Ids \union {None}
    /\ answers \in SUBSET [name : Tenants, id : Ids]

\* A tenant has one namespace: every answer any process ever gave for a name has
\* the id that is in its row now, however many processes met over the missing
\* row and whenever they died.  On SQLite its embedding lifecycle is initialized
\* too: without one it stores no vectors and cannot consolidate
\* (get_tenant_state, ensure_namespace_embedding_lifecycle).
OneNamespace ==
    \A a \in answers : a.id = row[a.name] /\ (postgres \/ a.id \in lifecycle)
=============================================================================
