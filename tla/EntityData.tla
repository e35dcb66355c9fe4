----------------------------- MODULE EntityData -----------------------------
(***************************************************************************)
(* What is stored about an entity, and the requests that store it and take *)
(* it away: pensyve_remember, pensyve_observe and pensyve_forget of        *)
(* pensyve-mcp-tools/src/server.rs, the extraction of observations after   *)
(* an episode and the GDPR erasure of the gateway.                         *)
(*                                                                         *)
(* A request names an entity; the rows it writes hold the id the name had  *)
(* when the request looked it up.  The lookup, the creation of a missing   *)
(* entity and the write are calls of the storage of their own: other       *)
(* requests run between them, and minutes pass while a text is embedded or *)
(* an extractor is asked.  A call of the storage is atomic: SQLite holds   *)
(* its connection for it, and on PostgreSQL the calls that write memories  *)
(* take the lock on the namespace first.                                   *)
(*                                                                         *)
(* One namespace.  Snapshots are in SnapshotStore, vectors and generations *)
(* in EmbeddingLifecycle; edges and grants are left out.                   *)
(***************************************************************************)
EXTENDS Naturals, Sequences, FiniteSets

CONSTANTS
    Names,
    Tasks,    \* requests; a task runs one
    Episodes,
    Kinds,    \* of requests, a subset of those of Begin
    Postgres, \* whether the storage is PostgreSQL
    Existing, \* the names whose entities exist when it begins
    None

\* Ids are fresh: the id a task gives a name it creates is its own.  "boot"
\* made those that exist when it begins.
Ids == (Tasks \union {"boot"}) \X Names

Request ==
    [kind : {"remember", "forget", "erase"}, names : {<<n>> : n \in Names}, ep : {None}]
        \union [kind : {"observe"}, names : Names \X Names, ep : Episodes]
        \union [kind : {"extract"}, names : {<<>>}, ep : Episodes]

\* A memory is a record: by, whose request wrote it; kind; ents, the ids it
\* holds; ep, its episode; and for, the names it was stored for (an observation:
\* those of the messages it was made from), which no column holds.

VARIABLES
    entity,  \* the id in the entity row of a name
    rows,    \* the memories stored
    request, \* what a task was asked
    pc,
    got,     \* the ids it has resolved, in the order of its names
    seen,    \* names of the messages an extraction has loaded
    before,  \* rows stored when a forget or an erase was asked
    erased   \* ids of erased entities

vars == <<entity, rows, request, pc, got, seen, before, erased>>

NoRequest == [kind |-> None, names |-> <<>>, ep |-> None]

Init ==
    /\ entity = [n \in Names |-> IF n \in Existing THEN <<"boot", n>> ELSE None]
    /\ rows = {}
    /\ request = [t \in Tasks |-> NoRequest]
    /\ pc = [t \in Tasks |-> "idle"]
    /\ got = [t \in Tasks |-> <<>>]
    /\ seen = [t \in Tasks |-> {}]
    /\ before = [t \in Tasks |-> {}]
    /\ erased = {}

Goto(t, l) == pc' = [pc EXCEPT ![t] = l]

Takes(r) == r.kind \in {"forget", "erase"}

Begin(t, r) ==
    /\ pc[t] = "idle" /\ r.kind \in Kinds
    /\ request' = [request EXCEPT ![t] = r]
    /\ before' = [before EXCEPT ![t] = IF Takes(r) THEN rows ELSE {}]
    /\ Goto(t, IF r.kind = "extract" THEN "load" ELSE "lookup")
    /\ UNCHANGED <<entity, rows, got, seen, erased>>

\* The name a request looks up next: pensyve_observe its source, then the
\* entity it is about.
NextName(t) == request[t].names[Len(got[t]) + 1]

Resolved(t, id) ==
    /\ got' = [got EXCEPT ![t] = Append(@, id)]
    /\ Goto(t, IF Len(got[t]) + 1 = Len(request[t].names) THEN "ready" ELSE "lookup")

\* get_entity_by_name
LookUp(t) ==
    /\ pc[t] = "lookup"
    /\ IF entity[NextName(t)] # None
         THEN Resolved(t, entity[NextName(t)])
         ELSE Goto(t, IF Takes(request[t]) THEN "done" ELSE "create") /\ UNCHANGED got
    /\ UNCHANGED <<entity, rows, request, seen, before, erased>>

\* save_entity on SQLite.  INSERT OR REPLACE: the row that has the name goes.
SqliteSaveEntity(t, n) ==
    /\ entity' = [entity EXCEPT ![n] = <<t, n>>]
    /\ Resolved(t, <<t, n>>)

\* Variant: PostgreSQL replaces it as well.
PgSaveReplaces(t, n) == SqliteSaveEntity(t, n)

\* save_entity on PostgreSQL: a name that has a row is refused, and with it
\* the request.
PgSaveEntity(t, n) ==
    IF entity[n] = None
    THEN /\ entity' = [entity EXCEPT ![n] = <<t, n>>]
         /\ Resolved(t, <<t, n>>)
    ELSE /\ Goto(t, "failed")
         /\ UNCHANGED <<entity, got>>

\* get_or_create_entity, of a name it has not found.
CreateEntity(t) ==
    /\ pc[t] = "create"
    /\ IF Postgres THEN PgSaveEntity(t, NextName(t)) ELSE SqliteSaveEntity(t, NextName(t))
    /\ UNCHANGED <<rows, request, seen, before, erased>>

Store(t, kind, ents, names) ==
    rows' = rows \union {[by |-> t, kind |-> kind, ents |-> ents, ep |-> request[t].ep, for |-> names]}

\* The end of pensyve_remember.
Remember(t) ==
    /\ pc[t] = "ready" /\ request[t].kind = "remember"
    /\ Store(t, "semantic", {got[t][1]}, {request[t].names[1]})
    /\ Goto(t, "done")
    /\ UNCHANGED <<entity, request, got, seen, before, erased>>

\* The end of pensyve_observe.
Observe(t) ==
    /\ pc[t] = "ready" /\ request[t].kind = "observe"
    /\ Store(t, "episodic", {got[t][1], got[t][2]}, {request[t].names[1], request[t].names[2]})
    /\ Goto(t, "done")
    /\ UNCHANGED <<entity, request, got, seen, before, erased>>

\* The text cannot be embedded: nothing is stored.
Fail(t) ==
    /\ pc[t] = "ready" /\ request[t].kind \in {"remember", "observe"}
    /\ Goto(t, "failed")
    /\ UNCHANGED <<entity, rows, request, got, seen, before, erased>>

Messages(e) == {r \in rows : r.kind = "episodic" /\ r.ep = e}

\* An extraction loads the messages of its episode and asks the extractor.
\* No message, no observation.
LoadMessages(t) ==
    /\ pc[t] = "load"
    /\ seen' = [seen EXCEPT ![t] = UNION {r.for : r \in Messages(request[t].ep)}]
    /\ Goto(t, IF Messages(request[t].ep) = {} THEN "done" ELSE "extracted")
    /\ UNCHANGED <<entity, rows, request, got, before, erased>>

\* An observation is embedded and saved, or one of the two fails and it is
\* left out.  It holds the episode and no entity.
SaveObservation(t) ==
    /\ pc[t] = "extracted"
    /\ \/ Store(t, "observation", {}, seen[t])
       \/ UNCHANGED rows
    /\ Goto(t, "done")
    /\ UNCHANGED <<entity, request, got, seen, before, erased>>

\* Variant: the episodic memories are not among them.
AttachedFacts(id) == {r \in rows : id \in r.ents /\ r.kind = "semantic"}

\* What a forget deletes: the memories that hold the id in one of their columns.
Attached(id) == {r \in rows : id \in r.ents}

Forget(t) ==
    /\ pc[t] = "ready" /\ request[t].kind = "forget"
    /\ rows' = rows \ Attached(got[t][1])
    /\ Goto(t, "done")
    /\ UNCHANGED <<entity, request, got, seen, before, erased>>

\* The legs of an erasure, one after the other: what is left of the memories m.
LegObservations(m, id) ==
    m \ {r \in m : r.kind = "observation" /\ \E q \in m : q.kind = "episodic" /\ id \in q.ents /\ q.ep = r.ep}

LegMemories(m, id) == {r \in m : id \notin r.ents}

\* Variant: the memories first.
EraseMemoriesFirst(id) == LegObservations(LegMemories(rows, id), id)

EraseRows(id) == LegMemories(LegObservations(rows, id), id)

\* The last leg deletes the row of the entity, if the id is still in it.
Erase(t) ==
    /\ pc[t] = "ready" /\ request[t].kind = "erase"
    /\ rows' = EraseRows(got[t][1])
    /\ entity' = [n \in Names |-> IF entity[n] = got[t][1] THEN None ELSE entity[n]]
    /\ erased' = erased \union {got[t][1]}
    /\ Goto(t, "done")
    /\ UNCHANGED <<request, got, seen, before>>

Next ==
    \E t \in Tasks :
        \/ \E r \in Request : Begin(t, r)
        \/ LookUp(t) \/ CreateEntity(t)
        \/ Remember(t) \/ Observe(t) \/ Fail(t)
        \/ LoadMessages(t) \/ SaveObservation(t)
        \/ Forget(t) \/ Erase(t)

Spec == Init /\ [][Next]_vars

-----------------------------------------------------------------------------

\* A request works with the id that a name has, unless the entity was erased
\* meanwhile: no other request that creates the name takes the row away.  On
\* PostgreSQL always, on SQLite when the entity exists (get_or_create_entity).
NamesAreStable ==
    \A t \in Tasks : \A i \in DOMAIN got[t] :
        got[t][i] \in erased \/ entity[request[t].names[i]] = got[t][i]

Done(t, kind) == pc[t] = "done" /\ request[t].kind = kind

\* Rows about the name it was given that were there when the request was asked
\* and are there after it is done.
Left(t) == {r \in before[t] \intersect rows : request[t].names[1] \in r.for}

\* Under the same conditions, what a forget or an erase leaves of the memories
\* about its entity are those of requests that were caught by another erasure
\* between their lookup and their write.
LeftIsOfTheErased ==
    \A t \in Tasks :
        Done(t, "forget") \/ Done(t, "erase") =>
            \A r \in Left(t) : r.kind = "observation" \/ r.ents \intersect erased # {}

\* Where nobody forgets, an erase leaves no observation of an episode whose
\* messages it deletes (the order of the legs of erase_entity_bounded).
ObservationsGoWithMessages ==
    (\A t \in Tasks : request[t].kind # "forget") =>
        \A t \in Tasks : Done(t, "erase") =>
            \A r \in Left(t) : r.kind = "observation" =>
                ~\E q \in before[t] : /\ q.kind = "episodic" /\ q.ep = r.ep
                                      /\ got[t] # <<>> /\ got[t][1] \in q.ents

\* pensyve_forget deletes ALL memories associated with an entity, entity-wide:
\* of the semantic and episodic memories stored for the name when it is asked,
\* none is there when it is done.
ForgetIsEntityWide ==
    \A t \in Tasks : Done(t, "forget") => \A r \in Left(t) : r.kind = "observation"

=============================================================================
