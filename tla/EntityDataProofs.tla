-------------------------- MODULE EntityDataProofs --------------------------
(***************************************************************************)
(* On PostgreSQL the id a request has resolved stays the id of its name    *)
(* until the entity is erased, for any number of requests and names: a row *)
(* is written only for a name that has none.  On SQLite it does when the   *)
(* entities exist and nobody erases them.  Under these conditions a memory *)
(* holds the ids of the names it was stored for, unless they were erased,  *)
(* and what a forget or an erase deletes by the id is what it was asked to *)
(* delete by the name.                                                     *)
(***************************************************************************)
EXTENDS EntityData, SequenceTheorems, TLAPS

\* The names a request asks for, and how far it has resolved them.
Resolving(t) ==
    /\ request[t].names \in Seq(Names)
    /\ got[t] \in Seq(Ids)
    /\ Len(got[t]) <= Len(request[t].names)
    /\ pc[t] = "idle" => got[t] = <<>>
    /\ pc[t] \in {"lookup", "create"} => Len(got[t]) < Len(request[t].names)

Labels == {"idle", "lookup", "create", "ready", "load", "extracted", "done", "failed"}

EntityInv ==
    /\ entity \in [Names -> Ids \union {None}]
    /\ got \in [Tasks -> Seq(Ids)]
    /\ pc \in [Tasks -> Labels]
    /\ DOMAIN request = Tasks
    /\ \A t \in Tasks : Resolving(t)
    /\ NamesAreStable

-----------------------------------------------------------------------------

LEMMA EntityStarts == Init => EntityInv
  <1> SUFFICES ASSUME Init PROVE EntityInv
    OBVIOUS
  <1>1. entity \in [Names -> Ids \union {None}]
    BY DEF Init, Ids
  <1>2. got = [t \in Tasks |-> <<>>] /\ request = [t \in Tasks |-> NoRequest]
    BY DEF Init
  <1>3. <<>> \in Seq(Ids) /\ <<>> \in Seq(Names) /\ Len(<<>>) = 0 /\ DOMAIN <<>> = {}
    BY EmptySeq
  <1>4. \A t \in Tasks : Resolving(t)
    <2> SUFFICES ASSUME NEW t \in Tasks PROVE Resolving(t)
      OBVIOUS
    <2>1. got[t] = <<>> /\ request[t].names = <<>> /\ pc[t] = "idle"
      BY <1>2 DEF Init, NoRequest
    <2> QED
      BY <1>3, <2>1 DEF Resolving
  <1>5. NamesAreStable
    BY <1>2, <1>3 DEF NamesAreStable
  <1>6. got \in [Tasks -> Seq(Ids)] /\ pc \in [Tasks -> Labels] /\ DOMAIN request = Tasks
    BY <1>2, <1>3 DEF Init, Labels
  <1> QED
    BY <1>1, <1>4, <1>5, <1>6 DEF EntityInv

\* The requests there are: what each resolves.
LEMMA RequestNames ==
    ASSUME NEW r \in Request
    PROVE  r.names \in Seq(Names) /\ (r.kind # "extract" => Len(r.names) > 0)
  <1>1. CASE \E n \in Names : r.names = <<n>>
    BY <1>1
  <1>2. CASE r.names \in Names \X Names
    <2>1. PICK m \in Names, n \in Names : r.names = <<m, n>>
      BY <1>2
    <2> QED
      BY <2>1
  <1>3. CASE r.kind = "extract" /\ r.names = <<>>
    BY <1>3, EmptySeq
  <1>4. \/ \E n \in Names : r.names = <<n>>
        \/ r.names \in Names \X Names
        \/ r.kind = "extract" /\ r.names = <<>>
    <2>1. CASE r \in [kind : {"remember", "forget", "erase"}, names : {<<n>> : n \in Names}, ep : {None}]
      BY <2>1
    <2>2. CASE r \in [kind : {"observe"}, names : Names \X Names, ep : Episodes]
      BY <2>2
    <2>3. CASE r \in [kind : {"extract"}, names : {<<>>}, ep : Episodes]
      BY <2>3
    <2> QED
      BY <2>1, <2>2, <2>3 DEF Request
  <1> QED
    BY <1>1, <1>2, <1>3, <1>4

LEMMA NextIsAName ==
    ASSUME EntityInv, NEW t \in Tasks, pc[t] \in {"lookup", "create"} PROVE NextName(t) \in Names
  <1>1. /\ request[t].names \in Seq(Names) /\ got[t] \in Seq(Ids)
        /\ Len(got[t]) < Len(request[t].names)
    BY DEF EntityInv, Resolving
  <1>2. Len(got[t]) + 1 \in 1 .. Len(request[t].names)
    BY <1>1, LenProperties
  <1> QED
    BY <1>1, <1>2, ElementOfSeq DEF NextName

\* A request resolves its next name to the id the name has after the step, and
\* no other request loses one.
LEMMA ResolvedStep ==
    ASSUME EntityInv, NEW t \in Tasks, NEW id \in Ids, Resolved(t, id),
           pc[t] \in {"lookup", "create"}, UNCHANGED <<request, erased>>,
           entity'[NextName(t)] = id,
           \A n \in Names : entity[n] # None => entity'[n] = entity[n],
           None \notin Ids
    PROVE  (\A u \in Tasks : Resolving(u)') /\ NamesAreStable' /\ got' \in [Tasks -> Seq(Ids)]
  <1>1. /\ got \in [Tasks -> Seq(Ids)] /\ pc \in [Tasks -> Labels]
        /\ (\A u \in Tasks : Resolving(u)) /\ NamesAreStable
    BY DEF EntityInv
  <1> DEFINE s == got[t]
             k == Len(request[t].names)
  <1>2. s \in Seq(Ids) /\ Len(s) \in Nat /\ Len(s) < k /\ k \in Nat /\ request[t].names \in Seq(Names)
    BY <1>1, LenProperties DEF Resolving
  <1>3. /\ Append(s, id) \in Seq(Ids) /\ Len(Append(s, id)) = Len(s) + 1
        /\ \A i \in 1 .. Len(s) : Append(s, id)[i] = s[i]
        /\ Append(s, id)[Len(s) + 1] = id
    BY <1>2, AppendProperties
  <1>4. /\ got'[t] = Append(s, id) /\ \A u \in Tasks : u # t => got'[u] = got[u]
        /\ got' \in [Tasks -> Seq(Ids)]
    BY <1>1, <1>3 DEF Resolved
  <1>5. /\ pc'[t] = IF Len(s) + 1 = k THEN "ready" ELSE "lookup"
        /\ \A u \in Tasks : u # t => pc'[u] = pc[u]
    BY <1>1 DEF Resolved, Goto
  <1>6. \A u \in Tasks : Resolving(u)'
    <2>1. Resolving(t)'
      BY <1>2, <1>3, <1>4, <1>5 DEF Resolving
    <2>2. \A u \in Tasks : u # t => Resolving(u)'
      BY <1>1, <1>4, <1>5 DEF Resolving
    <2> QED
      BY <2>1, <2>2
  <1>7. ASSUME NEW u \in Tasks, NEW i \in DOMAIN got[u]
        PROVE  got[u][i] \in erased \/ entity'[request[u].names[i]] = got[u][i]
    <2>1. got[u] \in Seq(Ids) /\ i \in 1 .. Len(got[u]) /\ Len(got[u]) \in Nat
      BY <1>1, <1>7, LenProperties
    <2>2. got[u][i] \in Ids
      BY <2>1, ElementOfSeq
    <2>3. request[u].names[i] \in Names
      <3>1. request[u].names \in Seq(Names) /\ Len(got[u]) <= Len(request[u].names)
        BY <1>1 DEF Resolving
      <3>2. i \in 1 .. Len(request[u].names)
        BY <2>1, <3>1, LenProperties
      <3> QED
        BY <3>1, <3>2, ElementOfSeq
    <2>4. got[u][i] \in erased \/ entity[request[u].names[i]] = got[u][i]
      BY <1>1 DEF NamesAreStable
    <2> QED
      BY <2>2, <2>3, <2>4
  <1>8. ASSUME NEW u \in Tasks, NEW i \in DOMAIN got'[u]
        PROVE  got'[u][i] \in erased' \/ entity'[request'[u].names[i]] = got'[u][i]
    <2>1. CASE u # t
      BY <1>4, <1>7, <1>8, <2>1
    <2>2. CASE u = t
      <3>1. i \in 1 .. Len(s) + 1 /\ DOMAIN s = 1 .. Len(s)
        BY <1>2, <1>3, <1>4, <1>8, <2>2, LenProperties
      <3>2. CASE i = Len(s) + 1
        BY <1>3, <1>4, <2>2, <3>2 DEF NextName
      <3>3. CASE i # Len(s) + 1
        <4>1. i \in 1 .. Len(s)
          BY <1>2, <3>1, <3>3
        <4> QED
          BY <1>3, <1>4, <1>7, <2>2, <3>1, <4>1
      <3> QED
        BY <3>2, <3>3
    <2> QED
      BY <2>1, <2>2
  <1> QED
    BY <1>4, <1>6, <1>8 DEF NamesAreStable

\* A step that resolves nothing: it moves pc, and the entity rows only if their
\* ids are erased.
LEMMA OtherStep ==
    ASSUME EntityInv, NEW t \in Tasks, NEW l \in Labels, l \notin {"idle", "lookup"},
           l = "create" => pc[t] = "lookup",
           Goto(t, l), UNCHANGED <<request, got>>, erased \subseteq erased',
           entity' \in [Names -> Ids \union {None}],
           \A n \in Names : entity'[n] = entity[n] \/ entity[n] \in erased'
    PROVE  EntityInv'
  <1>1. /\ got \in [Tasks -> Seq(Ids)] /\ pc \in [Tasks -> Labels]
        /\ (\A u \in Tasks : Resolving(u)) /\ NamesAreStable
    BY DEF EntityInv
  <1>2. pc' \in [Tasks -> Labels] /\ pc'[t] = l /\ \A u \in Tasks : u # t => pc'[u] = pc[u]
    BY <1>1 DEF Goto
  <1>3. \A u \in Tasks : Resolving(u)'
    <2>1. Resolving(t)'
      BY <1>1, <1>2 DEF Resolving
    <2>2. \A u \in Tasks : u # t => Resolving(u)'
      BY <1>1, <1>2 DEF Resolving
    <2> QED
      BY <2>1, <2>2
  <1>4. ASSUME NEW u \in Tasks, NEW i \in DOMAIN got[u]
        PROVE  got[u][i] \in erased' \/ entity'[request[u].names[i]] = got[u][i]
    <2>1. request[u].names[i] \in Names
      <3>1. /\ request[u].names \in Seq(Names) /\ Len(got[u]) <= Len(request[u].names)
            /\ got[u] \in Seq(Ids)
        BY <1>1 DEF Resolving
      <3>2. i \in 1 .. Len(request[u].names)
        BY <1>4, <3>1, LenProperties
      <3> QED
        BY <3>1, <3>2, ElementOfSeq
    <2>2. got[u][i] \in erased \/ entity[request[u].names[i]] = got[u][i]
      BY <1>1 DEF NamesAreStable
    <2> QED
      BY <2>1, <2>2
  <1>5. NamesAreStable'
    BY <1>4 DEF NamesAreStable
  <1> QED
    BY <1>1, <1>2, <1>3, <1>5 DEF EntityInv

LEMMA BeginStep ==
    ASSUME EntityInv, NEW t \in Tasks, NEW r \in Request, Begin(t, r)
    PROVE  EntityInv'
  <1>1. /\ got \in [Tasks -> Seq(Ids)] /\ pc \in [Tasks -> Labels] /\ DOMAIN request = Tasks
        /\ (\A u \in Tasks : Resolving(u)) /\ NamesAreStable
    BY DEF EntityInv
  <1>2. /\ pc[t] = "idle" /\ got' = got /\ entity' = entity /\ erased' = erased
        /\ request' = [request EXCEPT ![t] = r]
        /\ pc' = [pc EXCEPT ![t] = IF r.kind = "extract" THEN "load" ELSE "lookup"]
    BY DEF Begin, Goto
  <1>3. got[t] = <<>> /\ Len(got[t]) = 0 /\ DOMAIN got[t] = {}
    BY <1>1, <1>2, EmptySeq DEF Resolving
  <1>4. Resolving(t)'
    <2>1. /\ request'[t] = r /\ pc'[t] = (IF r.kind = "extract" THEN "load" ELSE "lookup")
          /\ got'[t] = <<>> /\ Len(got'[t]) = 0 /\ got'[t] \in Seq(Ids)
      BY <1>1, <1>2, <1>3
    <2>2. r.names \in Seq(Names) /\ Len(r.names) \in Nat /\ (r.kind # "extract" => Len(r.names) > 0)
      BY RequestNames, LenProperties
    <2> QED
      BY <2>1, <2>2 DEF Resolving
  <1>5. \A u \in Tasks : u # t => Resolving(u)'
    BY <1>1, <1>2 DEF Resolving
  <1>6. NamesAreStable'
    <2> SUFFICES ASSUME NEW u \in Tasks, NEW i \in DOMAIN got[u]
                 PROVE  got[u][i] \in erased \/ entity[request'[u].names[i]] = got[u][i]
      BY <1>2 DEF NamesAreStable
    <2>1. u # t
      BY <1>3
    <2> QED
      BY <1>1, <1>2, <2>1 DEF NamesAreStable
  <1>7. pc' \in [Tasks -> Labels] /\ DOMAIN request' = Tasks
    BY <1>1, <1>2 DEF Labels
  <1>8. \A u \in Tasks : Resolving(u)'
    BY <1>4, <1>5
  <1> QED
    BY <1>1, <1>2, <1>6, <1>7, <1>8 DEF EntityInv

LEMMA LookUpStep ==
    ASSUME EntityInv, None \notin Ids, NEW t \in Tasks, LookUp(t) PROVE EntityInv'
  <1>1. /\ pc[t] = "lookup" /\ UNCHANGED <<entity, request, erased>>
        /\ entity \in [Names -> Ids \union {None}] /\ pc \in [Tasks -> Labels]
    BY DEF EntityInv, LookUp
  <1>2. CASE entity[NextName(t)] # None
    <2>1. Resolved(t, entity[NextName(t)])
      BY <1>2 DEF LookUp
    <2>2. entity[NextName(t)] \in Ids
      <3>1. NextName(t) \in Names
        BY <1>1, NextIsAName
      <3> QED
        BY <1>1, <1>2, <3>1
    <2>3. (\A u \in Tasks : Resolving(u)') /\ NamesAreStable' /\ got' \in [Tasks -> Seq(Ids)]
      BY <1>1, <2>1, <2>2, ResolvedStep
    <2>4. pc' \in [Tasks -> Labels]
      BY <1>1, <2>1 DEF Resolved, Goto, Labels
    <2> QED
      BY <1>1, <2>3, <2>4 DEF EntityInv
  <1>3. CASE entity[NextName(t)] = None
    <2> DEFINE l == IF Takes(request[t]) THEN "done" ELSE "create"
    <2>1. Goto(t, l) /\ UNCHANGED got
      BY <1>3 DEF LookUp
    <2>2. l \in Labels /\ l \notin {"idle", "lookup"}
      BY DEF Labels
    <2> HIDE DEF l
    <2>3. EntityInv'
      BY <1>1, <2>1, <2>2, OtherStep
    <2> QED
      BY <2>3
  <1> QED
    BY <1>2, <1>3

LEMMA CreateStep ==
    ASSUME EntityInv, None \notin Ids, Postgres, NEW t \in Tasks, CreateEntity(t) PROVE EntityInv'
  <1>1. /\ pc[t] = "create" /\ PgSaveEntity(t, NextName(t)) /\ UNCHANGED <<request, erased>>
        /\ entity \in [Names -> Ids \union {None}] /\ pc \in [Tasks -> Labels]
    BY DEF EntityInv, CreateEntity
  <1>2. NextName(t) \in Names /\ <<t, NextName(t)>> \in Ids
    BY <1>1, NextIsAName DEF Ids
  <1>3. CASE entity[NextName(t)] = None
    <2>1. /\ entity' = [entity EXCEPT ![NextName(t)] = <<t, NextName(t)>>]
          /\ Resolved(t, <<t, NextName(t)>>)
      BY <1>1, <1>3 DEF PgSaveEntity
    <2>2. /\ entity' \in [Names -> Ids \union {None}]
          /\ entity'[NextName(t)] = <<t, NextName(t)>>
          /\ \A n \in Names : entity[n] # None => entity'[n] = entity[n]
      BY <1>1, <1>2, <1>3, <2>1
    <2>3. (\A u \in Tasks : Resolving(u)') /\ NamesAreStable' /\ got' \in [Tasks -> Seq(Ids)]
      BY <1>1, <1>2, <2>1, <2>2, ResolvedStep
    <2>4. pc' \in [Tasks -> Labels]
      BY <1>1, <2>1 DEF Resolved, Goto, Labels
    <2> QED
      BY <1>1, <2>2, <2>3, <2>4 DEF EntityInv
  <1>4. CASE entity[NextName(t)] # None
    <2>1. Goto(t, "failed") /\ UNCHANGED <<entity, got>>
      BY <1>1, <1>4 DEF PgSaveEntity
    <2> QED
      BY <1>1, <2>1, OtherStep DEF Labels
  <1> QED
    BY <1>3, <1>4

\* The last leg of an erasure takes a row whose id it erases.
LEMMA EraseStep ==
    ASSUME EntityInv, NEW t \in Tasks, Erase(t) PROVE EntityInv'
  <1> DEFINE id == got[t][1]
  <1>1. /\ entity' = [n \in Names |-> IF entity[n] = id THEN None ELSE entity[n]]
        /\ erased' = erased \union {id}
        /\ Goto(t, "done") /\ UNCHANGED <<request, got>>
    BY DEF Erase
  <1>2. /\ entity' \in [Names -> Ids \union {None}]
        /\ \A n \in Names : entity'[n] = entity[n] \/ entity[n] \in erased'
    BY <1>1 DEF EntityInv
  <1> QED
    BY <1>1, <1>2, OtherStep DEF Labels

-----------------------------------------------------------------------------
(* The conditions under which names keep their ids.                        *)

StableNames == Postgres \/ (Existing = Names /\ "erase" \notin Kinds)

\* Where SQLite begins with the entities, none is created or erased.
NothingIsCreated ==
    /\ \A n \in Names : entity[n] # None
    /\ \A t \in Tasks :
        pc[t] # "create" /\ (pc[t] # "idle" => request[t].kind \in Kinds)

StableInv == EntityInv /\ (Postgres \/ NothingIsCreated)

LEMMA StableStarts ==
    ASSUME Init, StableNames, None \notin Ids
    PROVE  StableInv
  <1>1. EntityInv
    BY EntityStarts
  <1>2. ASSUME ~Postgres PROVE NothingIsCreated
    BY <1>2 DEF Init, StableNames, NothingIsCreated, Ids
  <1> QED
    BY <1>1, <1>2 DEF StableInv

\* A step of t that resolves nothing.
LEMMA QuietStep ==
    ASSUME EntityInv, NEW t \in Tasks,
           Remember(t) \/ Observe(t) \/ Fail(t) \/ LoadMessages(t) \/ SaveObservation(t) \/ Forget(t)
    PROVE  /\ UNCHANGED <<entity, request, got, erased, before>>
           /\ \E l \in {"done", "failed", "extracted"} : Goto(t, l)
           /\ EntityInv'
  <1>1. UNCHANGED <<entity, request, got, erased, before>> /\ entity \in [Names -> Ids \union {None}]
    BY DEF EntityInv, Remember, Observe, Fail, LoadMessages, SaveObservation, Forget
  <1>2. \E l \in {"done", "failed", "extracted"} : Goto(t, l)
    BY Zenon DEF Remember, Observe, Fail, LoadMessages, SaveObservation, Forget
  <1>3. EntityInv'
    BY <1>1, <1>2, OtherStep DEF Labels
  <1> QED
    BY <1>1, <1>2, <1>3

LEMMA StableStep ==
    ASSUME StableInv, StableNames, None \notin Ids, [Next]_vars
    PROVE  StableInv'
  <1>1. EntityInv /\ pc \in [Tasks -> Labels] /\ DOMAIN request = Tasks /\ (Postgres \/ NothingIsCreated)
    BY DEF StableInv, EntityInv
  <1>2. ASSUME NEW t \in Tasks, NEW r \in Request, Begin(t, r)
        PROVE  StableInv'
    <2>1. EntityInv'
      BY <1>1, <1>2, BeginStep
    <2>2. NothingIsCreated => NothingIsCreated'
      <3>1. /\ entity' = entity /\ r.kind \in Kinds
            /\ request' = [request EXCEPT ![t] = r]
            /\ pc' = [pc EXCEPT ![t] = IF r.kind = "extract" THEN "load" ELSE "lookup"]
        BY <1>2 DEF Begin, Goto
      <3> QED
        BY <1>1, <3>1 DEF NothingIsCreated
    <2> QED
      BY <1>1, <2>1, <2>2 DEF StableInv
  <1>3. ASSUME NEW t \in Tasks, LookUp(t)
        PROVE  StableInv'
    <2>1. EntityInv'
      BY <1>1, <1>3, LookUpStep
    <2>2. ASSUME NothingIsCreated PROVE NothingIsCreated'
      <3>1. pc[t] = "lookup" /\ NextName(t) \in Names
        BY <1>1, <1>3, NextIsAName DEF LookUp
      <3>2. /\ UNCHANGED <<entity, request>>
            /\ pc' = [pc EXCEPT ![t] = IF Len(got[t]) + 1 = Len(request[t].names) THEN "ready" ELSE "lookup"]
        BY <1>3, <2>2, <3>1 DEF LookUp, Resolved, Goto, NothingIsCreated
      <3> QED
        BY <1>1, <2>2, <3>1, <3>2 DEF NothingIsCreated
    <2> QED
      BY <1>1, <2>1, <2>2 DEF StableInv
  <1>4. ASSUME NEW t \in Tasks, CreateEntity(t)
        PROVE  StableInv'
    <2>1. Postgres
      BY <1>1, <1>4 DEF CreateEntity, NothingIsCreated
    <2> QED
      BY <1>1, <1>4, <2>1, CreateStep DEF StableInv
  <1>5. ASSUME NEW t \in Tasks, Erase(t)
        PROVE  StableInv'
    <2>1. Postgres
      BY <1>1, <1>5 DEF Erase, NothingIsCreated, StableNames
    <2> QED
      BY <1>1, <1>5, <2>1, EraseStep DEF StableInv
  <1>6. ASSUME NEW t \in Tasks,
               Remember(t) \/ Observe(t) \/ Fail(t) \/ LoadMessages(t) \/ SaveObservation(t) \/ Forget(t)
        PROVE  StableInv'
    <2>1. /\ EntityInv' /\ UNCHANGED <<entity, request>>
          /\ \E l \in {"done", "failed", "extracted"} : Goto(t, l)
      BY <1>1, <1>6, QuietStep
    <2>2. pc[t] # "idle"
      BY <1>6 DEF Remember, Observe, Fail, LoadMessages, SaveObservation, Forget
    <2>3. NothingIsCreated => NothingIsCreated'
      BY <1>1, <2>1, <2>2 DEF NothingIsCreated, Goto
    <2> QED
      BY <1>1, <2>1, <2>3 DEF StableInv
  <1>7. CASE UNCHANGED vars
    BY <1>1, <1>7 DEF vars, StableInv, EntityInv, Resolving, NamesAreStable, NothingIsCreated
  <1> QED
    BY <1>2, <1>3, <1>4, <1>5, <1>6, <1>7 DEF Next

\* On PostgreSQL, and on SQLite where the entities exist and stay, a request
\* works with the id its name has, unless the entity was erased meanwhile,
\* however many requests create, forget and erase the names it uses
\* (get_or_create_entity, save_entity).
THEOREM NamesAreAlwaysStable ==
    ASSUME StableNames, None \notin Ids PROVE Spec => []NamesAreStable
  <1>1. Init => StableInv
    BY StableStarts
  <1>2. StableInv /\ [Next]_vars => StableInv'
    BY StableStep
  <1>3. StableInv => NamesAreStable
    BY DEF StableInv, EntityInv
  <1> QED
    BY <1>1, <1>2, <1>3, PTL DEF Spec

-----------------------------------------------------------------------------
(* What is stored, and what a forget or an erase leaves of it.             *)

\* The memories of which something is known: those stored, and those that were
\* when somebody began to take them away.
Known == rows \union UNION {before[t] : t \in Tasks}

\* A memory was stored by a request that is done, and holds the ids its names
\* have, unless they were erased.
RowKnows(r) ==
    /\ r.by \in Tasks /\ pc[r.by] = "done"
    /\ r.ents \subseteq Ids /\ r.for \subseteq Names
    /\ r.kind # "observation" =>
        \A n \in r.for : entity[n] \in r.ents \/ r.ents \intersect erased # {}

About(t) == {r \in before[t] : r.kind # "observation" /\ request[t].names[1] \in r.for}

\* What a request that takes memories away knows of them: those stored for its
\* name when it began hold its id, or an erased one.
TakerKnows(t) ==
    pc[t] # "idle" /\ Takes(request[t]) =>
        /\ pc[t] \in {"lookup", "ready", "done"} /\ Len(request[t].names) = 1
        /\ pc[t] = "lookup" => got[t] = <<>>
        /\ got[t] # <<>> => \A r \in About(t) : got[t][1] \in r.ents \/ r.ents \intersect erased # {}
        /\ pc[t] = "ready" => got[t] # <<>>
        /\ pc[t] = "done" =>
            IF got[t] = <<>> THEN \A r \in About(t) : r.ents \intersect erased # {}
            ELSE \A r \in before[t] \intersect rows : got[t][1] \notin r.ents

\* What a request is asked it resolves before it is carried out.
AskerKnows(t) ==
    /\ pc[t] # "idle" => request[t] \in Request
    /\ pc[t] = "ready" => Len(got[t]) = Len(request[t].names)

NobodyForgets == \A t \in Tasks : pc[t] # "idle" => request[t].kind # "forget"

\* An observation that stays kept the messages of its episode.
MessagesStay ==
    NobodyForgets =>
        \A t \in Tasks : \A r \in before[t] \intersect rows : \A q \in before[t] :
            r.kind = "observation" /\ q.kind = "episodic" /\ q.ep = r.ep => q \in rows

DataInv ==
    /\ DOMAIN before = Tasks
    /\ \A r \in Known : RowKnows(r)
    /\ \A t \in Tasks : TakerKnows(t) /\ AskerKnows(t)
    /\ MessagesStay

\* What a step of t leaves as it is, whatever it does.
StepOf(t) ==
    /\ pc[t] # "done" /\ pc'[t] # "idle"
    /\ \A u \in Tasks : u # t =>
        pc'[u] = pc[u] /\ request'[u] = request[u] /\ got'[u] = got[u] /\ before'[u] = before[u]
    /\ erased \subseteq erased'
    /\ \A n \in Names : entity'[n] = entity[n] \/ entity[n] = None \/ entity[n] \in erased'

LEMMA RowsStay ==
    ASSUME DataInv, None \notin Ids, NEW t \in Tasks, StepOf(t), NEW r \in Known
    PROVE  RowKnows(r)'
  <1>1. RowKnows(r) /\ r.by # t
    BY DEF DataInv, RowKnows, StepOf
  <1>2. r.by \in Tasks /\ pc'[r.by] = "done"
    BY <1>1 DEF RowKnows, StepOf
  <1>3. ASSUME r.kind # "observation", NEW n \in r.for
        PROVE  entity'[n] \in r.ents \/ r.ents \intersect erased' # {}
    <2>1. n \in Names /\ (entity[n] \in r.ents \/ r.ents \intersect erased # {}) /\ None \notin r.ents
      BY <1>1, <1>3 DEF RowKnows
    <2> QED
      BY <2>1 DEF StepOf
  <1> QED
    BY <1>1, <1>2, <1>3 DEF RowKnows

\* The requests that are not moved.
LEMMA OthersKnow ==
    ASSUME DataInv, NEW t \in Tasks, StepOf(t), \A r \in rows' \ rows : r.by = t,
           NEW u \in Tasks, u # t
    PROVE  TakerKnows(u)' /\ AskerKnows(u)'
  <1>1. /\ pc'[u] = pc[u] /\ request'[u] = request[u] /\ got'[u] = got[u] /\ before'[u] = before[u]
        /\ erased \subseteq erased' /\ TakerKnows(u) /\ AskerKnows(u)
    BY DEF StepOf, DataInv
  <1>2. About(u)' = About(u)
    BY <1>1 DEF About
  <1>3. \A r \in before[u] : r.by # t
    BY DEF DataInv, Known, RowKnows, StepOf
  <1>4. before'[u] \intersect rows' \subseteq before[u] \intersect rows
    BY <1>1, <1>3
  <1> QED
    BY <1>1, <1>2, <1>4 DEF TakerKnows, AskerKnows

\* A step in which nothing that was stored is deleted.
LEMMA DataStep ==
    ASSUME DataInv, None \notin Ids, NEW t \in Tasks, StepOf(t),
           rows \subseteq rows', \A r \in rows' \ rows : r.by = t /\ RowKnows(r)',
           DOMAIN before' = Tasks,
           \/ pc[t] = "idle" /\ before'[t] \subseteq rows
           \/ before'[t] = before[t] /\ request'[t] = request[t],
           TakerKnows(t)', AskerKnows(t)'
    PROVE  DataInv'
  <1>1. \A u \in Tasks : u # t => before'[u] = before[u]
    BY DEF StepOf
  <1>2. ASSUME NEW r \in Known' PROVE RowKnows(r)'
    <2>1. CASE r \in Known
      BY <2>1, RowsStay
    <2>2. CASE r \in rows' \ rows
      BY <2>2
    <2>3. r \in Known \/ r \in rows' \ rows
      <3>1. CASE r \in rows'
        BY <3>1 DEF Known
      <3>2. CASE \E u \in Tasks : r \in before'[u]
        <4>1. \A u \in Tasks : before'[u] \subseteq Known
          BY <1>1 DEF Known
        <4> QED
          BY <3>2, <4>1
      <3> QED
        BY <1>2, <3>1, <3>2 DEF Known
    <2> QED
      BY <2>1, <2>2, <2>3
  <1>3. ASSUME NEW u \in Tasks PROVE TakerKnows(u)' /\ AskerKnows(u)'
    BY OthersKnow
  <1>4. MessagesStay'
    <2> SUFFICES ASSUME NobodyForgets', NEW u \in Tasks,
                        NEW r \in before'[u] \intersect rows', NEW q \in before'[u],
                        r.kind = "observation", q.kind = "episodic", q.ep = r.ep
                 PROVE  q \in rows'
      BY DEF MessagesStay
    <2>1. NobodyForgets
      BY DEF NobodyForgets, StepOf
    <2>2. CASE before'[u] = before[u]
      <3>1. r.by # t
        BY <2>2 DEF DataInv, Known, RowKnows, StepOf
      <3>2. r \in before[u] \intersect rows
        BY <2>2, <3>1
      <3> QED
        BY <2>1, <2>2, <3>2 DEF DataInv, MessagesStay
    <2>3. CASE u = t /\ before'[t] \subseteq rows
      BY <2>3
    <2> QED
      BY <1>1, <2>2, <2>3
  <1> QED
    BY <1>2, <1>3, <1>4 DEF DataInv

\* A step in which a taker deletes what holds its id, and more.
LEMMA TakeStep ==
    ASSUME DataInv, None \notin Ids, NEW t \in Tasks, StepOf(t),
           DOMAIN before' = Tasks, pc[t] = "ready", pc'[t] = "done", Takes(request[t]), rows' \subseteq rows,
           UNCHANGED <<before, request, got>>,
           \A r \in rows' : got[t][1] \notin r.ents,
           NobodyForgets => \A r \in rows', q \in rows :
               r.kind = "observation" /\ q.kind = "episodic" /\ q.ep = r.ep => q \in rows'
    PROVE  DataInv'
  <1>1. ASSUME NEW r \in Known' PROVE RowKnows(r)'
    <2>1. r \in Known
      BY DEF Known
    <2> QED
      BY <2>1, RowsStay
  <1>2. TakerKnows(t)'
    <2>1. TakerKnows(t) /\ About(t)' = About(t)
      BY DEF DataInv, About
    <2> QED
      BY <2>1 DEF TakerKnows, StepOf
  <1>a. AskerKnows(t)'
    BY DEF DataInv, AskerKnows
  <1>3. ASSUME NEW u \in Tasks PROVE TakerKnows(u)' /\ AskerKnows(u)'
    BY <1>2, <1>a, OthersKnow
  <1>4. MessagesStay'
    <2>1. NobodyForgets' => NobodyForgets
      BY DEF NobodyForgets, StepOf
    <2> QED
      BY <2>1 DEF DataInv, MessagesStay
  <1> QED
    BY <1>1, <1>3, <1>4 DEF DataInv

LEMMA BeginData ==
    ASSUME StableInv, DataInv, None \notin Ids, NEW t \in Tasks, NEW r \in Request, Begin(t, r)
    PROVE  DataInv'
  <1>1. /\ pc[t] = "idle" /\ UNCHANGED <<entity, rows, got, erased>>
        /\ request' = [request EXCEPT ![t] = r]
        /\ before' = [before EXCEPT ![t] = IF Takes(r) THEN rows ELSE {}]
        /\ pc' = [pc EXCEPT ![t] = IF r.kind = "extract" THEN "load" ELSE "lookup"]
    BY DEF Begin, Goto
  <1>2. pc \in [Tasks -> Labels] /\ DOMAIN request = Tasks /\ got[t] = <<>>
    BY <1>1 DEF StableInv, EntityInv, Resolving
  <1>3. StepOf(t)
    BY <1>1, <1>2 DEF StepOf
  <1>4. TakerKnows(t)'
    <2>1. request'[t] = r /\ pc'[t] = (IF r.kind = "extract" THEN "load" ELSE "lookup") /\ got'[t] = <<>>
      BY <1>1, <1>2
    <2>2. Takes(r) => Len(r.names) = 1 /\ r.kind # "extract"
      <3>1. Takes(r) => \E n \in Names : r.names = <<n>>
        BY DEF Takes, Request
      <3> QED
        BY <3>1 DEF Takes
    <2> QED
      BY <2>1, <2>2 DEF TakerKnows
  <1>7. AskerKnows(t)'
    BY <1>1, <1>2 DEF AskerKnows
  <1>5. before'[t] \subseteq rows /\ DOMAIN before' = Tasks
    BY <1>1 DEF DataInv
  <1>6. rows \subseteq rows' /\ \A x \in rows' \ rows : x.by = t /\ RowKnows(x)'
    BY <1>1
  <1> QED
    BY <1>1, <1>3, <1>4, <1>5, <1>6, <1>7, DataStep

LEMMA LookUpData ==
    ASSUME StableInv, DataInv, None \notin Ids, NEW t \in Tasks, LookUp(t)
    PROVE  DataInv'
  <1>1. pc[t] = "lookup" /\ UNCHANGED <<entity, rows, request, before, erased>>
    BY DEF LookUp
  <1>2. /\ pc \in [Tasks -> Labels] /\ got \in [Tasks -> Seq(Ids)] /\ NextName(t) \in Names
        /\ entity \in [Names -> Ids \union {None}] /\ got[t] \in Seq(Ids)
    BY <1>1, NextIsAName DEF StableInv, EntityInv
  <1>3. StepOf(t)
    BY <1>1, <1>2 DEF StepOf, LookUp, Resolved, Goto
  <1>4. TakerKnows(t)'
    <2> SUFFICES ASSUME Takes(request[t])
                 PROVE  TakerKnows(t)'
      BY <1>1 DEF TakerKnows
    <2>1. got[t] = <<>> /\ Len(request[t].names) = 1 /\ NextName(t) = request[t].names[1]
      BY <1>1 DEF DataInv, TakerKnows, NextName
    <2>2. About(t)' = About(t) /\ erased' = erased
      BY <1>1 DEF About
    <2>3. \A r \in About(t) : entity[NextName(t)] \in r.ents \/ r.ents \intersect erased # {}
      BY <2>1 DEF DataInv, Known, About, RowKnows
    <2>4. CASE entity[NextName(t)] # None
      <3>1. Resolved(t, entity[NextName(t)])
        BY <2>4 DEF LookUp
      <3>2. got'[t] = <<entity[NextName(t)]>>
        BY <1>2, <2>1, <3>1 DEF Resolved
      <3>3. pc'[t] = "ready"
        BY <1>2, <2>1, <3>1 DEF Resolved, Goto
      <3> QED
        BY <1>1, <2>1, <2>2, <2>3, <3>2, <3>3 DEF TakerKnows
    <2>5. CASE entity[NextName(t)] = None
      <3>1. pc'[t] = "done" /\ got' = got
        BY <1>2, <2>5 DEF LookUp, Goto
      <3>2. \A r \in About(t) : None \notin r.ents
        BY DEF DataInv, Known, About, RowKnows
      <3> QED
        BY <1>1, <2>1, <2>2, <2>3, <2>5, <3>1, <3>2 DEF TakerKnows
    <2> QED
      BY <2>4, <2>5
  <1>5. rows \subseteq rows' /\ \A x \in rows' \ rows : x.by = t /\ RowKnows(x)'
    BY <1>1
  <1>6. DOMAIN before' = Tasks
    BY <1>1 DEF DataInv
  <1>7. AskerKnows(t)'
    <2>1. request[t] \in Request
      BY <1>1 DEF DataInv, AskerKnows
    <2>2. CASE \E id \in Ids : Resolved(t, id)
      <3>1. PICK id \in Ids : Resolved(t, id)
        BY <2>2
      <3>2. Len(got'[t]) = Len(got[t]) + 1
        BY <1>2, <3>1, AppendProperties DEF Resolved, StableInv, EntityInv, Resolving
      <3>3. pc'[t] = IF Len(got[t]) + 1 = Len(request[t].names) THEN "ready" ELSE "lookup"
        BY <1>2, <3>1 DEF Resolved, Goto
      <3> QED
        BY <1>1, <2>1, <3>2, <3>3 DEF AskerKnows
    <2>3. CASE \E l \in {"done", "create", "failed"} : Goto(t, l)
      BY <1>1, <1>2, <2>1, <2>3 DEF Goto, AskerKnows
    <2> QED
      BY <1>1, <1>2, <2>2, <2>3 DEF LookUp
  <1> QED
    BY <1>1, <1>3, <1>4, <1>5, <1>6, <1>7, DataStep

LEMMA CreateData ==
    ASSUME StableInv, DataInv, None \notin Ids, NEW t \in Tasks, CreateEntity(t)
    PROVE  DataInv'
  <1>1. /\ pc[t] = "create" /\ UNCHANGED <<rows, request, before, erased>>
        /\ PgSaveEntity(t, NextName(t))
    BY DEF StableInv, NothingIsCreated, CreateEntity
  <1>2. /\ pc \in [Tasks -> Labels] /\ got \in [Tasks -> Seq(Ids)] /\ NextName(t) \in Names
        /\ entity \in [Names -> Ids \union {None}]
    BY <1>1, NextIsAName DEF StableInv, EntityInv
  <1>3. StepOf(t)
    <2>1. CASE entity[NextName(t)] = None
      BY <1>1, <1>2, <2>1 DEF StepOf, PgSaveEntity, Resolved, Goto
    <2>2. CASE entity[NextName(t)] # None
      BY <1>1, <1>2, <2>2 DEF StepOf, PgSaveEntity, Goto
    <2> QED
      BY <2>1, <2>2
  <1>4. TakerKnows(t)'
    BY <1>1 DEF DataInv, TakerKnows
  <1>5. rows \subseteq rows' /\ \A x \in rows' \ rows : x.by = t /\ RowKnows(x)'
    BY <1>1
  <1>6. DOMAIN before' = Tasks
    BY <1>1 DEF DataInv
  <1>7. AskerKnows(t)'
    <2>1. request[t] \in Request
      BY <1>1 DEF DataInv, AskerKnows
    <2>2. CASE \E id \in Ids : Resolved(t, id)
      <3>1. PICK id \in Ids : Resolved(t, id)
        BY <2>2
      <3>2. Len(got'[t]) = Len(got[t]) + 1
        BY <1>2, <3>1, AppendProperties DEF Resolved, StableInv, EntityInv, Resolving
      <3>3. pc'[t] = IF Len(got[t]) + 1 = Len(request[t].names) THEN "ready" ELSE "lookup"
        BY <1>2, <3>1 DEF Resolved, Goto
      <3> QED
        BY <1>1, <2>1, <3>2, <3>3 DEF AskerKnows
    <2>3. CASE \E l \in {"done", "create", "failed"} : Goto(t, l)
      BY <1>1, <1>2, <2>1, <2>3 DEF Goto, AskerKnows
    <2> QED
      BY <1>1, <1>2, <2>2, <2>3 DEF PgSaveEntity, Ids
  <1> QED
    BY <1>1, <1>3, <1>4, <1>5, <1>6, <1>7, DataStep

\* A memory that is stored holds the ids its request has resolved.
LEMMA StoreData ==
    ASSUME StableInv, DataInv, None \notin Ids, NEW t \in Tasks, Remember(t) \/ Observe(t)
    PROVE  DataInv'
  <1>1. /\ pc[t] = "ready" /\ UNCHANGED <<entity, request, got, before, erased>>
        /\ pc' = [pc EXCEPT ![t] = "done"]
        /\ request[t].kind \in {"remember", "observe"}
    BY DEF Remember, Observe, Goto
  <1>2. /\ pc \in [Tasks -> Labels] /\ got[t] \in Seq(Ids) /\ request[t].names \in Seq(Names)
        /\ Len(got[t]) <= Len(request[t].names) /\ NamesAreStable
    BY DEF StableInv, EntityInv, Resolving
  <1>3. StepOf(t)
    BY <1>1, <1>2 DEF StepOf
  <1>4. TakerKnows(t)'
    BY <1>1 DEF TakerKnows, Takes
  <1>a. /\ Len(got[t]) = Len(request[t].names)
        /\ request[t].kind = "remember" => Len(request[t].names) = 1
        /\ request[t].kind = "observe" => Len(request[t].names) = 2
    <2>1. Len(got[t]) = Len(request[t].names) /\ request[t] \in Request
      BY <1>1 DEF DataInv, AskerKnows
    <2>2. request[t].kind = "remember" => \E n \in Names : request[t].names = <<n>>
      BY <2>1 DEF Request
    <2>3. request[t].kind = "observe" => request[t].names \in Names \X Names
      BY <2>1 DEF Request
    <2> QED
      BY <2>1, <2>2, <2>3
  \* What the request has resolved.
  <1>5. ASSUME NEW i \in DOMAIN got[t]
        PROVE  /\ got[t][i] \in Ids /\ request[t].names[i] \in Names
               /\ got[t][i] \in erased \/ entity[request[t].names[i]] = got[t][i]
    <2>1. i \in 1 .. Len(got[t]) /\ i \in 1 .. Len(request[t].names)
      BY <1>2, <1>5, LenProperties
    <2> QED
      BY <1>2, <1>5, <2>1, ElementOfSeq DEF NamesAreStable
  <1>6. \A x \in rows' \ rows : x.by = t /\ RowKnows(x)'
    <2>1. CASE Remember(t)
      <3>1. rows' = rows \union {[by |-> t, kind |-> "semantic", ents |-> {got[t][1]}, ep |-> request[t].ep,
                                   for |-> {request[t].names[1]}]}
        BY <2>1 DEF Remember, Store
      <3>2. 1 \in DOMAIN got[t]
        BY <1>2, <1>a, <2>1, LenProperties DEF Remember
      <3> QED
        BY <1>1, <1>2, <1>5, <3>1, <3>2 DEF RowKnows
    <2>2. CASE Observe(t)
      <3>1. rows' = rows \union {[by |-> t, kind |-> "episodic", ents |-> {got[t][1], got[t][2]},
                                   ep |-> request[t].ep, for |-> {request[t].names[1], request[t].names[2]}]}
        BY <2>2 DEF Observe, Store
      <3>2. 1 \in DOMAIN got[t] /\ 2 \in DOMAIN got[t]
        BY <1>2, <1>a, <2>2, LenProperties DEF Observe
      <3> QED
        BY <1>1, <1>2, <1>5, <3>1, <3>2 DEF RowKnows
    <2> QED
      BY <2>1, <2>2
  <1>7. rows \subseteq rows'
    BY DEF Remember, Observe, Store
  <1>8. DOMAIN before' = Tasks
    BY <1>1 DEF DataInv
  <1>9. AskerKnows(t)'
    BY <1>1, <1>2 DEF DataInv, AskerKnows
  <1> QED
    BY <1>1, <1>3, <1>4, <1>6, <1>7, <1>8, <1>9, DataStep

\* An observation holds no entity, and nothing is known of it but its episode.
LEMMA ObservationData ==
    ASSUME StableInv, DataInv, None \notin Ids, NEW t \in Tasks,
           Fail(t) \/ LoadMessages(t) \/ SaveObservation(t), seen[t] \subseteq Names
    PROVE  DataInv'
  <1>1. /\ pc[t] \in {"ready", "load", "extracted"} /\ UNCHANGED <<entity, request, got, before, erased>>
        /\ \E l \in {"failed", "done", "extracted"} : Goto(t, l)
    BY Zenon DEF Fail, LoadMessages, SaveObservation
  <1>2. pc \in [Tasks -> Labels]
    BY DEF StableInv, EntityInv
  <1>3. StepOf(t)
    BY <1>1, <1>2 DEF StepOf, Goto
  <1>4. ~Takes(request[t])
    BY DEF Fail, LoadMessages, SaveObservation, DataInv, TakerKnows, Takes
  <1>5. TakerKnows(t)' /\ AskerKnows(t)'
    BY <1>1, <1>2, <1>4 DEF DataInv, TakerKnows, AskerKnows, Takes, Goto
  <1>6. rows \subseteq rows' /\ \A x \in rows' \ rows : x.by = t /\ RowKnows(x)'
    <2>1. CASE rows' = rows
      BY <2>1
    <2>2. CASE SaveObservation(t) /\ Store(t, "observation", {}, seen[t])
      <3> DEFINE o == [by |-> t, kind |-> "observation", ents |-> {}, ep |-> request[t].ep, for |-> seen[t]]
      <3>1. rows' = rows \union {o}
        BY <2>2 DEF Store
      <3>2. o.by = t /\ o.kind = "observation" /\ o.ents = {} /\ o.for = seen[t]
        OBVIOUS
      <3>3. pc'[t] = "done"
        BY <1>2, <2>2 DEF SaveObservation, Goto
      <3> HIDE DEF o
      <3>4. \A x \in rows' \ rows : x = o
        BY <3>1
      <3>5. ASSUME NEW x \in rows' \ rows PROVE x.by = t /\ RowKnows(x)'
        BY <3>2, <3>3, <3>4, <3>5 DEF RowKnows
      <3> QED
        BY <3>1, <3>5
    <2> QED
      BY <2>1, <2>2 DEF Fail, LoadMessages, SaveObservation
  <1>7. DOMAIN before' = Tasks
    BY <1>1 DEF DataInv
  <1> QED
    BY <1>1, <1>3, <1>5, <1>6, <1>7, DataStep

LEMMA ForgetData ==
    ASSUME StableInv, DataInv, None \notin Ids, NEW t \in Tasks, Forget(t)
    PROVE  DataInv'
  <1>1. /\ pc[t] = "ready" /\ request[t].kind = "forget" /\ rows' = rows \ Attached(got[t][1])
        /\ pc' = [pc EXCEPT ![t] = "done"]
        /\ UNCHANGED <<entity, request, got, before, erased>>
    BY DEF Forget, Goto
  <1>2. pc \in [Tasks -> Labels]
    BY DEF StableInv, EntityInv
  <1>3. StepOf(t) /\ Takes(request[t]) /\ pc'[t] = "done" /\ ~NobodyForgets
    BY <1>1, <1>2 DEF StepOf, Takes, NobodyForgets
  <1>4. rows' \subseteq rows /\ \A r \in rows' : got[t][1] \notin r.ents
    BY <1>1 DEF Attached
  <1>5. DOMAIN before' = Tasks
    BY <1>1 DEF DataInv
  <1> QED
    BY <1>1, <1>3, <1>4, <1>5, TakeStep

LEMMA EraseData ==
    ASSUME StableInv, DataInv, None \notin Ids, NEW t \in Tasks, Erase(t)
    PROVE  DataInv'
  <1> DEFINE id == got[t][1]
  <1>1. /\ pc[t] = "ready" /\ request[t].kind = "erase" /\ rows' = EraseRows(id)
        /\ entity' = [n \in Names |-> IF entity[n] = id THEN None ELSE entity[n]]
        /\ erased' = erased \union {id}
        /\ pc' = [pc EXCEPT ![t] = "done"]
        /\ UNCHANGED <<request, got, before>>
    BY DEF Erase, Goto
  <1>2. pc \in [Tasks -> Labels]
    BY DEF StableInv, EntityInv
  <1> HIDE DEF id
  <1>3. StepOf(t) /\ Takes(request[t]) /\ pc'[t] = "done"
    BY <1>1, <1>2 DEF StepOf, Takes
  <1>4. rows' \subseteq rows /\ \A r \in rows' : id \notin r.ents
    BY <1>1 DEF EraseRows, LegMemories, LegObservations
  <1>5. \A r \in rows', q \in rows :
            r.kind = "observation" /\ q.kind = "episodic" /\ q.ep = r.ep => q \in rows'
    <2> SUFFICES ASSUME NEW r \in rows', NEW q \in rows,
                        r.kind = "observation", q.kind = "episodic", q.ep = r.ep
                 PROVE  q \in rows'
      OBVIOUS
    <2>1. id \notin q.ents
      BY <1>1 DEF EraseRows, LegMemories, LegObservations
    <2> QED
      BY <1>1, <2>1 DEF EraseRows, LegMemories, LegObservations
  <1>6. DOMAIN before' = Tasks
    BY <1>1 DEF DataInv
  <1>7. \A r \in rows' : got[t][1] \notin r.ents
    BY <1>4 DEF id
  <1> QED
    BY <1>1, <1>3, <1>4, <1>5, <1>6, <1>7, TakeStep

\* An extraction has seen names.
SeenNames == seen \in [Tasks -> SUBSET Names]

LEMMA DataInvIsKept ==
    ASSUME StableInv, StableNames, DataInv, SeenNames, None \notin Ids, [Next]_vars
    PROVE  DataInv' /\ SeenNames'
  <1>1. ASSUME NEW t \in Tasks, NEW r \in Request, Begin(t, r)
        PROVE  DataInv' /\ SeenNames'
    BY <1>1, BeginData DEF Begin, SeenNames
  <1>2. ASSUME NEW t \in Tasks, LookUp(t) \/ CreateEntity(t)
        PROVE  DataInv' /\ SeenNames'
    BY <1>2, LookUpData, CreateData DEF LookUp, CreateEntity, SeenNames
  <1>3. ASSUME NEW t \in Tasks, Remember(t) \/ Observe(t)
        PROVE  DataInv' /\ SeenNames'
    BY <1>3, StoreData DEF Remember, Observe, SeenNames
  <1>4. ASSUME NEW t \in Tasks, Fail(t) \/ LoadMessages(t) \/ SaveObservation(t)
        PROVE  DataInv' /\ SeenNames'
    <2>1. DataInv'
      BY <1>4, ObservationData DEF SeenNames
    <2>2. \A r \in rows : r.for \subseteq Names
      BY DEF DataInv, Known, RowKnows
    <2>3. UNION {r.for : r \in Messages(request[t].ep)} \subseteq Names
      BY <2>2 DEF Messages
    <2>4. CASE LoadMessages(t)
      BY <2>1, <2>3, <2>4 DEF LoadMessages, SeenNames
    <2>5. CASE Fail(t) \/ SaveObservation(t)
      BY <2>1, <2>5 DEF Fail, SaveObservation, SeenNames
    <2> QED
      BY <1>4, <2>4, <2>5
  <1>5. ASSUME NEW t \in Tasks, Forget(t) \/ Erase(t)
        PROVE  DataInv' /\ SeenNames'
    BY <1>5, ForgetData, EraseData DEF Forget, Erase, SeenNames
  <1>6. CASE UNCHANGED vars
    BY <1>6 DEF vars, DataInv, SeenNames, Known, RowKnows, TakerKnows, AskerKnows, About, MessagesStay, NobodyForgets
  <1> QED
    BY <1>1, <1>2, <1>3, <1>4, <1>5, <1>6 DEF Next

\* What is stored and what is being taken away, after every step.
THEOREM DataInvariant ==
    ASSUME StableNames, None \notin Ids PROVE Spec => [](StableInv /\ DataInv)
  <1>1. Init => StableInv /\ DataInv /\ SeenNames
    <2> SUFFICES ASSUME Init PROVE DataInv /\ SeenNames
      BY StableStarts
    <2>1. Known = {} /\ \A t \in Tasks : pc[t] = "idle" /\ before[t] = {} /\ seen[t] = {}
      BY DEF Init, Known
    <2>2. DOMAIN before = Tasks /\ SeenNames
      BY DEF Init, SeenNames
    <2> QED
      BY <2>1, <2>2 DEF DataInv, TakerKnows, AskerKnows, MessagesStay
  <1> QED
    BY <1>1, StableStep, DataInvIsKept, PTL DEF Spec

\* What a forget or an erase leaves about its entity are memories of requests
\* that were caught by another erasure between their lookup and their write.
THEOREM OnlyTheErasedIsLeft ==
    ASSUME StableNames, None \notin Ids PROVE Spec => []LeftIsOfTheErased
  <1>1. DataInv => LeftIsOfTheErased
    <2> SUFFICES ASSUME DataInv, NEW t \in Tasks, pc[t] = "done", Takes(request[t]),
                        NEW r \in Left(t), r.kind # "observation"
                 PROVE  r.ents \intersect erased # {}
      BY DEF LeftIsOfTheErased, Done, Takes
    <2>1. r \in About(t) /\ r \in before[t] \intersect rows
      BY DEF Left, About
    <2> QED
      BY <2>1 DEF DataInv, TakerKnows
  <1> QED
    BY <1>1, DataInvariant, PTL

\* An erase leaves no observation of an episode whose messages it deletes, where
\* nobody forgets (the order of the legs of erase_entity_bounded).
THEOREM ObservationsAlwaysGo ==
    ASSUME StableNames, None \notin Ids PROVE Spec => []ObservationsGoWithMessages
  <1>1. DataInv => ObservationsGoWithMessages
    <2> SUFFICES ASSUME DataInv, \A u \in Tasks : request[u].kind # "forget",
                        NEW t \in Tasks, pc[t] = "done", request[t].kind = "erase",
                        NEW r \in Left(t), r.kind = "observation",
                        NEW q \in before[t], q.kind = "episodic", q.ep = r.ep,
                        got[t] # <<>>, got[t][1] \in q.ents
                 PROVE  FALSE
      BY DEF ObservationsGoWithMessages, Done
    <2>1. NobodyForgets /\ r \in before[t] \intersect rows
      BY DEF NobodyForgets, Left
    <2>2. q \in rows
      BY <2>1 DEF DataInv, MessagesStay
    <2> QED
      BY <2>2 DEF DataInv, TakerKnows, Takes
  <1> QED
    BY <1>1, DataInvariant, PTL
=============================================================================
