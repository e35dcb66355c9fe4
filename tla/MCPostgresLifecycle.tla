------------------------ MODULE MCPostgresLifecycle ------------------------
(* The embedding lifecycle under either backend: EmbeddingLifecycle as it  *)
(* is, or PostgresLifecycle.  A PostgreSQL instance has several sources of *)
(* one text and a backfill, or one source of several texts, which may be   *)
(* restored, and a backfill or a search.                                   *)
EXTENDS PostgresLifecycle, FiniteSets, TLC

VARIABLE conf   \* the instance, chosen once

Instances ==
    {[backend |-> "sqlite"]}
    \cup [backend : {"postgres"}, reader : {"worker", "search"},
          mems : {{m} : m \in Memories}, hashes : {Hashes}]
    \cup [backend : {"postgres"}, reader : {"worker"},
          mems : {Memories}, hashes : {{h} : h \in Hashes}]

MCInit == PgInit /\ conf \in Instances

InstanceStep ==
    /\ PgNext
    /\ \A t \in Txs :
           LET x == tx'[t] IN
           /\ x.op = "restore" => conf.hashes = Hashes
           /\ x.op \in {"write", "restore"} => x.mem \in conf.mems /\ x.hash \in conf.hashes
           /\ x.op = "delete" => x.mems \subseteq conf.mems
    /\ \A r \in queue' : r.seq < MaxSeq
    /\ conf.reader = "worker" => UNCHANGED search
    /\ conf.reader = "search" => UNCHANGED page

MCNext ==
    /\ UNCHANGED conf
    /\ \/ conf.backend = "sqlite" /\ Next /\ UNCHANGED pgVars
       \/ conf.backend = "postgres" /\ InstanceStep

MCSpec == MCInit /\ [][MCNext]_<<vars, pgVars, conf>>

Sym == Permutations(Memories) \cup Permutations(Hashes)
           \cup Permutations(Spaces) \cup Permutations(Txs)
=============================================================================
