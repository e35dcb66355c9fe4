----------------------------- MODULE MCGateway ------------------------------
(* Small instances of what the handlers of a server share: the rate limits *)
(* of a tenant in Redis, the namespaces of tenants in the database, the    *)
(* snapshot directory of a namespace, and the entities and memories of a   *)
(* namespace on PostgreSQL with every request, or on SQLite with entities  *)
(* that exist and are not erased.  The variable part chooses one, the      *)
(* others rest in their initial state.  The configuration gives Tasks the  *)
(* values of Tenants, so that one set of permutations serves both.         *)
EXTENDS RateLimiter, TenantNamespaces, SnapshotStore, Sequences, TLC

CONSTANTS Names, Tasks, Episodes

VARIABLES part, entity, rows, request, epc, got, seen, before, erased

Pg == INSTANCE EntityData WITH
        pc <- epc, Postgres <- TRUE, Existing <- {},
        Kinds <- {"remember", "observe", "extract", "forget", "erase"}
Sqlite == INSTANCE EntityData WITH
        pc <- epc, Postgres <- FALSE, Existing <- Names,
        Kinds <- {"remember", "observe", "extract", "forget"}

ASSUME EntitiesAssumption == None \notin Pg!Ids

evars == <<entity, rows, request, epc, got, seen, before, erased>>
gvars == <<rvars, tvars, svars, evars, part>>

GInit ==
    /\ part \in {"rates", "tenants", "snapshots", "entities on PostgreSQL", "entities on SQLite"}
    /\ RInit /\ TInit /\ SInit
    /\ part # "tenants" => postgres
    /\ IF part = "entities on SQLite" THEN Sqlite!Init ELSE Pg!Init

GNext ==
    /\ UNCHANGED part
    /\ \/ part = "rates" /\ RNext /\ UNCHANGED <<tvars, svars, evars>>
       \/ part = "tenants" /\ TNext /\ UNCHANGED <<rvars, svars, evars>>
       \/ part = "snapshots" /\ SNext /\ UNCHANGED <<rvars, tvars, evars>>
       \/ part = "entities on PostgreSQL" /\ Pg!Next /\ UNCHANGED <<rvars, tvars, svars>>
       \/ part = "entities on SQLite" /\ Sqlite!Next /\ UNCHANGED <<rvars, tvars, svars>>

GSpec == GInit /\ [][GNext]_gvars

\* What requests on the entities of a namespace keep, on either backend.
NamesAreStable == Pg!NamesAreStable
LeftIsOfTheErased == Pg!LeftIsOfTheErased
ObservationsGoWithMessages == Pg!ObservationsGoWithMessages

Sym == Permutations(Tenants)
=============================================================================
