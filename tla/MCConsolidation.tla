-------------------------- MODULE MCConsolidation ---------------------------
(* Small instances of who may consolidate at a time: dispatch with the     *)
(* permit inside it, mapped to FifoPermit; and what is left between two    *)
(* processes on one database, which the gate does not coordinate, in the   *)
(* promotion pass, on SQLite and as transactions of PostgreSQL, and in the *)
(* decay pass.  The variable part chooses one, the others rest in their    *)
(* initial states.  On PostgreSQL there are two of the three sources, and  *)
(* either a writer or a run that stops early.                              *)
EXTENDS ConsolidationGate, ConsolidationDecay, Sequences, TLC

CONSTANTS Procs, Writers, tA, NoText

VARIABLES
    part,
    text, retired, snap, state, anchor, cursor, promoted, buried, run, disturbed, writes, stops, tx

Shared == INSTANCE PostgresWorkspace WITH
    N <- 3, EntityOf <- <<1, 1, 2>>, Texts <- {tA}, Similar <- {<<tA, tA>>},
    Runners <- Procs, SourcePage <- 2, CandidatePage <- 1, MaxMembers <- 2, MaxWrites <- 1, MaxStops <- 1,
    live <- promoted

\* A text is not the lack of one, and a request has a connection of its own.
ASSUME ConnectionsAssumption == tA # NoText /\ Procs \cap Writers = {}

wvars ==
    <<text, retired, snap, state, anchor, cursor, promoted, buried, run, disturbed, writes, stops, tx>>
cvars == <<allVars, dvars, wvars, part>>

\* The parts that have source s.
PartsWith(s) == {"promotion"} \cup (IF s < 3 THEN {"promotion on PostgreSQL"} ELSE {})

CInit ==
    /\ part \in {"gate", "promotion", "promotion on PostgreSQL", "decay"}
    /\ GateInit /\ DInit /\ Shared!WInit
    /\ \A s \in 1 .. 3 : part \notin PartsWith(s) => text[s] = NoText
    /\ part # "decay" => live = {}

CNext ==
    /\ UNCHANGED part
    /\ \/ part = "gate" /\ GateNext /\ UNCHANGED <<dvars, wvars>>
       \/ part = "promotion" /\ Shared!Next /\ stops' = 0 /\ UNCHANGED <<allVars, dvars, tx>>
       \/ /\ part = "promotion on PostgreSQL"
          /\ Shared!WNext /\ text'[3] = NoText /\ writes' + stops' <= 1
          /\ UNCHANGED <<allVars, dvars>>
       \/ part = "decay" /\ DNext /\ UNCHANGED <<allVars, wvars>>

CSpec == CInit /\ [][CNext]_cvars

-----------------------------------------------------------------------------

\* What commit_promotion keeps between two processes on either backend, and the
\* order in which PostgreSQL's cluster mutations lock their rows.
NoDuplicatePromotion == Shared!NoDuplicatePromotion
SupersededStaysBuried == Shared!SupersededStaysBuried
MutationsSerialize == Shared!MutationsSerialize

Sym == Permutations(Callers) \cup Permutations(Namespaces) \cup Permutations(Procs)
=============================================================================
