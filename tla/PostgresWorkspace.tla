-------------------------- MODULE PostgresWorkspace --------------------------
(***************************************************************************)
(* The promotion pass of ConsolidationWorkspace on PostgreSQL: impl        *)
(* ConsolidationWorkspace for PostgresBackend of storage/postgres.rs.      *)
(* What is one transaction under SQLite's only lock is here a sequence of  *)
(* statements at READ COMMITTED, each of which sees what is committed when *)
(* it starts, over rows that are locked one after the other.  Processes    *)
(* and writers run side by side, wait for one another's rows, and where    *)
(* they wait in a circle PostgreSQL ends one of the transactions.          *)
(*                                                                         *)
(* The variables of ConsolidationWorkspace are the committed rows; a       *)
(* source and its vector are one row.  A statement asks for its rows       *)
(* (wants), gets them one by one (Lock), and what follows it reads or      *)
(* commits.  commit_decay, which updates sources without other rows, and   *)
(* the byte budgets are left out, and the run's row is there from the      *)
(* beginning.                                                              *)
(***************************************************************************)
EXTENDS ConsolidationWorkspace, SequencesExt

CONSTANT Writers    \* connections of other requests

VARIABLE tx         \* of a connection: the statement it is at, rows it has and wants

Conns == Runners \cup Writers

wvars == <<vars, tx>>

Closed == [at |-> "closed", wants |-> <<>>, held |-> {}, note |-> <<>>]

WInit == Init /\ tx = [c \in Conns |-> Closed]

-----------------------------------------------------------------------------
(* Row locks                                                               *)

Namespace == <<"namespaces", 0>>
Lifecycle == <<"namespace_embedding_state", 0>>
Run == <<"consolidation_runs", 0>>
Member(s) == <<"consolidation_sources", s>>
Source(s) == <<"episodic_memories", s>>

ForUpdate(row) == [row |-> row, mode |-> "update"]
ForShare(row) == [row |-> row, mode |-> "share"]
ForKeyShare(row) == [row |-> row, mode |-> "key share"]

InOrder(S) == SetToSortSeq(S, <)
MembersForUpdate(S) == [i \in 1 .. Cardinality(S) |-> ForUpdate(Member(InOrder(S)[i]))]
MembersForShare(S) == [i \in 1 .. Cardinality(S) |-> ForShare(Member(InOrder(S)[i]))]
SourcesForShare(S) == [i \in 1 .. Cardinality(S) |-> ForShare(Source(InOrder(S)[i]))]

Conflicts(k, l) == k.row = l.row /\ "update" \in {k.mode, l.mode}

\* Who has a row that a connection waits for.
HoldersOf(l, c) == {d \in Conns \ {c} : \E k \in tx[d].held : Conflicts(k, l)}
WaitsFor(c) == IF tx[c].wants = <<>> THEN {} ELSE HoldersOf(Head(tx[c].wants), c)

Lock(c) ==
    /\ tx[c].wants # <<>> /\ WaitsFor(c) = {}
    /\ tx' = [tx EXCEPT ![c].held = @ \cup {Head(tx[c].wants)}, ![c].wants = Tail(@)]
    /\ UNCHANGED vars

\* The next statement of c, at which it is when it has the rows.
Ask(c, at, locks) ==
    /\ tx' = [tx EXCEPT ![c].at = at, ![c].wants = locks]
    /\ UNCHANGED vars

Has(c, at) == tx[c].at = at /\ tx[c].wants = <<>>
End(c) == tx' = [tx EXCEPT ![c] = Closed]
Open(r, pc) == At(r, pc) /\ tx[r] = Closed

Unwritten == UNCHANGED <<sourceVars, workspaceVars, semanticVars, disturbed, boundVars>>

\* The transaction is rolled back and the error ends the run.
Abort(r) == Return(r) /\ End(r) /\ Unwritten

\* An UPDATE of the run's row alone.
RunFree(r) == tx[r] = Closed /\ HoldersOf(ForUpdate(Run), r) = {}

-----------------------------------------------------------------------------
(* begin_or_resume                                                         *)

OpenBegin(r) ==
    /\ Open(r, "off")
    /\ Ask(r, "compare", <<ForUpdate(Lifecycle), ForUpdate(Run)>>)

Unchanged == (\A s \in Sources : snap[s] = Current(s)) /\ \E s \in Sources : snap[s] # NoText

Compare(r) ==
    /\ Has(r, "compare")
    /\ IF Unchanged
         THEN run' = [run EXCEPT ![r] = [pc |-> "begun"]] /\ End(r) /\ Unwritten
         ELSE Ask(r, "insert", MembersForUpdate({s \in Sources : snap[s] # NoText}))

\* INSERT ... SELECT, whose foreign key is checked when it has read the sources.
InsertSources(r) ==
    /\ Has(r, "insert")
    /\ tx' = [tx EXCEPT ![r].at = "inserted", ![r].wants = <<ForKeyShare(Namespace)>>,
                        ![r].note = [s \in Sources |-> Current(s)]]
    /\ UNCHANGED vars

CommitBegin(r) ==
    /\ Has(r, "inserted")
    /\ snap' = tx[r].note
    /\ state' = [s \in Sources |-> "unassigned"]
    /\ anchor' = [s \in Sources |-> 0]
    /\ cursor' = 0
    /\ disturbed' = (\E s \in Sources : tx[r].note[s] # Current(s))
    /\ run' = [run EXCEPT ![r] = [pc |-> "begun"]]
    /\ End(r)
    /\ UNCHANGED <<sourceVars, semanticVars, boundVars>>

-----------------------------------------------------------------------------
(* next_sources: the stored cursor is a statement of its own               *)

ReadStored(r) ==
    /\ Open(r, "paging") /\ run[r].after = Stored
    /\ run' = [run EXCEPT ![r].after = cursor]
    /\ UNCHANGED tx /\ Unwritten

PageSources(r) ==
    /\ Open(r, "paging") /\ run[r].after # Stored
    /\ NextPage(r)
    /\ UNCHANGED <<tx, boundVars>>

-----------------------------------------------------------------------------
(* record_tentative_match, of the anchor with itself or with a candidate   *)

Target(r) == IF At(r, "source") THEN Anchor(r) ELSE Min(run[r].similar)

\* Whether the UPDATE finds the member.
Assigns(a, m) ==
    /\ snap[m] # NoText
    /\ state[m] = "unassigned" \/ (anchor[m] = a /\ state[m] = "tentative")
    /\ snap[a] # NoText /\ anchor[a] \in {0, a} /\ state[a] \in {"unassigned", "tentative"}

OpenMatch(r) ==
    /\ Open(r, "source") \/ Open(r, "match")
    /\ Ask(r, "assign", <<ForUpdate(Run)>>)

AfterMatch(r, changed) ==
    LET a == Anchor(r)
        rest == run[r].similar \ {Target(r)}
    IN  run' = [run EXCEPT ![r] =
            IF @.pc = "source"
            THEN [@ EXCEPT !.pc = IF changed THEN "load" ELSE "checkpoint"]
            ELSE IF changed /\ Cardinality(Members(a) \cup {Target(r)}) > MaxMembers
            THEN [@ EXCEPT !.pc = "exceeded"]
            ELSE [@ EXCEPT !.similar = rest,
                           !.pc = CASE rest # {} -> "match"
                                    [] rest = {} /\ run[r].scanned # NoMore -> "scan"
                                    [] OTHER -> "finalize"]]

UpdateMember(r) ==
    /\ Has(r, "assign")
    /\ IF Assigns(Anchor(r), Target(r))
         THEN Ask(r, "assigned", <<ForUpdate(Member(Target(r)))>>)
         ELSE AfterMatch(r, FALSE) /\ End(r) /\ Unwritten

CommitMatch(r) ==
    /\ Has(r, "assigned")
    /\ state' = [state EXCEPT ![Target(r)] = "tentative"]
    /\ anchor' = [anchor EXCEPT ![Target(r)] = Anchor(r)]
    /\ AfterMatch(r, TRUE)
    /\ End(r)
    /\ UNCHANGED <<sourceVars, snap, cursor, semanticVars, disturbed, boundVars>>

-----------------------------------------------------------------------------
(* load_source and page_later_unassigned: a preflight locks what the       *)
(* statement after it reads                                                *)

OpenLoad(r) ==
    /\ Open(r, "load")
    /\ IF Intact(Anchor(r))
         THEN Ask(r, "loading", <<ForShare(Member(Anchor(r))), ForShare(Run), ForShare(Source(Anchor(r)))>>)
         ELSE Abort(r)

CommitLoad(r) ==
    /\ Has(r, "loading")
    /\ LoadAnchor(r)
    /\ End(r) /\ UNCHANGED boundVars

OpenScan(r) ==
    /\ Open(r, "scan")
    /\ IF snap[Anchor(r)] = NoText THEN Abort(r)
       ELSE Ask(r, "preflight", <<ForShare(Member(Anchor(r)))>>)

Candidates(r) ==
    First(CandidatePage, {s \in Sources : /\ EntityOf[s] = EntityOf[Anchor(r)] /\ s > run[r].scanned
                                          /\ state[s] = "unassigned" /\ Intact(s)})

Preflight(r) ==
    /\ Has(r, "preflight")
    /\ LET rows == InOrder(Candidates(r))
       IN Ask(r, "scanning", FlattenSeq([i \in DOMAIN rows |->
              <<ForShare(Member(rows[i])), ForShare(Run), ForShare(Source(rows[i]))>>]))

CommitScan(r) ==
    /\ Has(r, "scanning")
    /\ ScanCandidates(r)
    /\ End(r) /\ UNCHANGED boundVars

-----------------------------------------------------------------------------
(* finalize_or_discard_cluster                                             *)

\* Variant: the members before the run.
LockMembersFirst(r) ==
    /\ Open(r, "finalize")
    /\ Ask(r, "members", MembersForShare(Members(Anchor(r))) \o <<ForUpdate(Run)>>)

OpenFinalize(r) ==
    /\ Open(r, "finalize")
    /\ Ask(r, "members", <<ForUpdate(Run)>>)

SelectMembers(r) ==
    /\ Has(r, "members")
    /\ Ask(r, "counted", MembersForShare(Members(Anchor(r))))

Present(r) == {s \in Members(Anchor(r)) : text[s] # NoText}

\* The content of the latest member is read under its lock.
CountMembers(r) ==
    LET a == Anchor(r)
        count == Cardinality(Members(a))
    IN  /\ Has(r, "counted")
        /\ \/ count <= 1
              /\ Ask(r, "finalizing", MembersForUpdate({a} \cap {s \in Sources : snap[s] # NoText}))
           \/ /\ count > MaxMembers
              /\ run' = [run EXCEPT ![r].pc = "exceeded"]
              /\ End(r) /\ Unwritten
           \/ /\ count \in 2 .. MaxMembers /\ Present(r) # {}
              /\ Ask(r, "finalizing", <<ForShare(Source(Max(Present(r))))>> \o MembersForUpdate(Members(a)))
           \/ count \in 2 .. MaxMembers /\ Present(r) = {} /\ Abort(r)

CommitFinalize(r) ==
    /\ Has(r, "finalizing")
    /\ Finalize(r)
    /\ End(r) /\ UNCHANGED boundVars

-----------------------------------------------------------------------------
(* commit_promotion                                                        *)

OpenPromotion(r) ==
    /\ Open(r, "commit")
    /\ Ask(r, "assignments", <<ForUpdate(Namespace), ForUpdate(Run)>>)

SelectAssigned(r) ==
    /\ Has(r, "assignments")
    /\ Ask(r, "validate", MembersForUpdate(Members(Anchor(r))))

\* The members whose vectors are still those of the snapshot, locked.
ValidMembers(r) == {s \in Members(Anchor(r)) : Intact(s)}

Validate(r) ==
    LET a == Anchor(r)
        consistent == /\ Cardinality(Members(a)) \in 2 .. MaxMembers
                      /\ a \in Members(a) /\ \A s \in Members(a) : state[s] = "finalized"
    IN  /\ Has(r, "validate")
        /\ IF consistent THEN Ask(r, "decide", SourcesForShare(ValidMembers(r))) ELSE Abort(r)

Object(r) == <<EntityOf[Anchor(r)], run[r].object>>

\* The admission reads the rows of the same fact, then the lifecycle is locked.
Decide(r) ==
    /\ Has(r, "decide")
    /\ \/ /\ ValidMembers(r) # Members(Anchor(r))
          /\ Ask(r, "invalid", MembersForUpdate({s \in Sources : snap[s] # NoText}))
       \/ /\ ValidMembers(r) = Members(Anchor(r)) /\ run[r].provenance # ValidMembers(r)
          /\ Abort(r)
       \/ /\ ValidMembers(r) = Members(Anchor(r)) /\ run[r].provenance = ValidMembers(r)
          /\ IF Admitted(Object(r), ValidMembers(r))
               THEN Ask(r, "admitted", <<ForUpdate(Lifecycle)>>)
               ELSE Ask(r, "refused", <<>>)

CommitInvalid(r) ==
    /\ Has(r, "invalid")
    /\ Rebuild
    /\ Return(r) /\ End(r)
    /\ UNCHANGED <<sourceVars, semanticVars, boundVars>>

CommitPromoted(r) ==
    /\ Has(r, "admitted") \/ Has(r, "refused")
    /\ live' = IF Has(r, "admitted") THEN [live EXCEPT ![Object(r)] = @ + 1] ELSE live
    /\ state' = [s \in Sources |-> IF s \in Members(Anchor(r)) THEN "promoted" ELSE state[s]]
    /\ run' = [run EXCEPT ![r] =
           [pc |-> "checkpoint", after |-> @.after, cursor |-> @.cursor, page |-> @.page]]
    /\ End(r)
    /\ UNCHANGED <<sourceVars, snap, anchor, cursor, buried, disturbed, boundVars>>

-----------------------------------------------------------------------------
(* The run, writers, and PostgreSQL itself                                 *)

\* workspace.cursor, and the updates of the run's row.
Outside(r) ==
    /\ tx[r] = Closed
    /\ \/ ReadCursor(r)
       \/ RunFree(r) /\ (Checkpoint(r) \/ Complete(r))
       \/ /\ RunFree(r) /\ At(r, "exceeded")
          /\ Incomplete(r)
          /\ UNCHANGED <<sourceVars, snap, state, anchor, semanticVars, disturbed>>
    /\ UNCHANGED <<tx, boundVars>>

\* Cancelled or out of time between two calls; an error or a crash anywhere.
StopRun(r) ==
    /\ run[r].pc \notin {"off", "begun"} /\ stops < MaxStops
    /\ stops' = stops + 1
    /\ \/ RunFree(r) /\ Incomplete(r)
       \/ Return(r) /\ UNCHANGED cursor
    /\ End(r)
    /\ UNCHANGED <<sourceVars, snap, state, anchor, semanticVars, disturbed, writes>>

\* Requests of other connections: a source is saved, or retired or deleted, or
\* a promotion is superseded or forgotten.  They lock the namespace first.
OpenWrite(w) ==
    /\ tx[w] = Closed /\ writes < MaxWrites
    /\ writes' = writes + 1
    /\ \/ \E s \in Sources :
              \/ tx' = [tx EXCEPT ![w] = [at |-> "save", held |-> {}, note |-> <<s>>,
                        wants |-> <<ForUpdate(Namespace), ForUpdate(Lifecycle), ForUpdate(Source(s))>>]]
              \/ tx' = [tx EXCEPT ![w] = [at |-> "retire", held |-> {}, note |-> <<s>>,
                        wants |-> <<ForUpdate(Namespace), ForUpdate(Source(s))>>]]
       \/ tx' = [tx EXCEPT ![w].at = "fact", ![w].wants = <<ForUpdate(Namespace)>>]
    /\ UNCHANGED <<sourceVars, workspaceVars, semanticVars, run, disturbed, stops>>

CommitWrite(w) ==
    /\ \/ Has(w, "save") /\ \E t \in Texts : WriteSource(tx[w].note[1], t)
       \/ Has(w, "retire") /\ (RetireSource(tx[w].note[1]) \/ DeleteSource(tx[w].note[1]))
       \/ Has(w, "fact") /\ \E p \in Entities \X Texts : SupersedePromotion(p) \/ ForgetPromotion(p)
    /\ End(w) /\ UNCHANGED boundVars

\* The row is not there, or the request fails.
RollBackWrite(w) ==
    /\ Has(w, "save") \/ Has(w, "retire") \/ Has(w, "fact")
    /\ End(w) /\ Unwritten /\ UNCHANGED run

\* Transactions that wait for one another.
Circle(T) == T # {} /\ \A c \in T : WaitsFor(c) \cap T # {}

\* PostgreSQL ends one transaction of a circle.
DetectDeadlock(c) ==
    /\ \E T \in SUBSET Conns : /\ c \in T /\ Circle(T)
                               /\ \A S \in SUBSET T : Circle(S) => S = T
    /\ run' = IF c \in Runners THEN [run EXCEPT ![c] = Off] ELSE run
    /\ End(c) /\ Unwritten

WNext ==
    \/ \E c \in Conns : Lock(c) \/ DetectDeadlock(c)
    \/ \E r \in Runners :
        \/ OpenBegin(r) \/ Compare(r) \/ InsertSources(r) \/ CommitBegin(r)
        \/ ReadStored(r) \/ PageSources(r)
        \/ OpenMatch(r) \/ UpdateMember(r) \/ CommitMatch(r)
        \/ OpenLoad(r) \/ CommitLoad(r)
        \/ OpenScan(r) \/ Preflight(r) \/ CommitScan(r)
        \/ OpenFinalize(r) \/ SelectMembers(r) \/ CountMembers(r) \/ CommitFinalize(r)
        \/ OpenPromotion(r) \/ SelectAssigned(r) \/ Validate(r) \/ Decide(r)
        \/ CommitInvalid(r) \/ CommitPromoted(r)
        \/ Outside(r) \/ StopRun(r)
    \/ \E w \in Writers : OpenWrite(w) \/ CommitWrite(w) \/ RollBackWrite(w)

WSpec == WInit /\ [][WNext]_wvars

-----------------------------------------------------------------------------

\* The transactions that change a cluster lock the run first, then its rows,
\* and serialize without a lock inversion: where transactions wait in a circle,
\* one of them is another's begin, load or scan of a run, or a writer's
\* (record_tentative_match, finalize_or_discard_cluster, commit_promotion).
MutationsSerialize ==
    LET mutating == {r \in Runners : run[r].pc \in {"source", "match", "finalize", "commit"}}
    IN \A T \in SUBSET mutating : ~Circle(T)
=============================================================================
