----------------------- MODULE ConsolidationWorkspace -----------------------
(***************************************************************************)
(* The promotion pass of a consolidation run: promote_bounded of           *)
(* consolidation/mod.rs over the durable workspace of storage/sqlite.rs    *)
(* (consolidation_runs, consolidation_sources), in one namespace with one  *)
(* active embedding space.                                                 *)
(*                                                                         *)
(* Every storage call is one transaction and one action.  Between two of   *)
(* them a source may be rewritten, superseded or deleted, a promotion      *)
(* superseded or deleted, and the run may be cancelled, run out of time,   *)
(* fail or crash; the next run resumes from the stored cursor and          *)
(* assignments.                                                            *)
(*                                                                         *)
(* A source is its rank in (about_entity, timestamp, id) order, which is   *)
(* also its timestamp.  A source has a vector exactly while it is live     *)
(* (ActiveCoverage of EmbeddingLifecycle), so a text stands for its hash   *)
(* and its vector, and Similar for the cosine test.                        *)
(***************************************************************************)
EXTENDS Integers, FiniteSets, FiniteSetsExt

CONSTANTS
    N,            \* number of episodic sources
    EntityOf,     \* about_entity of each source
    Texts, NoText,
    Similar,      \* pairs of texts above SIMILARITY_THRESHOLD
    Runners,      \* processes that may run the engine on this database
    SourcePage,   \* MEMORY_PAGE_SIZE
    CandidatePage,\* CONSOLIDATION_COMPARISON_PAGE_SIZE
    MaxMembers,   \* MAX_PROMOTION_CLUSTER_MEMBERS
    MaxWrites,    \* bound on what other writers do
    MaxStops      \* bound on runs that end early

Sources == 1 .. N
Entities == {EntityOf[s] : s \in Sources}

ASSUME WorkspaceAssumption ==
    /\ N \in Nat \ {0}
    /\ \A s, t \in Sources : s <= t => EntityOf[s] <= EntityOf[t]
    /\ NoText \notin Texts
    /\ Similar \subseteq Texts \X Texts
    /\ \A t \in Texts : <<t, t>> \in Similar
    /\ {SourcePage, CandidatePage, MaxMembers} \subseteq Nat \ {0}
    /\ {MaxWrites, MaxStops} \subseteq Nat

VARIABLES
    text,      \* episodic_memories: the content, NoText when there is no row
    retired,   \* episodic rows with superseded_by or invalid_at
    snap,      \* consolidation_sources: source_sha256, NoText when there is no row
    state,     \* assignment_state
    anchor,    \* assignment_anchor, 0 for NULL
    cursor,    \* consolidation_runs.cursor_ordinal
    live,      \* number of live "mentioned" rows per entity and text
    buried,    \* latest invalid_at of its superseded rows, Never without one
    run,       \* what each engine run holds in memory
    disturbed, \* history: a source changed since the snapshot was taken
    writes,    \* number of writer steps, at most MaxWrites
    stops      \* number of runs that ended early, at most MaxStops

sourceVars == <<text, retired>>
workspaceVars == <<snap, state, anchor, cursor>>
semanticVars == <<live, buried>>
boundVars == <<writes, stops>>
vars == <<text, retired, snap, state, anchor, cursor, live, buried, run, disturbed, writes, stops>>

Never == -1
NoMore == N + 1    \* next_cursor is None
Stored == -1       \* page from the stored cursor

Off == [pc |-> "off"]

\* What a snapshot of the namespace holds for s.
Current(s) == IF s \in retired THEN NoText ELSE text[s]

\* Variant: the row is not compared with its source again.
IntactRow(s) == snap[s] # NoText

\* The workspace row of s still matches a vector of its source.
Intact(s) == snap[s] # NoText /\ snap[s] = Current(s)

Members(a) == {s \in Sources : snap[s] # NoText /\ anchor[s] = a}

\* The first k elements of a set of sources.
First(k, S) == {s \in S : Cardinality({u \in S : u < s}) < k}

\* next_cursor of a page: its last row if the page is full.
NextCursor(page, size) == IF Cardinality(page) = size THEN Max(page) ELSE NoMore

Init ==
    /\ text \in [Sources -> Texts \cup {NoText}]
    /\ retired = {}
    /\ snap = [s \in Sources |-> NoText]
    /\ state = [s \in Sources |-> "unassigned"]
    /\ anchor = [s \in Sources |-> 0]
    /\ cursor = 0
    /\ live = [p \in Entities \X Texts |-> 0]
    /\ buried = [p \in Entities \X Texts |-> Never]
    /\ run = [r \in Runners |-> Off]
    /\ disturbed = TRUE
    /\ writes = 0 /\ stops = 0

-----------------------------------------------------------------------------
(* The workspace                                                           *)

\* Variant: the new snapshot is resumed from the old cursor.
RebuildKeepsCursor ==
    /\ snap' = [s \in Sources |-> Current(s)]
    /\ state' = [s \in Sources |-> "unassigned"]
    /\ anchor' = [s \in Sources |-> 0]
    /\ disturbed' = FALSE
    /\ UNCHANGED cursor

\* Delete all rows, insert one per live source, start over.
Rebuild ==
    /\ snap' = [s \in Sources |-> Current(s)]
    /\ state' = [s \in Sources |-> "unassigned"]
    /\ anchor' = [s \in Sources |-> 0]
    /\ cursor' = 0
    /\ disturbed' = FALSE

\* Variant: an interrupted cluster is not taken up again.
MatchesUnassigned(a, m) == snap[m] # NoText /\ state[m] = "unassigned"

\* Variant: sources are taken from other clusters.
MatchesAny(a, m) == snap[m] # NoText

\* record_tentative_match: whether it changes a row, and the change.
Matches(a, m) == snap[m] # NoText /\ (state[m] = "unassigned" \/ anchor[m] = a)

RecordMatch(a, m) ==
    /\ state' = [state EXCEPT ![m] = IF Matches(a, m) THEN "tentative" ELSE @]
    /\ anchor' = [anchor EXCEPT ![m] = IF Matches(a, m) THEN a ELSE @]

-----------------------------------------------------------------------------
(* A run                                                                   *)

At(r, l) == run[r].pc = l

\* The call returns; nothing but the workspace survives.
Return(r) == run' = [run EXCEPT ![r] = Off]

\* An error of a storage call ends the run without a checkpoint.
Fail(r) == Return(r) /\ UNCHANGED <<workspaceVars, semanticVars, disturbed>>

\* begin_or_resume
Begin(r) ==
    /\ At(r, "off")
    /\ IF \E s \in Sources : snap[s] # Current(s)
         THEN Rebuild
         ELSE IF \A s \in Sources : snap[s] = NoText
         THEN cursor' = 0 /\ UNCHANGED <<snap, state, anchor, disturbed>>
         ELSE UNCHANGED <<workspaceVars, disturbed>>
    /\ run' = [run EXCEPT ![r] = [pc |-> "begun"]]
    /\ UNCHANGED <<sourceVars, semanticVars>>

\* workspace.cursor
ReadCursor(r) ==
    /\ At(r, "begun")
    /\ run' = [run EXCEPT ![r] =
           [pc |-> "paging", after |-> Stored, cursor |-> cursor, page |-> {}]]
    /\ UNCHANGED <<sourceVars, workspaceVars, semanticVars, disturbed>>

\* next_sources
NextPage(r) ==
    LET from == IF run[r].after = Stored THEN cursor ELSE run[r].after
        page == First(SourcePage,
                    {s \in Sources : /\ snap[s] # NoText /\ s > from
                                     /\ state[s] \notin {"discarded", "promoted"}
                                     /\ anchor[s] \in {0, s}})
    IN  /\ At(r, "paging")
        /\ run' = [run EXCEPT ![r].page = page,
                              ![r].after = NextCursor(page, SourcePage),
                              ![r].pc = IF page = {} THEN "complete" ELSE "source"]
        /\ UNCHANGED <<sourceVars, workspaceVars, semanticVars, disturbed>>

\* The anchor of the current iteration.
Anchor(r) == Min(run[r].page)

\* The source becomes the anchor of a cluster unless it was assigned to an
\* earlier one since the page was read.
TakeSource(r) ==
    /\ At(r, "source")
    /\ RecordMatch(Anchor(r), Anchor(r))
    /\ run' = [run EXCEPT ![r].pc =
           IF Matches(Anchor(r), Anchor(r)) THEN "load" ELSE "checkpoint"]
    /\ UNCHANGED <<sourceVars, snap, cursor, semanticVars, disturbed>>

\* load_source
LoadAnchor(r) ==
    /\ At(r, "load")
    /\ IF Intact(Anchor(r))
         THEN /\ run' = [run EXCEPT ![r] =
                     [pc |-> "scan", after |-> @.after, cursor |-> @.cursor, page |-> @.page,
                      vector |-> snap[Anchor(r)], scanned |-> Anchor(r), similar |-> {}]]
              /\ UNCHANGED <<workspaceVars, semanticVars, disturbed>>
         ELSE Fail(r)
    /\ UNCHANGED sourceVars

\* page_later_unassigned, and the cosine test of every candidate.
ScanCandidates(r) ==
    LET a == Anchor(r)
        page == First(CandidatePage,
                    {s \in Sources : /\ EntityOf[s] = EntityOf[a] /\ s > run[r].scanned
                                     /\ state[s] = "unassigned" /\ Intact(s)})
        similar == {s \in page : <<run[r].vector, snap[s]>> \in Similar}
        next == NextCursor(page, CandidatePage)
    IN  /\ At(r, "scan")
        /\ IF snap[a] = NoText
             THEN Fail(r)
             ELSE /\ run' = [run EXCEPT ![r].similar = similar,
                                        ![r].scanned = next,
                                        ![r].pc = CASE similar # {} -> "match"
                                                    [] similar = {} /\ next # NoMore -> "scan"
                                                    [] OTHER -> "finalize"]
                  /\ UNCHANGED <<workspaceVars, semanticVars, disturbed>>
        /\ UNCHANGED sourceVars

\* The run gives up with a checkpoint: cancelled, out of time or of budget.
Incomplete(r) ==
    /\ cursor' = run[r].cursor
    /\ Return(r)

\* record_tentative_match of the next similar candidate.
MatchCandidate(r) ==
    LET a == Anchor(r)
        m == Min(run[r].similar)
        rest == run[r].similar \ {m}
    IN  /\ At(r, "match")
        /\ RecordMatch(a, m)
        /\ IF Matches(a, m) /\ Cardinality(Members(a) \cup {m}) > MaxMembers
             THEN Incomplete(r)
             ELSE /\ run' = [run EXCEPT ![r].similar = rest,
                                        ![r].pc = CASE rest # {} -> "match"
                                                    [] rest = {} /\ run[r].scanned # NoMore -> "scan"
                                                    [] OTHER -> "finalize"]
                  /\ UNCHANGED cursor
        /\ UNCHANGED <<sourceVars, snap, semanticVars, disturbed>>

\* The members as finalize_or_discard_cluster left them, or its refusals.
Finalize(r) ==
    LET a == Anchor(r)
        members == Members(a)
        present == {s \in members : text[s] # NoText}
    IN  /\ At(r, "finalize")
        /\ \/ /\ Cardinality(members) <= 1
              /\ state' = [state EXCEPT ![a] = IF snap[a] # NoText THEN "discarded" ELSE @]
              /\ anchor' = [anchor EXCEPT ![a] = 0]
              /\ run' = [run EXCEPT ![r].pc = "checkpoint"]
              /\ UNCHANGED cursor
           \/ /\ Cardinality(members) > MaxMembers
              /\ Incomplete(r)
              /\ UNCHANGED <<state, anchor>>
           \/ /\ Cardinality(members) \in 2 .. MaxMembers
              /\ present # {}
              /\ state' = [s \in Sources |-> IF s \in members THEN "finalized" ELSE state[s]]
              /\ run' = [run EXCEPT ![r] =
                     [pc |-> "commit", after |-> @.after, cursor |-> @.cursor, page |-> @.page,
                      object |-> text[Max(present)], provenance |-> members]]
              /\ UNCHANGED <<anchor, cursor>>
           \/ /\ Cardinality(members) \in 2 .. MaxMembers
              /\ present = {}
              /\ Return(r)
              /\ UNCHANGED <<state, anchor, cursor>>
        /\ UNCHANGED <<sourceVars, snap, semanticVars, disturbed>>

\* Variant: existing promotions are not looked for.
AdmittedNewer(p, evidence) == Max(evidence) > buried[p]

\* Variant: superseded promotions are not looked at.
AdmittedIfGone(p, evidence) == live[p] = 0

\* commit_promotion admits a promotion that is not there yet, and one that was
\* superseded only for evidence newer than that.
Admitted(p, evidence) == live[p] = 0 /\ Max(evidence) > buried[p]

\* commit_promotion
CommitPromotion(r) ==
    LET a == Anchor(r)
        members == {s \in Members(a) : state[s] = "finalized"}
        valid == {s \in members : Intact(s)}
        p == <<EntityOf[a], run[r].object>>
    IN  /\ At(r, "commit")
        /\ \/ /\ Cardinality(members) >= 2
              /\ valid = members /\ run[r].provenance = valid
              /\ live' = [live EXCEPT ![p] = IF Admitted(p, valid) THEN @ + 1 ELSE @]
              /\ state' = [s \in Sources |-> IF s \in Members(a) THEN "promoted" ELSE state[s]]
              /\ run' = [run EXCEPT ![r] =
                     [pc |-> "checkpoint", after |-> @.after, cursor |-> @.cursor, page |-> @.page]]
              /\ UNCHANGED <<snap, anchor, cursor, disturbed>>
           \/ /\ Cardinality(members) >= 2 /\ valid # members    \* Invalidated
              /\ Rebuild
              /\ Return(r)
              /\ UNCHANGED live
           \/ /\ Cardinality(members) < 2 \/ (valid = members /\ run[r].provenance # valid)
              /\ Return(r)
              /\ UNCHANGED <<workspaceVars, live, disturbed>>
        /\ UNCHANGED <<sourceVars, buried>>

\* checkpoint behind the anchor, and on to the next one.
Checkpoint(r) ==
    LET a == Anchor(r)
        rest == run[r].page \ {a}
    IN  /\ At(r, "checkpoint")
        /\ cursor' = a
        /\ run' = [run EXCEPT ![r] =
               [pc |-> CASE rest # {} -> "source"
                         [] rest = {} /\ run[r].after # NoMore -> "paging"
                         [] OTHER -> "complete",
                after |-> @.after, cursor |-> a, page |-> rest]]
        /\ UNCHANGED <<sourceVars, snap, state, anchor, semanticVars, disturbed>>

\* complete (after the decay pass)
Complete(r) ==
    /\ At(r, "complete")
    /\ Return(r)
    /\ UNCHANGED <<sourceVars, workspaceVars, semanticVars, disturbed>>

\* The run ends early: with a checkpoint, or by an error or a crash.
Stop(r) ==
    /\ run[r].pc \notin {"off", "begun"}
    /\ stops < MaxStops
    /\ stops' = stops + 1
    /\ Incomplete(r) \/ (Return(r) /\ UNCHANGED cursor)
    /\ UNCHANGED <<sourceVars, snap, state, anchor, semanticVars, disturbed, writes>>

Pass(r) ==
    /\ UNCHANGED boundVars
    /\ \/ Begin(r) \/ ReadCursor(r) \/ NextPage(r) \/ TakeSource(r) \/ LoadAnchor(r)
       \/ ScanCandidates(r) \/ MatchCandidate(r) \/ Finalize(r) \/ CommitPromotion(r)
       \/ Checkpoint(r) \/ Complete(r)

-----------------------------------------------------------------------------
(* Writers                                                                 *)

SourceWrite ==
    /\ disturbed' = (disturbed \/ \E s \in Sources : Current(s)' # Current(s))
    /\ UNCHANGED <<workspaceVars, semanticVars, run>>

\* save_memory_with_embedding of an episodic row
WriteSource(s, t) ==
    /\ text' = [text EXCEPT ![s] = t]
    /\ retired' = retired \ {s}
    /\ SourceWrite

\* supersede_memory_in_namespace
RetireSource(s) ==
    /\ text[s] # NoText /\ s \notin retired
    /\ retired' = retired \cup {s}
    /\ UNCHANGED text
    /\ SourceWrite

DeleteSource(s) ==
    /\ text[s] # NoText
    /\ text' = [text EXCEPT ![s] = NoText]
    /\ retired' = retired \ {s}
    /\ SourceWrite

\* A promotion is superseded, after everything stored so far happened.
SupersedePromotion(p) ==
    /\ live[p] > 0
    /\ live' = [live EXCEPT ![p] = @ - 1]
    /\ \E at \in 0 .. N :
           /\ at >= buried[p]
           /\ \A s \in Sources : EntityOf[s] = p[1] /\ text[s] # NoText => at >= s
           /\ buried' = [buried EXCEPT ![p] = at]
    /\ UNCHANGED <<sourceVars, workspaceVars, run, disturbed>>

\* Its rows are deleted, the superseded ones included.
ForgetPromotion(p) ==
    /\ live[p] > 0 \/ buried[p] # Never
    /\ live' = [live EXCEPT ![p] = 0]
    /\ buried' = [buried EXCEPT ![p] = Never]
    /\ UNCHANGED <<sourceVars, workspaceVars, run, disturbed>>

Writer ==
    /\ writes < MaxWrites
    /\ writes' = writes + 1
    /\ UNCHANGED stops
    /\ \/ \E s \in Sources :
              RetireSource(s) \/ DeleteSource(s) \/ \E t \in Texts : WriteSource(s, t)
       \/ \E p \in Entities \X Texts : SupersedePromotion(p) \/ ForgetPromotion(p)

Next == Writer \/ \E r \in Runners : Pass(r) \/ Stop(r)

Spec == Init /\ [][Next]_vars

(***************************************************************************)
(* The sweep starts a run again and again, and a run that is not stopped   *)
(* goes on.  Writers and interruptions are bounded, nothing else is.       *)
(***************************************************************************)
FairSpec == Spec /\ \A r \in Runners : WF_vars(Pass(r))

-----------------------------------------------------------------------------
(* The reference clustering: from the first source on, a source that is    *)
(* not taken yet takes every later one of its entity that is similar.      *)

Cluster(a, taken) ==
    {a} \cup {s \in Sources : /\ s > a /\ s \notin taken /\ snap[s] # NoText
                              /\ EntityOf[s] = EntityOf[a]
                              /\ <<snap[a], snap[s]>> \in Similar}

Taken ==
    LET f[k \in 0 .. N] ==
            IF k = 0 THEN {}
            ELSE IF k \in f[k - 1] \/ snap[k] = NoText THEN f[k - 1]
            ELSE f[k - 1] \cup Cluster(k, f[k - 1])
    IN  f

IsAnchor(a) == snap[a] # NoText /\ a \notin Taken[a - 1]

-----------------------------------------------------------------------------
\* A fact is promoted once: repeated, resumed, invalidated and concurrent runs
\* never leave two live promotions of the same text about the same entity.
NoDuplicatePromotion == \A p \in Entities \X Texts : live[p] <= 1

\* Evidence behind the promotion that a step adds: the members of its cluster.
Promotes(r) == At(r, "commit") /\ live' # live /\ run'[r].pc = "checkpoint"

\* A promotion rests on what the namespace holds when it is committed: at
\* least two live sources of one entity, each still similar to the anchor,
\* although they were read, compared and finalized in earlier transactions.
EvidenceIsCurrent ==
    [][\A r \in Runners : Promotes(r) =>
          LET a == Anchor(r)
          IN  /\ Cardinality(run[r].provenance) >= 2
              /\ Current(a) # NoText
              /\ \A s \in run[r].provenance :
                     /\ EntityOf[s] = EntityOf[a]
                     /\ <<Current(a), Current(s)>> \in Similar]_vars

\* A superseded promotion does not come back on the evidence it was
\* superseded with.
SupersededStaysBuried ==
    [][\A p \in Entities \X Texts :
          live'[p] > live[p] =>
              \E s \in Sources : /\ EntityOf[s] = p[1] /\ s > buried[p]
                                 /\ Current(s) # NoText /\ state'[s] = "promoted"]_vars

\* What the stored cursor has passed is decided, so a run that resumes behind
\* it misses nothing.
CursorCoversDecided ==
    \A s \in Sources : s <= cursor /\ snap[s] # NoText => state[s] \in {"discarded", "promoted"}

\* The clustering does not depend on pages, interruptions and resumptions: as
\* long as no source changed, what the cursor has passed is clustered as the
\* reference does.
ClusteringIsGreedy ==
    ~disturbed =>
        \A a \in 1 .. cursor : IsAnchor(a) =>
            LET c == Cluster(a, Taken[a - 1])
            IN  IF c = {a} THEN state[a] = "discarded"
                ELSE \A s \in c : state[s] = "promoted" /\ anchor[s] = a

\* Once writers and interruptions cease, every live source of the namespace is
\* in the snapshot and decided: no interruption leaves the workspace in a
\* state that later runs cannot finish.
EventuallyConsolidated ==
    <>[](\A s \in Sources :
            /\ snap[s] = Current(s)
            /\ snap[s] # NoText => state[s] \in {"discarded", "promoted"})
=============================================================================
