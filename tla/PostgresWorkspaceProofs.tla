----------------------- MODULE PostgresWorkspaceProofs -----------------------
(***************************************************************************)
(* What any number of processes on one database may be sure of, on SQLite  *)
(* and with PostgreSQL's transactions, row by row: a fact is promoted      *)
(* once, a superseded one comes back on newer evidence only, and the       *)
(* transactions that change a cluster never wait for one another in a      *)
(* circle.  For any sources, texts, similarity, pages and bounds.          *)
(***************************************************************************)
EXTENDS PostgresWorkspace, ConsolidationWorkspaceProofs

\* A request of a writer has a connection of its own.
OwnConnections == Runners \cap Writers = {}

-----------------------------------------------------------------------------
(* What the rows and the runs are, whoever works on them                   *)

\* A cluster is one of sources of one entity.
Kindred == \A s \in Sources : anchor[s] # 0 => EntityOf[anchor[s]] = EntityOf[s]

RowsInv ==
    /\ text \in [Sources -> Texts \union {NoText}]
    /\ snap \in [Sources -> Texts \union {NoText}]
    /\ state \in [Sources -> States]
    /\ anchor \in [Sources -> 0 .. N]
    /\ cursor \in 0 .. N
    /\ Kindred

\* A fact is live once or not at all.
FactsInv ==
    /\ live \in [Entities \X Texts -> {0, 1}]
    /\ buried \in [Entities \X Texts -> -1 .. N]

Exceeding ==
    [pc : {"exceeded"},
     after : -1 .. NoMore, cursor : 0 .. N, page : SUBSET Sources,
     vector : Texts, scanned : 0 .. NoMore, similar : SUBSET Sources]

RunRecords == Records \union Exceeding

\* A run in its loop has an anchor, and compares it with its entity's sources.
Follows(q) ==
    /\ q.pc \in InLoop \union {"exceeded"} => q.page # {}
    /\ q.pc \in {"scan", "match"} =>
           \A m \in q.similar : EntityOf[m] = EntityOf[Min(q.page)]
    /\ q.pc = "match" => q.similar # {}
    /\ q.pc = "commit" => q.provenance # {}

RunsInv == run \in [Runners -> RunRecords] /\ \A r \in Runners : Follows(run[r])

-----------------------------------------------------------------------------
(* The pass, as one of several processes                                   *)

LEMMA RunShapes ==
    ASSUME NEW q \in RunRecords
    PROVE  /\ q.pc \in {"paging", "source", "load", "complete"} => q \in Paging
           /\ q.pc \in {"scan", "match", "finalize"} => q \in Scanning
           /\ q.pc = "commit" => q \in Committing
           /\ q.pc \in InLoop \union {"paging", "complete", "exceeded"} =>
                  /\ q.after \in -1 .. NoMore /\ q.cursor \in 0 .. N /\ q.page \in SUBSET Sources
           /\ q.pc \in InLoop \union {"off", "begun", "paging", "complete", "exceeded"}
  BY DEF RunRecords, Records, Resting, Paging, Scanning, Committing, Exceeding, InLoop

LEMMA RunsStep ==
    ASSUME RunsInv, NEW r \in Runners, NEW q \in RunRecords, Follows(q),
           run' = [run EXCEPT ![r] = q]
    PROVE  RunsInv' /\ run'[r] = q /\ \A p \in Runners : p # r => run'[p] = run[p]
  <1>1. run' \in [Runners -> RunRecords] /\ run'[r] = q /\ \A p \in Runners : p # r => run'[p] = run[p]
    BY DEF RunsInv
  <1>2. ASSUME NEW p \in Runners PROVE Follows(run[p])'
    BY <1>1 DEF RunsInv, Follows
  <1> QED
    BY <1>1, <1>2 DEF RunsInv

LEMMA ReturnRuns ==
    ASSUME RunsInv, NEW r \in Runners, Return(r)
    PROVE  RunsInv' /\ run'[r] = Off /\ \A p \in Runners : p # r => run'[p] = run[p]
  <1> PICK q : q = Off
    OBVIOUS
  <1>1. q \in RunRecords /\ q.pc = "off"
    BY DEF Off, RunRecords, Records, Resting
  <1>2. Follows(q)
    BY <1>1 DEF Follows, InLoop
  <1>3. run' = [run EXCEPT ![r] = q]
    BY DEF Return
  <1> QED
    BY <1>1, <1>2, <1>3, RunsStep

LEMMA RowsStay ==
    ASSUME RowsInv, text' \in [Sources -> Texts \union {NoText}], snap' = snap, state' = state,
           anchor' = anchor, cursor' \in 0 .. N
    PROVE  RowsInv'
  BY DEF RowsInv, Kindred

\* The anchor of a run in its loop.
LEMMA AnchorIs ==
    ASSUME RunsInv, NEW r \in Runners, run[r].pc \in InLoop \union {"exceeded"}
    PROVE  /\ Anchor(r) = Min(run[r].page) /\ Anchor(r) \in Sources /\ Anchor(r) \in run[r].page
           /\ run[r] \in RunRecords /\ Follows(run[r])
           /\ run[r].page \in SUBSET Sources /\ run[r].after \in -1 .. NoMore /\ run[r].cursor \in 0 .. N
  <1>1. run[r] \in RunRecords /\ Follows(run[r])
    BY DEF RunsInv
  <1>2. run[r].page \in SUBSET Sources /\ run[r].page # {}
        /\ run[r].after \in -1 .. NoMore /\ run[r].cursor \in 0 .. N
    BY <1>1, RunShapes DEF Follows
  <1> QED
    BY <1>1, <1>2, MinOf DEF Anchor

\* What only the run itself changes: its cursor, and nothing else of the rows.
LEMMA ReadRuns ==
    ASSUME RowsInv, RunsInv, NEW r \in Runners, ReadCursor(r)
    PROVE  RunsInv'
  <1> PICK q : q = [pc |-> "paging", after |-> Stored, cursor |-> cursor, page |-> {}]
    OBVIOUS
  <1>1. q \in RunRecords /\ q.pc = "paging"
    BY Numbers DEF RunRecords, Records, Paging, Stored, NoMore, RowsInv
  <1>2. Follows(q)
    BY <1>1 DEF Follows, InLoop
  <1> QED
    BY <1>1, <1>2, RunsStep DEF ReadCursor

LEMMA PageRuns ==
    ASSUME RunsInv, NEW r \in Runners, NextPage(r)
    PROVE  RunsInv'
  <1> DEFINE from == IF run[r].after = Stored THEN cursor ELSE run[r].after
             S == {s \in Sources : /\ snap[s] # NoText /\ s > from
                                   /\ state[s] \notin {"discarded", "promoted"}
                                   /\ anchor[s] \in {0, s}}
             page == First(SourcePage, S)
             next == NextCursor(page, SourcePage)
             pc == IF page = {} THEN "complete" ELSE "source"
  <1>1. run[r] \in Paging
    BY RunShapes DEF NextPage, At, RunsInv
  <1>2. page \in SUBSET Sources /\ next \in -1 .. NoMore
    <2>1. S \in SUBSET Sources /\ SourcePage \in Nat \ {0}
      BY WorkspaceAssumption
    <2> HIDE DEF S
    <2>2. page \subseteq S /\ next \in 1 .. NoMore
      BY <2>1, PageFacts
    <2> QED
      BY <2>1, <2>2, Numbers DEF NoMore
  <1>3. run' = [run EXCEPT ![r] = [run[r] EXCEPT !.page = page, !.after = next, !.pc = pc]]
    BY DEF NextPage
  <1>4. pc \in {"complete", "source"} /\ (pc = "source" => page # {})
    OBVIOUS
  <1> HIDE DEF page, next, pc
  <1> PICK q : q = [run[r] EXCEPT !.page = page, !.after = next, !.pc = pc]
    OBVIOUS
  <1>5. q \in Paging /\ q.page = page /\ q.pc = pc
    BY <1>1, <1>2, <1>4 DEF Paging
  <1>6. q \in RunRecords /\ Follows(q)
    BY <1>4, <1>5 DEF RunRecords, Records, Follows, InLoop
  <1> QED
    BY <1>3, <1>6, RunsStep

LEMMA LoadRuns ==
    ASSUME RowsInv, RunsInv, NEW r \in Runners, LoadAnchor(r)
    PROVE  RunsInv'
  <1> PICK a : a = Anchor(r)
    OBVIOUS
  <1>1. run[r] \in Paging /\ run[r].pc = "load"
    BY RunShapes DEF LoadAnchor, At, RunsInv
  <1>2. a \in Sources /\ run[r].page # {}
    BY <1>1, AnchorIs DEF InLoop
  <1>3. CASE Return(r)
    BY <1>3, ReturnRuns
  <1>4. CASE ~Return(r)
    <2> PICK q : q = [pc |-> "scan", after |-> run[r].after, cursor |-> run[r].cursor, page |-> run[r].page,
                      vector |-> snap[a], scanned |-> a, similar |-> {}]
      OBVIOUS
    <2>1. run' = [run EXCEPT ![r] = q] /\ snap[a] # NoText
      BY <1>4 DEF LoadAnchor, Fail, Intact
    <2>2. q \in Scanning /\ q.pc = "scan" /\ q.page = run[r].page /\ q.similar = {}
      <3>1. snap[a] \in Texts /\ a \in 0 .. NoMore
        BY <1>2, <2>1, Numbers DEF RowsInv, NoMore
      <3> QED
        BY <1>1, <3>1 DEF Paging, Scanning
    <2>3. q \in RunRecords /\ Follows(q)
      BY <1>2, <2>2 DEF RunRecords, Records, Follows, InLoop
    <2> QED
      BY <2>1, <2>3, RunsStep
  <1> QED
    BY <1>3, <1>4

LEMMA ScanRuns ==
    ASSUME RunsInv, NEW r \in Runners, ScanCandidates(r)
    PROVE  RunsInv'
  <1> DEFINE a == Anchor(r)
             S == {s \in Sources : /\ EntityOf[s] = EntityOf[a] /\ s > run[r].scanned
                                   /\ state[s] = "unassigned" /\ Intact(s)}
             page == First(CandidatePage, S)
             similar == {s \in page : <<run[r].vector, snap[s]>> \in Similar}
             next == NextCursor(page, CandidatePage)
             pc == CASE similar # {} -> "match"
                     [] similar = {} /\ next # NoMore -> "scan"
                     [] OTHER -> "finalize"
  <1>1. run[r] \in Scanning /\ run[r].pc = "scan"
    BY RunShapes DEF ScanCandidates, At, RunsInv
  <1>2. a = Min(run[r].page) /\ run[r].page # {}
    BY <1>1, AnchorIs DEF InLoop
  <1> HIDE DEF a
  <1>3. CASE Return(r)
    BY <1>3, ReturnRuns
  <1>4. CASE ~Return(r)
    <2>1. page \subseteq S /\ next \in 1 .. NoMore
      <3>1. S \in SUBSET Sources /\ CandidatePage \in Nat \ {0}
        BY WorkspaceAssumption
      <3> HIDE DEF S
      <3> QED
        BY <3>1, PageFacts
    <2>2. similar \in SUBSET Sources /\ \A m \in similar : EntityOf[m] = EntityOf[a]
      BY <2>1
    <2>3. run' = [run EXCEPT ![r] = [run[r] EXCEPT !.similar = similar, !.scanned = next, !.pc = pc]]
      BY <1>4 DEF ScanCandidates, Fail, a
    <2>4. pc \in {"match", "scan", "finalize"} /\ (pc = "match" <=> similar # {})
      OBVIOUS
    <2> HIDE DEF S, page, similar, next, pc
    <2> PICK q : q = [run[r] EXCEPT !.similar = similar, !.scanned = next, !.pc = pc]
      OBVIOUS
    <2>5. q \in Scanning /\ q.pc = pc /\ q.page = run[r].page /\ q.similar = similar
      <3>1. next \in 0 .. NoMore
        BY <2>1, Numbers DEF NoMore
      <3> QED
        BY <1>1, <2>2, <2>4, <3>1 DEF Scanning
    <2>6. q \in RunRecords /\ Follows(q)
      BY <1>2, <2>2, <2>4, <2>5 DEF RunRecords, Records, Follows, InLoop
    <2> QED
      BY <2>3, <2>6, RunsStep
  <1> QED
    BY <1>3, <1>4

\* A run that leaves its loop, or stays in it with its page.
LEMMA ScanningRuns ==
    ASSUME RunsInv, NEW r \in Runners, run[r] \in Scanning, run[r].pc \in {"match", "finalize"},
           NEW similar \in SUBSET run[r].similar, NEW pc \in {"match", "scan", "finalize", "checkpoint"},
           pc \in {"match", "scan"} => run[r].pc = "match", pc = "match" => similar # {},
           run' = [run EXCEPT ![r] = [run[r] EXCEPT !.similar = similar, !.pc = pc]]
    PROVE  RunsInv'
  <1> PICK q : q = [run[r] EXCEPT !.similar = similar, !.pc = pc]
    OBVIOUS
  <1>1. run[r].page # {} /\ Follows(run[r])
    BY AnchorIs DEF InLoop
  <1>2. q \in Scanning /\ q.pc = pc /\ q.page = run[r].page /\ q.similar = similar
    BY DEF Scanning
  <1>3. q \in RunRecords /\ Follows(q)
    BY <1>1, <1>2 DEF RunRecords, Records, Follows, InLoop
  <1> QED
    BY <1>3, RunsStep

LEMMA FinalizeRuns ==
    ASSUME RowsInv, RunsInv, NEW r \in Runners, Finalize(r)
    PROVE  RunsInv' /\ RowsInv'
  <1> PICK a : a = Anchor(r)
    OBVIOUS
  <1>1. run[r] \in Scanning /\ run[r].pc = "finalize"
    BY RunShapes DEF Finalize, At, RunsInv
  <1>2. a \in Sources /\ run[r].page # {} /\ run[r].cursor \in 0 .. N
    BY <1>1, AnchorIs DEF InLoop
  <1>3. text' = text /\ snap' = snap /\ Members(a) \in SUBSET Sources
    BY DEF Finalize, sourceVars, Members
  <1>4. CASE Return(r) /\ state' = state /\ anchor' = anchor /\ (cursor' = cursor \/ cursor' = run[r].cursor)
    <2>1. RowsInv'
      BY <1>2, <1>3, <1>4, RowsStay DEF RowsInv
    <2> QED
      BY <1>4, <2>1, ReturnRuns
  <1>5. CASE /\ state' = [state EXCEPT ![a] = IF snap[a] # NoText THEN "discarded" ELSE @]
             /\ anchor' = [anchor EXCEPT ![a] = 0]
             /\ run' = [run EXCEPT ![r].pc = "checkpoint"]
             /\ UNCHANGED cursor
    <2> PICK q : q = [run[r] EXCEPT !.pc = "checkpoint"]
      OBVIOUS
    <2>1. q \in Scanning /\ q.pc = "checkpoint" /\ q.page = run[r].page
      BY <1>1 DEF Scanning
    <2>2. q \in RunRecords /\ Follows(q)
      BY <1>2, <2>1 DEF RunRecords, Records, Follows
    <2>3. RunsInv'
      BY <1>5, <2>2, RunsStep
    <2>4. state' \in [Sources -> States] /\ anchor' \in [Sources -> 0 .. N]
      BY <1>2, <1>5, Numbers DEF RowsInv, States
    <2>5. Kindred'
      BY <1>2, <1>5, <2>4 DEF RowsInv, Kindred
    <2> QED
      BY <1>3, <1>5, <2>3, <2>4, <2>5 DEF RowsInv
  <1>6. CASE /\ {s \in Members(a) : text[s] # NoText} # {}
             /\ state' = [s \in Sources |-> IF s \in Members(a) THEN "finalized" ELSE state[s]]
             /\ run' = [run EXCEPT ![r] =
                     [pc |-> "commit", after |-> @.after, cursor |-> @.cursor, page |-> @.page,
                      object |-> text[Max({s \in Members(a) : text[s] # NoText})],
                      provenance |-> Members(a)]]
             /\ UNCHANGED <<anchor, cursor>>
    <2> PICK object : object = text[Max({s \in Members(a) : text[s] # NoText})]
      OBVIOUS
    <2>1. object \in Texts \union {NoText}
      <3> DEFINE present == {s \in Members(a) : text[s] # NoText}
      <3>1. present \in SUBSET Sources /\ present # {}
        BY <1>3, <1>6
      <3> HIDE DEF present
      <3>2. Max(present) \in Sources
        BY <3>1, MaxOf
      <3> QED
        BY <3>2 DEF RowsInv, present
    <2> PICK q : q = [pc |-> "commit", after |-> run[r].after, cursor |-> run[r].cursor,
                      page |-> run[r].page, object |-> object, provenance |-> Members(a)]
      OBVIOUS
    <2>2. q \in Committing /\ q.pc = "commit" /\ q.page = run[r].page /\ q.provenance # {}
      BY <1>1, <1>3, <1>6, <2>1 DEF Scanning, Committing
    <2>3. q \in RunRecords /\ Follows(q)
      BY <1>2, <2>2 DEF RunRecords, Records, Follows
    <2>4. RunsInv'
      BY <1>6, <2>3, RunsStep
    <2>5. state' \in [Sources -> States]
      BY <1>6 DEF RowsInv, States
    <2> QED
      BY <1>3, <1>6, <2>4, <2>5 DEF RowsInv, Kindred
  <1> QED
    BY <1>4, <1>5, <1>6 DEF Finalize, Incomplete

\* A promotion that is committed, on either backend.
LEMMA PromotedRuns ==
    ASSUME RunsInv, NEW r \in Runners, run[r].pc = "commit",
           run' = [run EXCEPT ![r] =
                     [pc |-> "checkpoint", after |-> @.after, cursor |-> @.cursor, page |-> @.page]]
    PROVE  RunsInv'
  <1> PICK q : q = [pc |-> "checkpoint", after |-> run[r].after, cursor |-> run[r].cursor, page |-> run[r].page]
    OBVIOUS
  <1>1. run[r] \in Committing /\ run[r].page # {}
    <2>1. run[r] \in RunRecords /\ Follows(run[r])
      BY DEF RunsInv
    <2> QED
      BY <2>1, RunShapes DEF Follows, InLoop
  <1>2. q \in Paging /\ q.pc = "checkpoint" /\ q.page = run[r].page
    BY <1>1 DEF Paging, Committing
  <1>3. q \in RunRecords /\ Follows(q)
    BY <1>1, <1>2 DEF RunRecords, Records, Follows
  <1> QED
    BY <1>3, RunsStep

LEMMA CheckpointRuns ==
    ASSUME RowsInv, RunsInv, NEW r \in Runners, Checkpoint(r)
    PROVE  RunsInv' /\ RowsInv'
  <1> PICK a : a = Anchor(r)
    OBVIOUS
  <1>1. run[r].pc = "checkpoint"
    BY DEF Checkpoint, At
  <1>2. a \in Sources /\ run[r].page \in SUBSET Sources /\ run[r].after \in -1 .. NoMore
    BY <1>1, AnchorIs DEF InLoop
  <1> DEFINE rest == run[r].page \ {a}
             pc == CASE rest # {} -> "source"
                     [] rest = {} /\ run[r].after # NoMore -> "paging"
                     [] OTHER -> "complete"
  <1> PICK q : q = [pc |-> pc, after |-> run[r].after, cursor |-> a, page |-> rest]
    OBVIOUS
  <1>3. run' = [run EXCEPT ![r] = q] /\ cursor' = a
        /\ text' = text /\ snap' = snap /\ state' = state /\ anchor' = anchor
    BY DEF Checkpoint, sourceVars
  <1>4. pc \in {"source", "paging", "complete"} /\ (pc = "source" => rest # {})
    OBVIOUS
  <1> HIDE DEF pc
  <1>5. q \in Paging /\ q.pc = pc /\ q.page = rest
    BY <1>2, <1>4, Numbers DEF Paging
  <1>6. q \in RunRecords /\ Follows(q)
    BY <1>4, <1>5 DEF RunRecords, Records, Follows, InLoop
  <1>7. RowsInv'
    BY <1>2, <1>3, Numbers, RowsStay DEF RowsInv
  <1> QED
    BY <1>3, <1>6, <1>7, RunsStep

-----------------------------------------------------------------------------
(* Facts                                                                   *)

\* The step of SupersededStaysBuried.
NewEvidence ==
    \A p \in Entities \X Texts :
        live'[p] > live[p] =>
            \E s \in Sources : /\ EntityOf[s] = p[1] /\ s > buried[p]
                               /\ Current(s) # NoText /\ state'[s] = "promoted"

\* A promotion of what is not there, on evidence newer than its burial.
LEMMA PromotionStep ==
    ASSUME RowsInv, FactsInv, NEW a \in Sources, NEW p, p[1] = EntityOf[a],
           p \in Entities \X Texts => /\ live[p] = 0
                                      /\ \E s \in Members(a) : s > buried[p] /\ Intact(s),
           live' = [live EXCEPT ![p] = @ + 1], buried' = buried,
           state' = [s \in Sources |-> IF s \in Members(a) THEN "promoted" ELSE state[s]]
    PROVE  FactsInv' /\ NewEvidence
  <1>1. \A o \in Entities \X Texts : o # p => live'[o] = live[o]
    BY DEF FactsInv
  <1>2. p \in Entities \X Texts => live'[p] = 1
    BY DEF FactsInv
  <1>3. FactsInv'
    <2>1. live' = [o \in Entities \X Texts |-> live'[o]]
      BY DEF FactsInv
    <2>2. \A o \in Entities \X Texts : live'[o] \in {0, 1}
      BY <1>1, <1>2 DEF FactsInv
    <2> QED
      BY <2>1, <2>2 DEF FactsInv
  <1>4. ASSUME NEW o \in Entities \X Texts, live'[o] > live[o]
        PROVE  \E s \in Sources : /\ EntityOf[s] = o[1] /\ s > buried[o]
                                  /\ Current(s) # NoText /\ state'[s] = "promoted"
    <2>1. o = p
      BY <1>1, <1>4 DEF FactsInv
    <2>2. PICK s \in Members(a) : s > buried[p] /\ Intact(s)
      BY <1>4, <2>1
    <2>3. s \in Sources /\ anchor[s] = a /\ a # 0
      BY Numbers DEF Members
    <2>4. EntityOf[s] = p[1]
      BY <2>3 DEF RowsInv, Kindred
    <2> QED
      BY <2>1, <2>2, <2>3, <2>4 DEF Intact
  <1> QED
    BY <1>3, <1>4 DEF NewEvidence

\* A step of a writer on a promotion.
LEMMA FactStep ==
    ASSUME FactsInv, NEW p \in Entities \X Texts, SupersedePromotion(p) \/ ForgetPromotion(p)
    PROVE  FactsInv' /\ NewEvidence
  <1>1. /\ live' \in [Entities \X Texts -> {0, 1}]
        /\ \A o \in Entities \X Texts : ~(live'[o] > live[o])
    <2>1. CASE SupersedePromotion(p)
      <3>1. live[p] = 1
        BY <2>1 DEF SupersedePromotion, FactsInv
      <3>2. live' = [live EXCEPT ![p] = live[p] - 1]
        BY <2>1 DEF SupersedePromotion
      <3>3. live' = [live EXCEPT ![p] = 0]
        BY <3>1, <3>2
      <3> QED
        BY <3>1, <3>3 DEF FactsInv
    <2>2. CASE ForgetPromotion(p)
      BY <2>2 DEF ForgetPromotion, FactsInv
    <2> QED
      BY <2>1, <2>2
  <1>2. buried' \in [Entities \X Texts -> -1 .. N]
    <2>1. CASE SupersedePromotion(p)
      <3>1. PICK at \in 0 .. N : buried' = [buried EXCEPT ![p] = at]
        BY <2>1 DEF SupersedePromotion
      <3>2. at \in -1 .. N
        BY Numbers
      <3> QED
        BY <3>1, <3>2 DEF FactsInv
    <2>2. CASE ForgetPromotion(p)
      <3>1. -1 \in -1 .. N
        BY Numbers
      <3> QED
        BY <2>2, <3>1 DEF ForgetPromotion, FactsInv, Never
    <2> QED
      BY <2>1, <2>2
  <1> QED
    BY <1>1, <1>2 DEF FactsInv, NewEvidence

LEMMA FactsStay ==
    ASSUME FactsInv, live' = live, buried' = buried
    PROVE  FactsInv' /\ NewEvidence
  BY DEF FactsInv, NewEvidence

-----------------------------------------------------------------------------
(* Any number of processes on SQLite                                       *)

LEMMA RebuildRows ==
    ASSUME RowsInv, Rebuild, text' = text
    PROVE  RowsInv'
  <1>1. snap' \in [Sources -> Texts \union {NoText}]
    BY DEF Rebuild, Current, RowsInv
  <1>2. state' \in [Sources -> States] /\ anchor' \in [Sources -> 0 .. N] /\ cursor' \in 0 .. N
        /\ \A s \in Sources : anchor'[s] = 0
    BY Numbers DEF Rebuild, States
  <1> QED
    BY <1>1, <1>2 DEF RowsInv, Kindred

\* A source joins the cluster of another one of its entity.
LEMMA AssignRows ==
    ASSUME RowsInv, NEW a \in Sources, NEW m \in Sources, EntityOf[m] = EntityOf[a],
           state' = [state EXCEPT ![m] = "tentative"], anchor' = [anchor EXCEPT ![m] = a],
           text' = text, snap' = snap, cursor' \in 0 .. N
    PROVE  RowsInv'
  <1>1. state' \in [Sources -> States] /\ anchor' \in [Sources -> 0 .. N]
    BY Numbers DEF RowsInv, States
  <1>2. Kindred'
    BY <1>1 DEF RowsInv, Kindred
  <1> QED
    BY <1>1, <1>2 DEF RowsInv

LEMMA RecordRows ==
    ASSUME RowsInv, NEW a \in Sources, NEW m \in Sources, EntityOf[m] = EntityOf[a],
           RecordMatch(a, m), text' = text, snap' = snap, cursor' \in 0 .. N
    PROVE  RowsInv'
  <1>1. CASE Matches(a, m)
    BY <1>1, AssignRows DEF RecordMatch
  <1>2. CASE ~Matches(a, m)
    <2>1. state' = state /\ anchor' = anchor
      BY <1>2 DEF RecordMatch, RowsInv
    <2> QED
      BY <2>1, RowsStay DEF RowsInv
  <1> QED
    BY <1>1, <1>2

LEMMA BeginRuns ==
    ASSUME RunsInv, NEW r \in Runners, run' = [run EXCEPT ![r] = [pc |-> "begun"]]
    PROVE  RunsInv'
  <1> PICK q : q = [pc |-> "begun"]
    OBVIOUS
  <1>1. q \in RunRecords /\ q.pc = "begun"
    BY DEF RunRecords, Records, Resting
  <1>2. Follows(q)
    BY <1>1 DEF Follows, InLoop
  <1> QED
    BY <1>1, <1>2, RunsStep

LEMMA BeginRows ==
    ASSUME RowsInv, NEW r \in Runners, Begin(r)
    PROVE  RowsInv'
  <1>1. text' = text
    BY DEF Begin, sourceVars
  <1>2. CASE Rebuild
    BY <1>1, <1>2, RebuildRows
  <1>3. CASE ~Rebuild
    <2>1. snap' = snap /\ state' = state /\ anchor' = anchor /\ cursor' \in 0 .. N
      BY <1>3, Numbers DEF Begin, workspaceVars, RowsInv
    <2> QED
      BY <1>1, <2>1, RowsStay DEF RowsInv
  <1> QED
    BY <1>2, <1>3

LEMMA TakeRuns ==
    ASSUME RowsInv, RunsInv, NEW r \in Runners, TakeSource(r)
    PROVE  RowsInv' /\ RunsInv'
  <1> PICK a : a = Anchor(r)
    OBVIOUS
  <1> DEFINE pc == IF Matches(a, a) THEN "load" ELSE "checkpoint"
  <1>1. run[r] \in Paging /\ run[r].pc = "source"
    BY RunShapes DEF TakeSource, At, RunsInv
  <1>2. a \in Sources /\ run[r].page # {}
    BY <1>1, AnchorIs DEF InLoop
  <1>3. RowsInv'
    BY <1>2, RecordRows DEF TakeSource, sourceVars, RowsInv
  <1>4. run' = [run EXCEPT ![r] = [run[r] EXCEPT !.pc = pc]]
    BY DEF TakeSource
  <1>5. pc \in {"load", "checkpoint"}
    OBVIOUS
  <1> HIDE DEF pc
  <1> PICK q : q = [run[r] EXCEPT !.pc = pc]
    OBVIOUS
  <1>6. q \in Paging /\ q.pc = pc /\ q.page = run[r].page
    BY <1>1, <1>5 DEF Paging
  <1>7. q \in RunRecords /\ Follows(q)
    BY <1>2, <1>5, <1>6 DEF RunRecords, Records, Follows, InLoop
  <1> QED
    BY <1>3, <1>4, <1>7, RunsStep

LEMMA MatchRuns ==
    ASSUME RowsInv, RunsInv, NEW r \in Runners, MatchCandidate(r)
    PROVE  RowsInv' /\ RunsInv'
  <1> PICK a, m : a = Anchor(r) /\ m = Min(run[r].similar)
    OBVIOUS
  <1> DEFINE rest == run[r].similar \ {m}
             pc == CASE rest # {} -> "match"
                     [] rest = {} /\ run[r].scanned # NoMore -> "scan"
                     [] OTHER -> "finalize"
  <1>1. run[r] \in Scanning /\ run[r].pc = "match" /\ Follows(run[r])
    BY RunShapes DEF MatchCandidate, At, RunsInv
  <1>2. a \in Sources /\ a = Min(run[r].page) /\ run[r].cursor \in 0 .. N
    BY <1>1, AnchorIs DEF InLoop
  <1>3. m \in Sources /\ EntityOf[m] = EntityOf[a]
    <2>1. run[r].similar \in SUBSET Sources /\ run[r].similar # {}
      BY <1>1 DEF Follows, Scanning
    <2> QED
      BY <1>1, <1>2, <2>1, MinOf DEF Follows
  <1>4. \/ Return(r) /\ cursor' = run[r].cursor
        \/ /\ run' = [run EXCEPT ![r] = [run[r] EXCEPT !.similar = rest, !.pc = pc]]
           /\ cursor' = cursor
    BY DEF MatchCandidate, Incomplete
  <1>5. RowsInv'
    <2>1. cursor' \in 0 .. N /\ RecordMatch(a, m) /\ text' = text /\ snap' = snap
      BY <1>2, <1>4 DEF MatchCandidate, sourceVars, RowsInv
    <2> QED
      BY <1>2, <1>3, <2>1, RecordRows
  <1>6. CASE Return(r)
    BY <1>5, <1>6, ReturnRuns
  <1>7. CASE run' = [run EXCEPT ![r] = [run[r] EXCEPT !.similar = rest, !.pc = pc]]
    <2>1. pc \in {"match", "scan", "finalize"} /\ (pc = "match" => rest # {})
      OBVIOUS
    <2>2. rest \in SUBSET run[r].similar
      OBVIOUS
    <2> HIDE DEF rest, pc
    <2>3. pc \in {"match", "scan", "finalize", "checkpoint"}
      BY <2>1
    <2> QED
      BY <1>1, <1>5, <1>7, <2>1, <2>2, <2>3, ScanningRuns
  <1> QED
    BY <1>4, <1>6, <1>7

LEMMA NotEmpty ==
    ASSUME NEW S, Cardinality(S) >= 2
    PROVE  S # {}
  <1> SUFFICES ASSUME S = {} PROVE FALSE
    OBVIOUS
  <1>1. Cardinality(S) = 0
    BY FS_EmptySet
  <1> QED
    BY <1>1

LEMMA CommitRuns ==
    ASSUME RowsInv, RunsInv, FactsInv, NEW r \in Runners, CommitPromotion(r)
    PROVE  RowsInv' /\ RunsInv' /\ FactsInv' /\ NewEvidence
  <1> PICK a : a = Anchor(r)
    OBVIOUS
  <1> PICK members : members = {s \in Members(a) : state[s] = "finalized"}
    OBVIOUS
  <1> PICK valid : valid = {s \in members : Intact(s)}
    OBVIOUS
  <1> PICK p : p = <<EntityOf[a], run[r].object>>
    OBVIOUS
  <1>1. run[r].pc = "commit"
    BY DEF CommitPromotion, At
  <1>2. a \in Sources
    BY <1>1, AnchorIs DEF InLoop
  <1>3. text' = text /\ buried' = buried
    BY DEF CommitPromotion, sourceVars
  <1>4. CASE Rebuild /\ Return(r) /\ UNCHANGED live
    BY <1>3, <1>4, RebuildRows, ReturnRuns, FactsStay
  <1>5. CASE Return(r) /\ UNCHANGED <<workspaceVars, live>>
    <2>1. RowsInv'
      BY <1>3, <1>5, RowsStay DEF workspaceVars, RowsInv
    <2> QED
      BY <1>3, <1>5, <2>1, ReturnRuns, FactsStay
  <1>6. CASE /\ Cardinality(members) >= 2
             /\ valid = members
             /\ live' = [live EXCEPT ![p] = IF Admitted(p, valid) THEN @ + 1 ELSE @]
             /\ state' = [s \in Sources |-> IF s \in Members(a) THEN "promoted" ELSE state[s]]
             /\ run' = [run EXCEPT ![r] =
                    [pc |-> "checkpoint", after |-> @.after, cursor |-> @.cursor, page |-> @.page]]
             /\ UNCHANGED <<snap, anchor, cursor>>
    <2>1. RunsInv'
      BY <1>1, <1>6, PromotedRuns
    <2>2. RowsInv'
      <3>1. state' \in [Sources -> States]
        BY <1>6 DEF RowsInv, States
      <3> QED
        BY <1>3, <1>6, <3>1 DEF RowsInv, Kindred
    <2>3. CASE Admitted(p, valid)
      <3>1. valid # {} /\ valid \in SUBSET Sources
        <4>1. valid # {}
          BY <1>6, NotEmpty
        <4> QED
          BY <4>1 DEF Members
      <3>2. Max(valid) \in valid
        BY <3>1, MaxOf
      <3>3. live[p] = 0 /\ \E s \in Members(a) : s > buried[p] /\ Intact(s)
        BY <2>3, <3>2 DEF Admitted
      <3>4. live' = [live EXCEPT ![p] = @ + 1]
        BY <1>6, <2>3
      <3>5. p[1] = EntityOf[a]
        OBVIOUS
      <3>6. state' = [s \in Sources |-> IF s \in Members(a) THEN "promoted" ELSE state[s]]
        BY <1>6
      <3>7. FactsInv' /\ NewEvidence
        BY <1>2, <1>3, <3>3, <3>4, <3>5, <3>6, PromotionStep
      <3> QED
        BY <2>1, <2>2, <3>7
    <2>4. CASE ~Admitted(p, valid)
      <3>1. live' = [live EXCEPT ![p] = live[p]]
        BY <1>6, <2>4
      <3>2. live' = live
        BY <3>1 DEF FactsInv
      <3> QED
        BY <1>3, <3>2, <2>1, <2>2, <3>1, FactsStay
    <2> QED
      BY <2>3, <2>4
  <1> QED
    BY <1>4, <1>5, <1>6 DEF CommitPromotion

\* What a step of any process, or of a writer, keeps.
SharedInv == RowsInv /\ RunsInv /\ FactsInv

LEMMA SharedStarts == Init => SharedInv
  <1> SUFFICES ASSUME Init PROVE SharedInv
    OBVIOUS
  <1>1. Off \in RunRecords /\ Off.pc = "off"
    BY DEF Off, RunRecords, Records, Resting
  <1>2. RunsInv
    BY <1>1 DEF Init, RunsInv, Follows, InLoop
  <1>3. RowsInv
    BY Numbers DEF Init, RowsInv, States, Kindred
  <1>4. -1 \in -1 .. N
    BY Numbers
  <1>5. FactsInv
    BY <1>4 DEF Init, FactsInv, Never
  <1> QED
    BY <1>2, <1>3, <1>5 DEF SharedInv

LEMMA PassShares ==
    ASSUME SharedInv, NEW r \in Runners, Pass(r)
    PROVE  SharedInv' /\ NewEvidence
  <1> USE DEF SharedInv
  <1>1. CASE CommitPromotion(r)
    BY <1>1, CommitRuns
  <1>2. CASE ~CommitPromotion(r)
    <2>1. FactsInv' /\ NewEvidence
      <3>1. UNCHANGED semanticVars
        BY <1>2 DEF Pass, Begin, ReadCursor, NextPage, TakeSource, LoadAnchor, ScanCandidates,
                    MatchCandidate, Finalize, Checkpoint, Complete, Fail
      <3> QED
        BY <3>1, FactsStay DEF semanticVars
    <2>2. CASE Begin(r)
      BY <2>1, <2>2, BeginRuns, BeginRows DEF Begin
    <2>3. CASE ReadCursor(r) \/ NextPage(r) \/ LoadAnchor(r) \/ ScanCandidates(r) \/ Complete(r)
      <3>1. UNCHANGED <<sourceVars, workspaceVars>>
        BY <2>3 DEF ReadCursor, NextPage, LoadAnchor, ScanCandidates, Complete, Fail
      <3>2. RowsInv'
        BY <3>1, RowsStay DEF sourceVars, workspaceVars, RowsInv
      <3> QED
        BY <2>1, <2>3, <3>2, ReadRuns, PageRuns, LoadRuns, ScanRuns, ReturnRuns DEF Complete
    <2> QED
      BY <1>2, <2>1, <2>2, <2>3, TakeRuns, MatchRuns, FinalizeRuns, CheckpointRuns DEF Pass
  <1> QED
    BY <1>1, <1>2

LEMMA SharedStep == SharedInv /\ [Next]_vars => SharedInv' /\ NewEvidence
  <1> SUFFICES ASSUME SharedInv, [Next]_vars PROVE SharedInv' /\ NewEvidence
    OBVIOUS
  <1> USE DEF SharedInv
  <1>1. ASSUME NEW r \in Runners, Stop(r) PROVE SharedInv' /\ NewEvidence
    <2>1. /\ text' = text /\ snap' = snap /\ state' = state /\ anchor' = anchor
          /\ live' = live /\ buried' = buried
          /\ Return(r) /\ (cursor' = cursor \/ cursor' = run[r].cursor)
          /\ run[r].pc \notin {"off", "begun"}
      BY <1>1 DEF Stop, Incomplete, sourceVars, semanticVars
    <2>2. cursor' \in 0 .. N
      BY <2>1, RunShapes DEF RunsInv, RowsInv
    <2> QED
      BY <2>1, <2>2, RowsStay, ReturnRuns, FactsStay DEF RowsInv
  <1>2. CASE Writer
    <2>1. CASE \E p \in Entities \X Texts : SupersedePromotion(p) \/ ForgetPromotion(p)
      <3>1. UNCHANGED <<sourceVars, workspaceVars, run>>
        BY <2>1 DEF SupersedePromotion, ForgetPromotion
      <3>2. RowsInv' /\ RunsInv'
        BY <3>1, RowsStay DEF sourceVars, workspaceVars, RowsInv, RunsInv, Follows
      <3> QED
        BY <2>1, <3>2, FactStep
    <2>2. CASE \E s \in Sources :
                   RetireSource(s) \/ DeleteSource(s) \/ \E t \in Texts : WriteSource(s, t)
      <3>1. UNCHANGED <<workspaceVars, semanticVars, run>>
            /\ text' \in [Sources -> Texts \union {NoText}]
        BY <2>2 DEF RetireSource, DeleteSource, WriteSource, SourceWrite, RowsInv
      <3>2. RowsInv' /\ RunsInv'
        BY <3>1, RowsStay DEF workspaceVars, RowsInv, RunsInv, Follows
      <3> QED
        BY <3>1, <3>2, FactsStay DEF semanticVars
    <2> QED
      BY <1>2, <2>1, <2>2 DEF Writer
  <1>3. CASE UNCHANGED vars
    <2>1. RowsInv' /\ RunsInv'
      BY <1>3, RowsStay DEF vars, RowsInv, RunsInv, Follows
    <2> QED
      BY <1>3, <2>1, FactsStay DEF vars
  <1> QED
    BY <1>1, <1>2, <1>3, PassShares DEF Next

LEMMA OneFact == FactsInv => NoDuplicatePromotion
  BY DEF FactsInv, NoDuplicatePromotion

THEOREM SharedInvariant == Spec => []SharedInv
  <1>1. SharedInv /\ [Next]_vars => SharedInv'
    BY SharedStep
  <1> QED
    BY <1>1, SharedStarts, PTL DEF Spec

\* Any number of processes on one SQLite database promote a fact once, although
\* each has matched and decided in transactions of its own (commit_promotion).
THEOREM FactsAreUnique == Spec => []NoDuplicatePromotion
  <1>1. SharedInv => NoDuplicatePromotion
    BY OneFact DEF SharedInv
  <1> QED
    BY <1>1, SharedInvariant, PTL

\* None of them brings back a superseded fact on the evidence it was superseded
\* with.
THEOREM BuriedFactsStay == Spec => SupersededStaysBuried
  <1>1. SharedInv /\ [Next]_vars => [NewEvidence]_vars
    BY SharedStep
  <1> QED
    BY <1>1, SharedInvariant, PTL DEF Spec, SupersededStaysBuried, NewEvidence

-----------------------------------------------------------------------------
(* The locks of PostgreSQL's transactions                                  *)

Promoting == {"assignments", "validate", "decide", "admitted", "refused", "invalid"}

\* The statements that a run is at, by what it is doing.
Doing(pc) ==
    CASE pc = "off" -> {"compare", "insert", "inserted"}
      [] pc \in {"source", "match"} -> {"assign", "assigned"}
      [] pc = "load" -> {"loading"}
      [] pc = "scan" -> {"preflight", "scanning"}
      [] pc = "finalize" -> {"members", "counted", "finalizing"}
      [] pc = "commit" -> Promoting
      [] OTHER -> {}

\* Statements under the lock of the run, and under that of the namespace.
RunLocked == {"compare", "insert", "inserted", "assign", "assigned",
              "members", "counted", "finalizing"} \union Promoting
NamespaceLocked == Promoting \union {"save", "retire", "fact"}

Needed(at) == {k \in {ForUpdate(Run), ForUpdate(Namespace)} :
                  \/ k = ForUpdate(Run) /\ at \in RunLocked
                  \/ k = ForUpdate(Namespace) /\ at \in NamespaceLocked}

IsSeq(w) == w \in Seq({w[i] : i \in 1 .. Len(w)})

\* A connection has the locks its statement needs, or has asked for them.
Asks(t) ==
    t.at \in RunLocked \union NamespaceLocked =>
        /\ IsSeq(t.wants)
        /\ \A k \in Needed(t.at) : k \in t.held \/ \E i \in 1 .. Len(t.wants) : t.wants[i] = k

Late == {"assigned", "counted", "finalizing"} \union (Promoting \ {"assignments"})

\* The run's row comes first, in a promotion after the namespace.
Ordered(t) ==
    /\ t.at = "closed" => t.wants = <<>> /\ t.held = {}
    /\ t.at \in {"assign", "members"} =>
           \/ t.wants = <<ForUpdate(Run)>> /\ t.held = {}
           \/ t.wants = <<>>
    /\ t.at = "assignments" =>
           \/ t.wants = <<ForUpdate(Namespace), ForUpdate(Run)>> /\ t.held = {}
           \/ t.wants = <<ForUpdate(Run)>> /\ t.held = {ForUpdate(Namespace)}
           \/ t.wants = <<>>
    /\ t.at \in Late =>
           /\ ForUpdate(Run) \in t.held
           /\ \A i \in 1 .. Len(t.wants) : t.wants[i].row \notin {Run, Namespace}

\* No two connections have a row in conflicting modes.
Exclusive ==
    \A c, d \in Conns : c # d => \A k \in tx[c].held, l \in tx[d].held : ~Conflicts(k, l)

Shaped ==
    tx = [c \in Conns |-> [at |-> tx[c].at, wants |-> tx[c].wants,
                           held |-> tx[c].held, note |-> tx[c].note]]

TxInv == Shaped /\ Exclusive /\ \A c \in Conns : Asks(tx[c]) /\ Ordered(tx[c])

\* The connection of a run is at a statement of what the run is doing.
InStep(r) == tx[r].at \in {"closed"} \union Doing(run[r].pc)

\* What a transaction has read for a later statement.
Noted(r) == tx[r].at = "inserted" => tx[r].note \in [Sources -> Texts \union {NoText}]

\* The cluster of r supports a promotion that is not there, with evidence
\* newer than the burial of an earlier one.
Supported(r) ==
    Object(r) \in Entities \X Texts =>
        /\ live[Object(r)] = 0
        /\ \E s \in Members(Anchor(r)) : s > buried[Object(r)] /\ Intact(s)

\* A promotion that was admitted is still supported, since what it was decided
\* from cannot change under its locks.
Ready(r) ==
    tx[r].at = "admitted" =>
        /\ ForUpdate(Run) \in tx[r].held /\ ForUpdate(Namespace) \in tx[r].held
        /\ Supported(r)

LocksInv == TxInv /\ \A r \in Runners : InStep(r) /\ Noted(r) /\ Ready(r)

-----------------------------------------------------------------------------
(* Lists of locks                                                          *)

LEMMA ShortLists ==
    ASSUME NEW a, NEW b, NEW c
    PROVE  /\ IsSeq(<<>>) /\ Len(<<>>) = 0
           /\ IsSeq(<<a>>) /\ Len(<<a>>) = 1 /\ <<a>>[1] = a
           /\ IsSeq(<<a, b>>) /\ Len(<<a, b>>) = 2 /\ <<a, b>>[1] = a /\ <<a, b>>[2] = b
           /\ IsSeq(<<a, b, c>>) /\ Len(<<a, b, c>>) = 3
           /\ <<a, b, c>>[1] = a /\ <<a, b, c>>[2] = b /\ <<a, b, c>>[3] = c
  BY DEF IsSeq

LEMMA ListHas ==
    ASSUME NEW a, NEW b, NEW locks
    PROVE  /\ locks = <<a>> => IsSeq(locks) /\ \E i \in 1 .. Len(locks) : locks[i] = a
           /\ locks = <<a, b>> => /\ IsSeq(locks)
                                  /\ \E i \in 1 .. Len(locks) : locks[i] = a
                                  /\ \E i \in 1 .. Len(locks) : locks[i] = b
  <1>1. ASSUME locks = <<a>>
        PROVE  IsSeq(locks) /\ \E i \in 1 .. Len(locks) : locks[i] = a
    <2>1. IsSeq(locks) /\ Len(locks) = 1 /\ locks[1] = a
      BY <1>1 DEF IsSeq
    <2> QED
      BY <2>1
  <1>2. ASSUME locks = <<a, b>>
        PROVE  /\ IsSeq(locks)
               /\ \E i \in 1 .. Len(locks) : locks[i] = a
               /\ \E i \in 1 .. Len(locks) : locks[i] = b
    <2>1. IsSeq(locks) /\ Len(locks) = 2 /\ locks[1] = a /\ locks[2] = b
      BY <1>2 DEF IsSeq
    <2> QED
      BY <2>1
  <1> QED
    BY <1>1, <1>2

LEMMA AnySeq ==
    ASSUME NEW S, NEW v \in Seq(S)
    PROVE  IsSeq(v)
  <1>1. v \in Seq({v[i] : i \in 1 .. Len(v)})
    OBVIOUS
  <1> QED
    BY <1>1 DEF IsSeq

\* What is left of a list when its first lock is granted.
LEMMA TailOf ==
    ASSUME NEW w, IsSeq(w), w # <<>>
    PROVE  /\ IsSeq(Tail(w)) /\ Len(w) \in Nat /\ Len(Tail(w)) = Len(w) - 1 /\ Head(w) = w[1]
           /\ Len(w) >= 1
           /\ \A i \in 1 .. Len(Tail(w)) : Tail(w)[i] = w[i + 1] /\ i + 1 \in 1 .. Len(w)
           /\ \A i \in 1 .. Len(w) : i = 1 \/ (i - 1 \in 1 .. Len(Tail(w)) /\ Tail(w)[i - 1] = w[i])
  <1> DEFINE S == {w[i] : i \in 1 .. Len(w)}
  <1>1. w \in Seq(S)
    BY DEF IsSeq
  <1> HIDE DEF S
  <1>2. /\ Tail(w) \in Seq(S) /\ Len(w) \in Nat /\ Len(Tail(w)) = Len(w) - 1 /\ Head(w) = w[1]
        /\ Len(w) >= 1 /\ \A i \in 1 .. Len(w) - 1 : Tail(w)[i] = w[i + 1]
    <2>1. Len(w) \in Nat /\ Len(w) >= 1
      BY <1>1
    <2>2. Tail(w) \in Seq(S) /\ Len(Tail(w)) = Len(w) - 1
      <3>1. Len(w) # 0
        BY <2>1
      <3>2. Tail(w) \in Seq(S)
        BY <1>1
      <3>3. Len(Tail(w)) = Len(w) - 1
        BY <1>1, <3>1
      <3> QED
        BY <3>2, <3>3
    <2>4. Head(w) = w[1]
      BY <1>1
    <2>3. ASSUME NEW i \in 1 .. Len(w) - 1 PROVE Tail(w)[i] = w[i + 1]
      BY <1>1, <2>1
    <2> QED
      BY <2>1, <2>2, <2>3, <2>4
  <1>4. IsSeq(Tail(w))
    BY <1>2, AnySeq
  <1>5. \A i \in 1 .. Len(Tail(w)) : Tail(w)[i] = w[i + 1] /\ i + 1 \in 1 .. Len(w)
    BY <1>2
  <1>6. ASSUME NEW i \in 1 .. Len(w), i # 1
        PROVE  i - 1 \in 1 .. Len(Tail(w)) /\ Tail(w)[i - 1] = w[i]
    <2>1. i - 1 \in 1 .. Len(w) - 1 /\ (i - 1) + 1 = i
      BY <1>2, <1>6
    <2> QED
      BY <1>2, <2>1
  <1> QED
    BY <1>2, <1>4, <1>5, <1>6

\* The rows of a cluster, in order.
LEMMA RowLists ==
    ASSUME NEW S \in SUBSET Sources
    PROVE  /\ IsSeq(MembersForUpdate(S)) /\ IsSeq(MembersForShare(S)) /\ IsSeq(SourcesForShare(S))
           /\ \A i \in 1 .. Len(MembersForUpdate(S)) :
                  \E x : MembersForUpdate(S)[i] = ForUpdate(Member(x))
           /\ \A i \in 1 .. Len(MembersForShare(S)) :
                  \E x : MembersForShare(S)[i] = ForShare(Member(x))
           /\ \A i \in 1 .. Len(SourcesForShare(S)) :
                  \E x : SourcesForShare(S)[i] = ForShare(Source(x))
  <1>1. Cardinality(S) \in Nat
    BY SourcesAreFinite
  <1> PICK n \in Nat : n = Cardinality(S)
    BY <1>1
  <1>2. ASSUME NEW f, NEW w, w = [i \in 1 .. n |-> f[i]]
        PROVE  IsSeq(w) /\ Len(w) = n /\ \A i \in 1 .. n : w[i] = f[i]
    <2>1. w \in Seq({w[i] : i \in 1 .. n}) /\ Len(w) = n
      BY <1>2
    <2> QED
      BY <1>2, <2>1 DEF IsSeq
  <1>3. /\ IsSeq(MembersForUpdate(S)) /\ Len(MembersForUpdate(S)) = n
        /\ \A i \in 1 .. n : MembersForUpdate(S)[i] = ForUpdate(Member(InOrder(S)[i]))
    <2> PICK f : f = [i \in 1 .. n |-> ForUpdate(Member(InOrder(S)[i]))]
      OBVIOUS
    <2>1. MembersForUpdate(S) = [i \in 1 .. n |-> f[i]] /\ \A i \in 1 .. n : f[i] = ForUpdate(Member(InOrder(S)[i]))
      BY DEF MembersForUpdate
    <2> QED
      BY <1>2, <2>1
  <1>4. /\ IsSeq(MembersForShare(S)) /\ Len(MembersForShare(S)) = n
        /\ \A i \in 1 .. n : MembersForShare(S)[i] = ForShare(Member(InOrder(S)[i]))
    <2> PICK f : f = [i \in 1 .. n |-> ForShare(Member(InOrder(S)[i]))]
      OBVIOUS
    <2>1. MembersForShare(S) = [i \in 1 .. n |-> f[i]] /\ \A i \in 1 .. n : f[i] = ForShare(Member(InOrder(S)[i]))
      BY DEF MembersForShare
    <2> QED
      BY <1>2, <2>1
  <1>5. /\ IsSeq(SourcesForShare(S)) /\ Len(SourcesForShare(S)) = n
        /\ \A i \in 1 .. n : SourcesForShare(S)[i] = ForShare(Source(InOrder(S)[i]))
    <2> PICK f : f = [i \in 1 .. n |-> ForShare(Source(InOrder(S)[i]))]
      OBVIOUS
    <2>1. SourcesForShare(S) = [i \in 1 .. n |-> f[i]] /\ \A i \in 1 .. n : f[i] = ForShare(Source(InOrder(S)[i]))
      BY DEF SourcesForShare
    <2> QED
      BY <1>2, <2>1
  <1> QED
    BY <1>3, <1>4, <1>5

\* One lock before such a list.
LEMMA ListAfter ==
    ASSUME NEW a, NEW w, IsSeq(w)
    PROVE  /\ IsSeq(<<a>> \o w)
           /\ \A i \in 1 .. Len(<<a>> \o w) :
                  \/ (<<a>> \o w)[i] = a
                  \/ \E j \in 1 .. Len(w) : (<<a>> \o w)[i] = w[j]
  <1> DEFINE S == {a} \union {w[i] : i \in 1 .. Len(w)}
             v == <<a>> \o w
  <1>1. w \in Seq(S) /\ <<a>> \in Seq(S)
    BY DEF IsSeq
  <1> HIDE DEF S
  <1>2. v \in Seq(S) /\ Len(v) = 1 + Len(w) /\ Len(w) \in Nat
    BY <1>1
  <1>3. IsSeq(v)
    BY <1>2, AnySeq
  <1>4. ASSUME NEW i \in 1 .. Len(v)
        PROVE  v[i] = a \/ \E j \in 1 .. Len(w) : v[i] = w[j]
    <2>1. CASE i = 1
      BY <1>1, <2>1
    <2>2. CASE i # 1
      <3>1. v[i] = w[i - 1] /\ i - 1 \in 1 .. Len(w)
        BY <1>1, <1>2, <2>2
      <3> QED
        BY <3>1
    <2> QED
      BY <2>1, <2>2
  <1> QED
    BY <1>3, <1>4

\* The rows are different ones.
LEMMA RowsApart ==
    /\ Run # Namespace /\ Run # Lifecycle /\ Namespace # Lifecycle
    /\ \A x : /\ Member(x) \notin {Run, Namespace} /\ Source(x) \notin {Run, Namespace}
  BY DEF Run, Namespace, Lifecycle, Member, Source

LEMMA LockFields ==
    ASSUME NEW row
    PROVE  /\ ForUpdate(row).row = row /\ ForUpdate(row).mode = "update"
           /\ ForShare(row).row = row /\ ForShare(row).mode = "share"
  BY DEF ForUpdate, ForShare

LEMMA RunAndNamespace ==
    /\ ForUpdate(Run) # ForUpdate(Namespace)
    /\ \A k : Conflicts(ForUpdate(Run), k) <=> k.row = Run
    /\ \A k : Conflicts(ForUpdate(Namespace), k) <=> k.row = Namespace
    /\ \A k, l : Conflicts(k, l) <=> Conflicts(l, k)
  <1>1. ForUpdate(Run).row = Run /\ ForUpdate(Namespace).row = Namespace
        /\ ForUpdate(Run).mode = "update" /\ ForUpdate(Namespace).mode = "update"
    BY DEF ForUpdate
  <1>2. Run # Namespace
    BY RowsApart
  <1> QED
    BY <1>1, <1>2 DEF Conflicts


-----------------------------------------------------------------------------
(* A step of one connection                                                *)

Tx(at, wants, held, note) == [at |-> at, wants |-> wants, held |-> held, note |-> note]

LEMMA TxFields ==
    ASSUME NEW at, NEW wants, NEW held, NEW note
    PROVE  /\ Tx(at, wants, held, note).at = at /\ Tx(at, wants, held, note).wants = wants
           /\ Tx(at, wants, held, note).held = held /\ Tx(at, wants, held, note).note = note
  BY DEF Tx

LEMMA TxOf ==
    ASSUME Shaped, NEW c \in Conns
    PROVE  \E a, w, h, n : tx[c] = Tx(a, w, h, n)
  <1>1. tx[c] = [at |-> tx[c].at, wants |-> tx[c].wants, held |-> tx[c].held, note |-> tx[c].note]
    BY DEF Shaped
  <1> QED
    BY <1>1 DEF Tx

LEMMA AskedTx ==
    ASSUME Shaped, NEW c \in Conns, NEW at, NEW locks,
           tx' = [tx EXCEPT ![c].at = at, ![c].wants = locks]
    PROVE  tx' = [tx EXCEPT ![c] = Tx(at, locks, tx[c].held, tx[c].note)]
  <1>1. tx' = [tx EXCEPT ![c] = [[tx[c] EXCEPT !.at = at] EXCEPT !.wants = locks]]
    BY DEF Shaped
  <1>2. tx[c] = [at |-> tx[c].at, wants |-> tx[c].wants, held |-> tx[c].held, note |-> tx[c].note]
    BY DEF Shaped
  <1>3. ASSUME NEW q, NEW a, NEW w, NEW h, NEW n, q = [at |-> a, wants |-> w, held |-> h, note |-> n]
        PROVE  [[q EXCEPT !.at = at] EXCEPT !.wants = locks]
                   = [at |-> at, wants |-> locks, held |-> h, note |-> n]
    <2>1. [q EXCEPT !.at = at] = [at |-> at, wants |-> w, held |-> h, note |-> n]
      BY <1>3
    <2>2. ASSUME NEW p, p = [at |-> at, wants |-> w, held |-> h, note |-> n]
          PROVE  [p EXCEPT !.wants = locks] = [at |-> at, wants |-> locks, held |-> h, note |-> n]
      BY <2>2
    <2> QED
      BY <2>1, <2>2
  <1>4. [[tx[c] EXCEPT !.at = at] EXCEPT !.wants = locks]
            = [at |-> at, wants |-> locks, held |-> tx[c].held, note |-> tx[c].note]
    BY <1>2, <1>3
  <1> QED
    BY <1>1, <1>4 DEF Tx

LEMMA LockedTx ==
    ASSUME Shaped, NEW c \in Conns, NEW held, NEW rest,
           tx' = [tx EXCEPT ![c] = [[tx[c] EXCEPT !.held = held] EXCEPT !.wants = rest]]
    PROVE  tx' = [tx EXCEPT ![c] = Tx(tx[c].at, rest, held, tx[c].note)]
  <1>1. tx' = [tx EXCEPT ![c] = [[tx[c] EXCEPT !.held = held] EXCEPT !.wants = rest]]
    OBVIOUS
  <1>2. tx[c] = [at |-> tx[c].at, wants |-> tx[c].wants, held |-> tx[c].held, note |-> tx[c].note]
    BY DEF Shaped
  <1>3. ASSUME NEW q, NEW a, NEW w, NEW h, NEW n, q = [at |-> a, wants |-> w, held |-> h, note |-> n]
        PROVE  [[q EXCEPT !.held = held] EXCEPT !.wants = rest]
                   = [at |-> a, wants |-> rest, held |-> held, note |-> n]
    <2>1. [q EXCEPT !.held = held] = [at |-> a, wants |-> w, held |-> held, note |-> n]
      BY <1>3
    <2>2. ASSUME NEW p, p = [at |-> a, wants |-> w, held |-> held, note |-> n]
          PROVE  [p EXCEPT !.wants = rest] = [at |-> a, wants |-> rest, held |-> held, note |-> n]
      BY <2>2
    <2> QED
      BY <2>1, <2>2
  <1>4. [[tx[c] EXCEPT !.held = held] EXCEPT !.wants = rest]
            = [at |-> tx[c].at, wants |-> rest, held |-> held, note |-> tx[c].note]
    BY <1>2, <1>3
  <1> QED
    BY <1>1, <1>4 DEF Tx

\* Only a lock can be granted to more than one.
LEMMA TxStep ==
    ASSUME TxInv, NEW c \in Conns, NEW at, NEW wants, NEW held, NEW note,
           tx' = [tx EXCEPT ![c] = Tx(at, wants, held, note)],
           \A d \in Conns \ {c} : \A k \in held, l \in tx[d].held : ~Conflicts(k, l),
           Asks(Tx(at, wants, held, note)), Ordered(Tx(at, wants, held, note))
    PROVE  /\ TxInv' /\ tx'[c] = Tx(at, wants, held, note)
           /\ \A d \in Conns : d # c => tx'[d] = tx[d]
  <1> PICK t : t = Tx(at, wants, held, note)
    OBVIOUS
  <1>1. tx'[c] = t /\ \A d \in Conns : d # c => tx'[d] = tx[d]
    BY DEF TxInv, Shaped
  <1>2. t.held = held /\ t = [at |-> t.at, wants |-> t.wants, held |-> t.held, note |-> t.note]
    BY DEF Tx
  <1>3. Shaped'
    <2>1. tx' = [d \in Conns |-> IF d = c THEN t ELSE tx[d]]
      BY DEF TxInv, Shaped
    <2>2. \A d \in Conns : tx'[d] = [at |-> tx'[d].at, wants |-> tx'[d].wants,
                                     held |-> tx'[d].held, note |-> tx'[d].note]
      BY <1>1, <1>2 DEF TxInv, Shaped
    <2> QED
      BY <2>1, <2>2 DEF Shaped
  <1>4. Exclusive'
    <2> SUFFICES ASSUME NEW d \in Conns, NEW e \in Conns, d # e,
                        NEW k \in tx'[d].held, NEW l \in tx'[e].held
                 PROVE  ~Conflicts(k, l)
      BY DEF Exclusive
    <2>1. Conflicts(k, l) <=> Conflicts(l, k)
      BY RunAndNamespace
    <2>2. CASE d = c
      BY <1>1, <1>2, <2>2
    <2>3. CASE e = c
      BY <1>1, <1>2, <2>1, <2>3
    <2>4. CASE d # c /\ e # c
      BY <1>1, <2>4 DEF TxInv, Exclusive
    <2> QED
      BY <2>2, <2>3, <2>4
  <1>5. ASSUME NEW d \in Conns PROVE Asks(tx'[d]) /\ Ordered(tx'[d])
    BY <1>1 DEF TxInv
  <1>6. ASSUME NEW d \in Conns PROVE Asks(tx[d])' /\ Ordered(tx[d])'
    BY <1>5 DEF Asks, Ordered
  <1> QED
    BY <1>1, <1>3, <1>4, <1>6 DEF TxInv

\* The locks that the statements of a promotion have been granted.
LEMMA HasNeeded ==
    ASSUME TxInv, NEW c \in Conns, NEW at, Has(c, at), at \in RunLocked \union NamespaceLocked
    PROVE  /\ at \in RunLocked => ForUpdate(Run) \in tx[c].held
           /\ at \in NamespaceLocked => ForUpdate(Namespace) \in tx[c].held
  <1>1. tx[c].at = at /\ tx[c].wants = <<>> /\ Asks(tx[c])
    BY DEF Has, TxInv
  <1>2. Len(tx[c].wants) = 0
    BY <1>1, ShortLists
  <1>3. \A k \in Needed(at) : k \in tx[c].held
    BY <1>1, <1>2 DEF Asks
  <1> QED
    BY <1>3 DEF Needed

\* What another transaction has decided stands as long as nobody without the
\* lock of the run or of the namespace changes what it was decided from.
LEMMA OthersStay ==
    ASSUME LocksInv, NEW c \in Conns, NEW r \in Runners, r # c,
           tx'[r] = tx[r], run'[r] = run[r],
           \/ UNCHANGED <<text, retired, snap, anchor, live, buried>>
           \/ ForUpdate(Run) \in tx[c].held
           \/ ForUpdate(Namespace) \in tx[c].held
    PROVE  InStep(r)' /\ Noted(r)' /\ Ready(r)'
  <1>1. InStep(r) /\ Noted(r) /\ Ready(r) /\ Exclusive /\ r \in Conns
    BY DEF LocksInv, TxInv, Conns
  <1>2. InStep(r)' /\ Noted(r)'
    BY <1>1 DEF InStep, Noted
  <1>3. ASSUME tx[r].at = "admitted"
        PROVE  UNCHANGED <<text, retired, snap, anchor, live, buried>>
    <2>1. ~Conflicts(ForUpdate(Run), ForUpdate(Run)) \/ ForUpdate(Run) \notin tx[c].held
      BY <1>1, <1>3 DEF Exclusive, Ready
    <2>2. ~Conflicts(ForUpdate(Namespace), ForUpdate(Namespace)) \/ ForUpdate(Namespace) \notin tx[c].held
      BY <1>1, <1>3 DEF Exclusive, Ready
    <2> QED
      BY <2>1, <2>2, RunAndNamespace, LockFields
  <1>4. ASSUME tx[r].at = "admitted", Supported(r) PROVE Supported(r)'
    BY <1>3, <1>4 DEF Supported, Object, Anchor, At, Members, Intact, Current
  <1> QED
    BY <1>1, <1>2, <1>4 DEF Ready

\* A connection touches what others have decided from under a lock only.
Guarded(c) ==
    \/ UNCHANGED <<text, retired, snap, anchor, live, buried>>
    \/ ForUpdate(Run) \in tx[c].held
    \/ ForUpdate(Namespace) \in tx[c].held

\* Nobody goes on with the run of somebody else.
OwnRun(c) == \A r \in Runners : r # c => run'[r] = run[r]

LEMMA ConnectionStep ==
    ASSUME LocksInv, NEW c \in Conns, NEW at, NEW wants, NEW held, NEW note,
           tx' = [tx EXCEPT ![c] = Tx(at, wants, held, note)],
           \A d \in Conns \ {c} : \A k \in held, l \in tx[d].held : ~Conflicts(k, l),
           Asks(Tx(at, wants, held, note)), Ordered(Tx(at, wants, held, note)),
           Guarded(c), OwnRun(c),
           c \in Runners => /\ at \in {"closed"} \union Doing(run'[c].pc)
                            /\ at = "inserted" => note \in [Sources -> Texts \union {NoText}]
                            /\ at = "admitted" => /\ ForUpdate(Run) \in held
                                                  /\ ForUpdate(Namespace) \in held
                                                  /\ Supported(c)'
    PROVE  LocksInv'
  <1>1. /\ TxInv' /\ tx'[c] = Tx(at, wants, held, note)
        /\ \A d \in Conns : d # c => tx'[d] = tx[d]
    BY TxStep DEF LocksInv
  <1>2. ASSUME NEW r \in Runners, r # c PROVE InStep(r)' /\ Noted(r)' /\ Ready(r)'
    <2>1. tx'[r] = tx[r] /\ run'[r] = run[r]
      BY <1>1, <1>2 DEF Conns, OwnRun
    <2> QED
      BY <1>2, <2>1, OthersStay DEF Guarded
  <1>3. ASSUME c \in Runners PROVE InStep(c)' /\ Noted(c)' /\ Ready(c)'
    <2>1. tx'[c].at = at /\ tx'[c].held = held /\ tx'[c].note = note
      BY <1>1, TxFields
    <2>2. InStep(c)'
      BY <1>3, <2>1 DEF InStep
    <2>3. Noted(c)'
      BY <1>3, <2>1 DEF Noted
    <2>4. Ready(c)'
      BY <1>3, <2>1 DEF Ready
    <2> QED
      BY <2>2, <2>3, <2>4
  <1>4. ASSUME NEW r \in Runners PROVE (InStep(r) /\ Noted(r) /\ Ready(r))'
    BY <1>2, <1>3
  <1> QED
    BY <1>1, <1>4 DEF LocksInv

\* Nobody else has what a connection has.
LEMMA Alone ==
    ASSUME TxInv, NEW c \in Conns, NEW held \in SUBSET tx[c].held
    PROVE  \A d \in Conns \ {c} : \A k \in held, l \in tx[d].held : ~Conflicts(k, l)
  BY DEF TxInv, Exclusive

LEMMA EndStep ==
    ASSUME LocksInv, NEW c \in Conns, End(c), Guarded(c), OwnRun(c)
    PROVE  LocksInv'
  <1> PICK t : t = Tx("closed", <<>>, {}, <<>>)
    OBVIOUS
  <1>1. t.at = "closed" /\ t.wants = <<>> /\ t.held = {}
    BY TxFields
  <1>2. Asks(t)
    BY <1>1 DEF Asks, RunLocked, NamespaceLocked, Promoting
  <1>3. Ordered(t)
    BY <1>1 DEF Ordered, Late, Promoting
  <1>4. tx' = [tx EXCEPT ![c] = Tx("closed", <<>>, {}, <<>>)]
    BY DEF End, Closed, Tx
  <1> PICK at, held : at = "closed" /\ held = {}
    OBVIOUS
  <1>5. /\ at \in {"closed"} \union Doing(run'[c].pc)
        /\ at # "inserted" /\ at # "admitted"
        /\ \A d \in Conns \ {c} : \A k \in held, l \in tx[d].held : ~Conflicts(k, l)
    OBVIOUS
  <1>6. tx' = [tx EXCEPT ![c] = Tx(at, <<>>, held, <<>>)]
        /\ Asks(Tx(at, <<>>, held, <<>>)) /\ Ordered(Tx(at, <<>>, held, <<>>))
    BY <1>2, <1>3, <1>4
  <1> QED
    BY <1>5, <1>6, ConnectionStep

\* The rows it had stay locked.
LEMMA AskStep ==
    ASSUME LocksInv, NEW c \in Conns, NEW at, NEW locks, Ask(c, at, locks),
           Asks(Tx(at, locks, tx[c].held, tx[c].note)),
           Ordered(Tx(at, locks, tx[c].held, tx[c].note)),
           at # "inserted",
           c \in Runners => /\ at \in Doing(run[c].pc)
                            /\ at = "admitted" => /\ ForUpdate(Run) \in tx[c].held
                                                  /\ ForUpdate(Namespace) \in tx[c].held
                                                  /\ Supported(c)
    PROVE  LocksInv'
  <1> PICK held, note : held = tx[c].held /\ note = tx[c].note
    OBVIOUS
  <1>1. UNCHANGED vars
    BY DEF Ask
  <1>2. tx' = [tx EXCEPT ![c] = Tx(at, locks, held, note)]
    BY AskedTx DEF Ask, LocksInv, TxInv
  <1>3. Guarded(c) /\ OwnRun(c) /\ run' = run
    BY <1>1 DEF Guarded, OwnRun, vars
  <1>4. Supported(c) => Supported(c)'
    BY <1>1 DEF vars, Supported, Object, Anchor, Members, Intact, Current
  <1>5. \A d \in Conns \ {c} : \A k \in held, l \in tx[d].held : ~Conflicts(k, l)
    BY Alone DEF LocksInv
  <1> QED
    BY <1>2, <1>3, <1>4, <1>5, ConnectionStep

\* The first statement of a transaction.
LEMMA FirstStep ==
    ASSUME LocksInv, NEW r \in Runners, tx[r] = Closed, NEW at, NEW locks, Ask(r, at, locks),
           IsSeq(locks), \A k \in Needed(at) : \E i \in 1 .. Len(locks) : locks[i] = k,
           at \in {"assign", "members"} => locks = <<ForUpdate(Run)>>,
           at = "assignments" => locks = <<ForUpdate(Namespace), ForUpdate(Run)>>,
           at \notin Late, at \notin {"inserted", "admitted"}, at \in Doing(run[r].pc), at # "closed"
    PROVE  LocksInv'
  <1> PICK t : t = Tx(at, locks, tx[r].held, tx[r].note)
    OBVIOUS
  <1>1. t.at = at /\ t.wants = locks /\ t.held = {}
    BY TxFields DEF Closed
  <1>2. Asks(t) /\ Ordered(t)
    BY <1>1 DEF Asks, Ordered
  <1>3. r \in Conns
    BY DEF Conns
  <1> QED
    BY <1>2, <1>3, AskStep

\* A later one, under the locks it needs.
LEMMA NextStep ==
    ASSUME LocksInv, NEW r \in Runners, NEW from, Has(r, from), NEW at, NEW locks, Ask(r, at, locks),
           at \in RunLocked \union NamespaceLocked => IsSeq(locks),
           at \in RunLocked => from \in RunLocked,
           at \in NamespaceLocked => from \in NamespaceLocked,
           at \in Late => \A i \in 1 .. Len(locks) : locks[i].row \notin {Run, Namespace},
           at \notin {"assign", "members", "assignments", "closed", "inserted"},
           at \in Doing(run[r].pc), at = "admitted" => Supported(r)
    PROVE  LocksInv'
  <1> PICK t : t = Tx(at, locks, tx[r].held, tx[r].note)
    OBVIOUS
  <1>1. t.at = at /\ t.wants = locks /\ t.held = tx[r].held
    BY TxFields
  <1>2. r \in Conns /\ TxInv
    BY DEF Conns, LocksInv
  <1>3. /\ at \in RunLocked => ForUpdate(Run) \in tx[r].held
        /\ at \in NamespaceLocked => ForUpdate(Namespace) \in tx[r].held
    BY <1>2, HasNeeded
  <1>4. Asks(t)
    BY <1>1, <1>3 DEF Asks, Needed
  <1>5. Late \subseteq RunLocked /\ "admitted" \in RunLocked /\ "admitted" \in NamespaceLocked
    BY DEF Late, RunLocked, NamespaceLocked, Promoting
  <1>6. Ordered(t)
    BY <1>1, <1>3, <1>5 DEF Ordered
  <1> QED
    BY <1>2, <1>3, <1>4, <1>5, <1>6, AskStep

LEMMA ShortTails ==
    ASSUME NEW a, NEW b
    PROVE  /\ Head(<<a>>) = a /\ Tail(<<a>>) = <<>>
           /\ Head(<<a, b>>) = a /\ Tail(<<a, b>>) = <<b>>
           /\ <<a>> # <<>> /\ <<a, b>> # <<>>
  OBVIOUS

\* The order of the locks is that of the list.
LEMMA Granted ==
    ASSUME NEW at, NEW w, NEW h, NEW note, w # <<>>,
           Asks(Tx(at, w, h, note)), Ordered(Tx(at, w, h, note))
    PROVE  /\ Asks(Tx(at, Tail(w), h \union {Head(w)}, note))
           /\ Ordered(Tx(at, Tail(w), h \union {Head(w)}, note))
  <1> PICK s, t : s = Tx(at, w, h, note) /\ t = Tx(at, Tail(w), h \union {Head(w)}, note)
    OBVIOUS
  <1>1. s.at = at /\ s.wants = w /\ s.held = h
    BY TxFields
  <1>2. t.at = at /\ t.wants = Tail(w) /\ t.held = h \union {Head(w)}
    BY DEF Tx
  <1>3. ASSUME at \in RunLocked \union NamespaceLocked
        PROVE  /\ IsSeq(w) /\ \A l \in Needed(at) : l \in h \/ \E i \in 1 .. Len(w) : w[i] = l
    BY <1>1, <1>3 DEF Asks
  <1>4. ASSUME at \in RunLocked \union NamespaceLocked
        PROVE  /\ IsSeq(Tail(w))
               /\ \A l \in Needed(at) : l \in h \union {Head(w)} \/ \E i \in 1 .. Len(Tail(w)) : Tail(w)[i] = l
    <2>1. /\ IsSeq(Tail(w)) /\ Head(w) = w[1]
          /\ \A i \in 1 .. Len(w) : i = 1 \/ (i - 1 \in 1 .. Len(Tail(w)) /\ Tail(w)[i - 1] = w[i])
      BY <1>3, <1>4, TailOf
    <2>2. ASSUME NEW l \in Needed(at), l \notin h, l # Head(w)
          PROVE  \E i \in 1 .. Len(Tail(w)) : Tail(w)[i] = l
      <3>1. PICK i \in 1 .. Len(w) : w[i] = l
        BY <1>3, <1>4, <2>2
      <3>2. i # 1
        BY <2>1, <2>2, <3>1
      <3> QED
        BY <2>1, <3>1, <3>2
    <2> QED
      BY <2>1, <2>2
  <1>5. Asks(t)
    BY <1>2, <1>4 DEF Asks
  <1>6. at # "closed"
    BY <1>1 DEF Ordered
  <1>7. ASSUME at \in {"assign", "members"} PROVE Tail(w) = <<>>
    <2>1. w = <<ForUpdate(Run)>>
      BY <1>1, <1>7 DEF Ordered
    <2> QED
      BY <2>1, ShortTails
  <1>8. ASSUME at = "assignments"
        PROVE  \/ Tail(w) = <<ForUpdate(Run)>> /\ h \union {Head(w)} = {ForUpdate(Namespace)}
               \/ Tail(w) = <<>>
    <2>1. CASE w = <<ForUpdate(Namespace), ForUpdate(Run)>> /\ h = {}
      <3>1. Head(w) = ForUpdate(Namespace) /\ Tail(w) = <<ForUpdate(Run)>>
        BY <2>1, ShortTails
      <3> QED
        BY <2>1, <3>1
    <2>2. CASE w = <<ForUpdate(Run)>>
      BY <2>2, ShortTails
    <2> QED
      BY <1>1, <1>8, <2>1, <2>2 DEF Ordered
  <1>9. ASSUME at \in Late
        PROVE  /\ ForUpdate(Run) \in h
               /\ \A i \in 1 .. Len(Tail(w)) : Tail(w)[i].row \notin {Run, Namespace}
    <2>1. ForUpdate(Run) \in h /\ \A i \in 1 .. Len(w) : w[i].row \notin {Run, Namespace}
      BY <1>1, <1>9 DEF Ordered
    <2>2. IsSeq(w)
      BY <1>3, <1>9 DEF Late, RunLocked
    <2>3. \A i \in 1 .. Len(Tail(w)) : Tail(w)[i] = w[i + 1] /\ i + 1 \in 1 .. Len(w)
      BY <2>2, TailOf
    <2> QED
      BY <2>1, <2>3
  <1>10. Ordered(t)
    BY <1>2, <1>6, <1>7, <1>8, <1>9 DEF Ordered
  <1> QED
    BY <1>5, <1>10

\* A row is granted that nobody has.
LEMMA LockStep ==
    ASSUME LocksInv, NEW c \in Conns, Lock(c)
    PROVE  LocksInv'
  <1>1. UNCHANGED vars /\ tx[c].wants # <<>> /\ WaitsFor(c) = {}
    BY DEF Lock
  <1>2. Asks(tx[c]) /\ Ordered(tx[c]) /\ Shaped /\ Exclusive
    BY DEF LocksInv, TxInv
  <1>3. ASSUME NEW at, NEW w, NEW h, NEW note, tx[c] = Tx(at, w, h, note)
        PROVE  LocksInv'
    <2>1. tx[c].at = at /\ tx[c].wants = w /\ tx[c].held = h /\ tx[c].note = note
      BY <1>3, TxFields
    <2>2. tx' = [tx EXCEPT ![c] = Tx(at, Tail(w), h \union {Head(w)}, note)]
      <3>1. tx' = [tx EXCEPT ![c] = [[tx[c] EXCEPT !.held = tx[c].held \union {Head(tx[c].wants)}]
                                         EXCEPT !.wants = Tail(tx[c].wants)]]
        BY <1>2 DEF Lock, Shaped
      <3>2. \A r, l : tx' = [tx EXCEPT ![c] = [[tx[c] EXCEPT !.held = l] EXCEPT !.wants = r]]
                  => tx' = [tx EXCEPT ![c] = Tx(tx[c].at, r, l, tx[c].note)]
        BY <1>2, LockedTx
      <3>3. tx' = [tx EXCEPT ![c] = Tx(tx[c].at, Tail(tx[c].wants),
                                       tx[c].held \union {Head(tx[c].wants)}, tx[c].note)]
        BY <3>1, <3>2, Zenon
      <3> QED
        BY <2>1, <3>3
    <2>3. Asks(Tx(at, Tail(w), h \union {Head(w)}, note)) /\ Ordered(Tx(at, Tail(w), h \union {Head(w)}, note))
      BY <1>1, <1>2, <1>3, <2>1, Granted
    <2>4. \A d \in Conns \ {c} : \A j \in h \union {Head(w)}, l \in tx[d].held : ~Conflicts(j, l)
      <3>1. \A d \in Conns \ {c} : \A l \in tx[d].held : ~Conflicts(l, Head(w))
        BY <1>1, <2>1 DEF WaitsFor, HoldersOf
      <3>2. \A d \in Conns \ {c} : \A j \in h, l \in tx[d].held : ~Conflicts(j, l)
        BY <1>2, <2>1 DEF Exclusive
      <3> QED
        BY <3>1, <3>2, RunAndNamespace
    <2>5. Guarded(c) /\ OwnRun(c) /\ run' = run
      BY <1>1 DEF Guarded, OwnRun, vars
    <2> PICK held : held = h \union {Head(w)}
      OBVIOUS
    <2>6. ASSUME c \in Runners
          PROVE  /\ at \in {"closed"} \union Doing(run'[c].pc)
                 /\ at = "inserted" => note \in [Sources -> Texts \union {NoText}]
                 /\ at = "admitted" => /\ ForUpdate(Run) \in held
                                       /\ ForUpdate(Namespace) \in held
                                       /\ Supported(c)'
      <3>1. InStep(c) /\ Noted(c) /\ Ready(c)
        BY <2>6 DEF LocksInv
      <3>2. Supported(c) => Supported(c)'
        BY <1>1 DEF vars, Supported, Object, Anchor, Members, Intact, Current
      <3>3. at \in {"closed"} \union Doing(run'[c].pc)
        BY <2>1, <2>5, <3>1 DEF InStep
      <3>4. at = "inserted" => note \in [Sources -> Texts \union {NoText}]
        BY <2>1, <3>1 DEF Noted
      <3> QED
        BY <2>1, <3>1, <3>2, <3>3, <3>4 DEF Ready
    <2> QED
      BY <2>2, <2>3, <2>4, <2>5, <2>6, ConnectionStep
  <1> QED
    BY <1>2, <1>3, TxOf

-----------------------------------------------------------------------------
(* The statements of a run                                                 *)

WInv == SharedInv /\ LocksInv

LEMMA OwnConns == \A r \in Runners : r \in Conns
  BY DEF Conns

\* What a run is doing when its connection is at a statement.
LEMMA Where ==
    ASSUME WInv, NEW r \in Runners
    PROVE  /\ tx[r].at \in {"compare", "insert", "inserted"} => run[r].pc = "off"
           /\ tx[r].at \in {"assign", "assigned"} => run[r].pc \in {"source", "match"}
           /\ tx[r].at = "loading" => run[r].pc = "load"
           /\ tx[r].at \in {"preflight", "scanning"} => run[r].pc = "scan"
           /\ tx[r].at \in {"members", "counted", "finalizing"} => run[r].pc = "finalize"
           /\ tx[r].at \in Promoting => run[r].pc = "commit"
  <1> PICK at, pc : at = tx[r].at /\ pc = run[r].pc
    OBVIOUS
  <1>1. at \in {"closed"} \union Doing(pc)
    BY DEF WInv, LocksInv, InStep
  <1>2. CASE pc = "off"
    BY <1>1, <1>2 DEF Doing, Promoting
  <1>3. CASE pc \in {"source", "match"}
    BY <1>1, <1>3 DEF Doing, Promoting
  <1>4. CASE pc = "load"
    BY <1>1, <1>4 DEF Doing, Promoting
  <1>5. CASE pc = "scan"
    BY <1>1, <1>5 DEF Doing, Promoting
  <1>6. CASE pc = "finalize"
    BY <1>1, <1>6 DEF Doing, Promoting
  <1>7. CASE pc = "commit"
    BY <1>1, <1>7 DEF Doing, Promoting
  <1>8. CASE pc \notin {"off", "source", "match", "load", "scan", "finalize", "commit"}
    BY <1>1, <1>8 DEF Doing, Promoting
  <1> QED
    BY <1>2, <1>3, <1>4, <1>5, <1>6, <1>7, <1>8

LEMMA SameShares ==
    ASSUME SharedInv, UNCHANGED vars
    PROVE  SharedInv' /\ NewEvidence
  <1>1. RowsInv' /\ RunsInv'
    BY RowsStay DEF SharedInv, vars, RowsInv, RunsInv, Follows
  <1> QED
    BY <1>1, FactsStay DEF SharedInv, vars

\* A transaction that leaves no trace in the rows.
LEMMA UnwrittenStep ==
    ASSUME WInv, NEW c \in Conns, End(c), Unwritten, RunsInv', OwnRun(c)
    PROVE  WInv' /\ NewEvidence
  <1>1. UNCHANGED <<text, retired, snap, state, anchor, cursor, live, buried>>
    BY DEF Unwritten, sourceVars, workspaceVars, semanticVars
  <1>2. RowsInv'
    BY <1>1, RowsStay DEF WInv, SharedInv, RowsInv
  <1>3. FactsInv' /\ NewEvidence
    BY <1>1, FactsStay DEF WInv, SharedInv
  <1>4. LocksInv'
    BY <1>1, EndStep DEF WInv, Guarded
  <1> QED
    BY <1>2, <1>3, <1>4 DEF WInv, SharedInv

LEMMA ReturnOwn ==
    ASSUME RunsInv, NEW r \in Runners, Return(r)
    PROVE  RunsInv' /\ OwnRun(r)
  BY ReturnRuns DEF OwnRun

LEMMA AbortStep ==
    ASSUME WInv, NEW r \in Runners, Abort(r)
    PROVE  WInv' /\ NewEvidence
  <1>1. RunsInv' /\ OwnRun(r)
    BY ReturnOwn DEF Abort, WInv, SharedInv
  <1> QED
    BY <1>1, OwnConns, UnwrittenStep DEF Abort

\* A statement that waits for its rows has read and written nothing.
LEMMA AskShares ==
    ASSUME WInv, LocksInv', NEW c, NEW at, NEW locks, Ask(c, at, locks)
    PROVE  WInv' /\ NewEvidence
  BY SameShares DEF Ask, WInv

\* The rows of a cluster are neither the run's nor the namespace's.
LEMMA RowListRows ==
    ASSUME NEW S \in SUBSET Sources
    PROVE  /\ \A i \in 1 .. Len(MembersForUpdate(S)) : MembersForUpdate(S)[i].row \notin {Run, Namespace}
           /\ \A i \in 1 .. Len(MembersForShare(S)) : MembersForShare(S)[i].row \notin {Run, Namespace}
           /\ \A i \in 1 .. Len(SourcesForShare(S)) : SourcesForShare(S)[i].row \notin {Run, Namespace}
  BY RowLists, LockFields, RowsApart

LEMMA OpenSteps ==
    ASSUME WInv, NEW r \in Runners,
           OpenBegin(r) \/ OpenMatch(r) \/ OpenFinalize(r) \/ OpenPromotion(r)
    PROVE  WInv' /\ NewEvidence
  <1> USE DEF WInv
  <1>1. CASE OpenBegin(r)
    <2> PICK locks : locks = <<ForUpdate(Lifecycle), ForUpdate(Run)>>
      OBVIOUS
    <2>1. Ask(r, "compare", locks) /\ tx[r] = Closed /\ run[r].pc = "off"
      BY <1>1 DEF OpenBegin, Open, At
    <2>2. IsSeq(locks) /\ \E i \in 1 .. Len(locks) : locks[i] = ForUpdate(Run)
      BY ListHas
    <2>3. \A k \in Needed("compare") : k = ForUpdate(Run)
      BY DEF Needed, NamespaceLocked, Promoting
    <2>4. "compare" \notin Late /\ "compare" \in Doing(run[r].pc)
      BY <2>1 DEF Late, Promoting, Doing
    <2>5. LocksInv'
      BY <2>1, <2>2, <2>3, <2>4, FirstStep
    <2> QED
      BY <2>1, <2>5, AskShares
  <1>2. ASSUME NEW at \in {"assign", "members"}, Ask(r, at, <<ForUpdate(Run)>>), tx[r] = Closed,
               at \in Doing(run[r].pc)
        PROVE  WInv' /\ NewEvidence
    <2> PICK locks : locks = <<ForUpdate(Run)>>
      OBVIOUS
    <2>1. IsSeq(locks) /\ \E i \in 1 .. Len(locks) : locks[i] = ForUpdate(Run)
      BY ListHas
    <2>2. \A k \in Needed(at) : k = ForUpdate(Run)
      BY <1>2 DEF Needed, NamespaceLocked, Promoting
    <2>3. at \notin Late
      BY <1>2 DEF Late, Promoting
    <2>4. LocksInv'
      BY <1>2, <2>1, <2>2, <2>3, FirstStep
    <2> QED
      BY <1>2, <2>4, AskShares
  <1>3. CASE OpenMatch(r)
    BY <1>2, <1>3 DEF OpenMatch, Open, At, Doing
  <1>4. CASE OpenFinalize(r)
    BY <1>2, <1>4 DEF OpenFinalize, Open, At, Doing
  <1>5. CASE OpenPromotion(r)
    <2> PICK locks : locks = <<ForUpdate(Namespace), ForUpdate(Run)>>
      OBVIOUS
    <2>1. Ask(r, "assignments", locks) /\ tx[r] = Closed /\ run[r].pc = "commit"
      BY <1>5 DEF OpenPromotion, Open, At
    <2>2. /\ IsSeq(locks) /\ \E i \in 1 .. Len(locks) : locks[i] = ForUpdate(Run)
          /\ \E i \in 1 .. Len(locks) : locks[i] = ForUpdate(Namespace)
      BY ListHas
    <2>3. \A k \in Needed("assignments") : k \in {ForUpdate(Run), ForUpdate(Namespace)}
      BY DEF Needed
    <2>4. "assignments" \notin Late /\ "assignments" \in Doing(run[r].pc)
      BY <2>1 DEF Late, Promoting, Doing
    <2>5. LocksInv'
      BY <2>1, <2>2, <2>3, <2>4, FirstStep
    <2> QED
      BY <2>1, <2>5, AskShares
  <1> QED
    BY <1>1, <1>3, <1>4, <1>5

LEMMA LoadAndScanOpen ==
    ASSUME WInv, NEW r \in Runners, OpenLoad(r) \/ OpenScan(r) \/ Preflight(r)
    PROVE  WInv' /\ NewEvidence
  <1> USE DEF WInv
  <1>1. ASSUME NEW at \in {"loading", "preflight"}, NEW locks, IsSeq(locks), Ask(r, at, locks),
               tx[r] = Closed, at \in Doing(run[r].pc)
        PROVE  WInv' /\ NewEvidence
    <2>1. at \notin Late /\ Needed(at) = {}
      BY <1>1 DEF Late, Promoting, Needed, RunLocked, NamespaceLocked
    <2>2. LocksInv'
      BY <1>1, <2>1, FirstStep
    <2> QED
      BY <1>1, <2>2, AskShares
  <1>2. CASE OpenLoad(r)
    <2>1. CASE Abort(r)
      BY <2>1, AbortStep
    <2>2. CASE ~Abort(r)
      <3> PICK a, b, c : <<a, b, c>> =
                  <<ForShare(Member(Anchor(r))), ForShare(Run), ForShare(Source(Anchor(r)))>>
        OBVIOUS
      <3> PICK locks : locks = <<a, b, c>>
        OBVIOUS
      <3>1. Ask(r, "loading", locks) /\ tx[r] = Closed /\ run[r].pc = "load"
        BY <1>2, <2>2 DEF OpenLoad, Open, At
      <3>2. IsSeq(locks)
        BY DEF IsSeq
      <3> QED
        BY <1>1, <3>1, <3>2 DEF Doing
    <2> QED
      BY <2>1, <2>2
  <1>3. CASE OpenScan(r)
    <2>1. CASE Abort(r)
      BY <2>1, AbortStep
    <2>2. CASE ~Abort(r)
      <3> PICK a : a = ForShare(Member(Anchor(r)))
        OBVIOUS
      <3> PICK locks : locks = <<a>>
        OBVIOUS
      <3>1. Ask(r, "preflight", locks) /\ tx[r] = Closed /\ run[r].pc = "scan"
        BY <1>3, <2>2 DEF OpenScan, Open, At
      <3>2. IsSeq(locks)
        BY DEF IsSeq
      <3> QED
        BY <1>1, <3>1, <3>2 DEF Doing
    <2> QED
      BY <2>1, <2>2
  <1>4. CASE Preflight(r)
    <2>1. PICK locks : Ask(r, "scanning", locks)
      BY <1>4 DEF Preflight
    <2>2. Has(r, "preflight") /\ run[r].pc = "scan"
      BY <1>4, Where DEF Preflight, Has
    <2>3. "scanning" \notin RunLocked \union NamespaceLocked /\ "scanning" \notin Late
          /\ "scanning" \in Doing(run[r].pc)
      BY <2>2 DEF Late, Promoting, RunLocked, NamespaceLocked, Doing
    <2>4. LocksInv'
      BY <2>1, <2>2, <2>3, NextStep
    <2> QED
      BY <2>1, <2>4, AskShares
  <1> QED
    BY <1>2, <1>3, <1>4

\* A later statement of a transaction that has the run's row.
LEMMA LaterStep ==
    ASSUME WInv, NEW r \in Runners, NEW from, Has(r, from), NEW at, NEW locks, Ask(r, at, locks),
           \/ /\ from \in {"compare", "assign", "members", "counted"}
              /\ at \in {"insert", "assigned", "counted", "finalizing"}
           \/ from \in Promoting /\ at \in Promoting \ {"assignments"},
           at \in Doing(run[r].pc), IsSeq(locks),
           \A i \in 1 .. Len(locks) : locks[i].row \notin {Run, Namespace},
           at = "admitted" => Supported(r)
    PROVE  WInv' /\ NewEvidence
  <1>1. from \in RunLocked /\ (at \in NamespaceLocked => from \in NamespaceLocked)
    BY DEF RunLocked, NamespaceLocked, Promoting
  <1>2. at \notin {"assign", "members", "assignments", "closed", "inserted"}
    BY DEF Promoting
  <1>3. LocksInv'
    BY <1>1, <1>2, NextStep DEF WInv
  <1> QED
    BY <1>3, AskShares

LEMMA SelectSteps ==
    ASSUME WInv, NEW r \in Runners, SelectMembers(r) \/ SelectAssigned(r)
    PROVE  WInv' /\ NewEvidence
  <1> PICK S : S = Members(Anchor(r)) /\ S \in SUBSET Sources
    BY DEF Members
  <1>1. CASE SelectMembers(r)
    <2> PICK locks : locks = MembersForShare(S)
      OBVIOUS
    <2>1. Has(r, "members") /\ Ask(r, "counted", locks) /\ run[r].pc = "finalize"
      BY <1>1, Where DEF SelectMembers, Has
    <2>2. IsSeq(locks) /\ \A i \in 1 .. Len(locks) : locks[i].row \notin {Run, Namespace}
      BY RowLists, RowListRows
    <2>3. "counted" \in Doing(run[r].pc)
      BY <2>1 DEF Doing
    <2> QED
      BY <2>1, <2>2, <2>3, LaterStep
  <1>2. CASE SelectAssigned(r)
    <2> PICK locks : locks = MembersForUpdate(S)
      OBVIOUS
    <2>1. Has(r, "assignments") /\ Ask(r, "validate", locks)
      BY <1>2 DEF SelectAssigned
    <2>2. run[r].pc = "commit"
      BY <2>1, Where DEF Has, Promoting
    <2>3. IsSeq(locks) /\ \A i \in 1 .. Len(locks) : locks[i].row \notin {Run, Namespace}
      BY RowLists, RowListRows
    <2>4. "validate" \in Doing(run[r].pc) /\ {"assignments", "validate"} \subseteq Promoting
      BY <2>2 DEF Doing, Promoting
    <2> QED
      BY <2>1, <2>3, <2>4, LaterStep
  <1> QED
    BY <1>1, <1>2

LEMMA ValidateStep ==
    ASSUME WInv, NEW r \in Runners, Validate(r)
    PROVE  WInv' /\ NewEvidence
  <1> PICK S : S = ValidMembers(r) /\ S \in SUBSET Sources
    BY DEF ValidMembers, Members
  <1> PICK locks : locks = SourcesForShare(S)
    OBVIOUS
  <1>1. CASE Abort(r)
    BY <1>1, AbortStep
  <1>2. CASE Ask(r, "decide", locks)
    <2>1. Has(r, "validate") /\ run[r].pc = "commit"
      BY Where DEF Validate, Has, Promoting
    <2>2. IsSeq(locks) /\ \A i \in 1 .. Len(locks) : locks[i].row \notin {Run, Namespace}
      BY RowLists, RowListRows
    <2>3. "decide" \in Doing(run[r].pc) /\ {"validate", "decide"} \subseteq Promoting
      BY <2>1 DEF Doing, Promoting
    <2> QED
      BY <1>2, <2>1, <2>2, <2>3, LaterStep
  <1> QED
    BY <1>1, <1>2 DEF Validate

LEMMA DecideStep ==
    ASSUME WInv, NEW r \in Runners, Decide(r)
    PROVE  WInv' /\ NewEvidence
  <1>1. Has(r, "decide") /\ run[r].pc = "commit"
    BY Where DEF Decide, Has, Promoting
  <1>2. "decide" \in Promoting /\ \A at \in Promoting : at \in Doing(run[r].pc)
    BY <1>1 DEF Doing, Promoting
  <1>3. CASE Abort(r)
    BY <1>3, AbortStep
  <1>4. CASE Ask(r, "invalid", MembersForUpdate({s \in Sources : snap[s] # NoText}))
    <2> PICK S \in SUBSET Sources : S = {s \in Sources : snap[s] # NoText}
      OBVIOUS
    <2> PICK locks : locks = MembersForUpdate(S)
      OBVIOUS
    <2>1. Ask(r, "invalid", locks)
      BY <1>4
    <2>2. IsSeq(locks) /\ \A i \in 1 .. Len(locks) : locks[i].row \notin {Run, Namespace}
      BY RowLists, RowListRows
    <2>3. "invalid" \in Promoting
      BY DEF Promoting
    <2> QED
      BY <1>1, <1>2, <2>1, <2>2, <2>3, LaterStep
  <1>5. CASE Ask(r, "refused", <<>>)
    <2> PICK locks : locks = <<>>
      OBVIOUS
    <2>1. IsSeq(locks) /\ \A i \in 1 .. Len(locks) : locks[i].row \notin {Run, Namespace}
      BY DEF IsSeq
    <2>2. "refused" \in Promoting
      BY DEF Promoting
    <2> QED
      BY <1>1, <1>2, <1>5, <2>1, <2>2, LaterStep
  <1>6. CASE /\ ValidMembers(r) = Members(Anchor(r)) /\ run[r].provenance = ValidMembers(r)
             /\ Admitted(Object(r), ValidMembers(r))
             /\ Ask(r, "admitted", <<ForUpdate(Lifecycle)>>)
    <2> PICK locks : locks = <<ForUpdate(Lifecycle)>>
      OBVIOUS
    <2>1. IsSeq(locks) /\ \A i \in 1 .. Len(locks) : locks[i].row \notin {Run, Namespace}
      <3>1. IsSeq(locks) /\ Len(locks) = 1 /\ locks[1] = ForUpdate(Lifecycle)
        BY DEF IsSeq
      <3> QED
        BY <3>1, LockFields, RowsApart
    <2>2. "admitted" \in Promoting
      BY DEF Promoting
    <2>3. Supported(r)
      <3>1. run[r].provenance # {}
        BY <1>1 DEF WInv, SharedInv, RunsInv, Follows
      <3>2. PICK E \in SUBSET Sources : E = ValidMembers(r) /\ E # {}
        BY <1>6, <3>1 DEF Members
      <3>3. Max(E) \in E
        BY <3>2, MaxOf
      <3>4. live[Object(r)] = 0 /\ Max(E) > buried[Object(r)]
        BY <1>6, <3>2 DEF Admitted
      <3>5. Max(E) \in Members(Anchor(r)) /\ Intact(Max(E))
        BY <3>2, <3>3 DEF ValidMembers
      <3> QED
        BY <3>4, <3>5 DEF Supported
    <2>4. Ask(r, "admitted", locks)
      BY <1>6
    <2> QED
      BY <1>1, <1>2, <2>1, <2>2, <2>3, <2>4, LaterStep
  <1> QED
    BY <1>3, <1>4, <1>5, <1>6 DEF Decide

\* The statements of begin_or_resume before its commit.
LEMMA CompareStep ==
    ASSUME WInv, NEW r \in Runners, Compare(r)
    PROVE  WInv' /\ NewEvidence
  <1>1. Has(r, "compare") /\ run[r].pc = "off"
    BY Where DEF Compare, Has
  <1>2. CASE run' = [run EXCEPT ![r] = [pc |-> "begun"]] /\ End(r) /\ Unwritten
    <2>1. RunsInv' /\ OwnRun(r)
      BY <1>2, BeginRuns DEF WInv, SharedInv, RunsInv, OwnRun
    <2> QED
      BY <1>2, <2>1, OwnConns, UnwrittenStep
  <1>3. CASE Ask(r, "insert", MembersForUpdate({s \in Sources : snap[s] # NoText}))
    <2> PICK S \in SUBSET Sources : S = {s \in Sources : snap[s] # NoText}
      OBVIOUS
    <2> PICK locks : locks = MembersForUpdate(S)
      OBVIOUS
    <2>1. Ask(r, "insert", locks)
      BY <1>3
    <2>2. IsSeq(locks) /\ \A i \in 1 .. Len(locks) : locks[i].row \notin {Run, Namespace}
      BY RowLists, RowListRows
    <2>3. "insert" \in Doing(run[r].pc)
      BY <1>1 DEF Doing
    <2> QED
      BY <1>1, <2>1, <2>2, <2>3, LaterStep
  <1> QED
    BY <1>2, <1>3 DEF Compare

LEMMA NotedTx ==
    ASSUME Shaped, NEW c \in Conns, InsertSources(c)
    PROVE  tx' = [tx EXCEPT ![c] = Tx("inserted", <<ForKeyShare(Namespace)>>, tx[c].held,
                                      [s \in Sources |-> Current(s)])]
  <1>1. tx[c] = [at |-> tx[c].at, wants |-> tx[c].wants, held |-> tx[c].held, note |-> tx[c].note]
    BY DEF Shaped
  <1>2. PICK x, y, n, o :
            /\ x = "inserted" /\ y = <<ForKeyShare(Namespace)>> /\ n = [s \in Sources |-> Current(s)]
            /\ o = [[tx[c] EXCEPT !.at = x] EXCEPT !.wants = y]
            /\ tx' = [tx EXCEPT ![c] = [o EXCEPT !.note = n]]
    BY DEF InsertSources, Shaped
  <1>3. ASSUME NEW q, NEW a, NEW w, NEW h, NEW m, q = [at |-> a, wants |-> w, held |-> h, note |-> m]
        PROVE  [[q EXCEPT !.at = x] EXCEPT !.wants = y] = [at |-> x, wants |-> y, held |-> h, note |-> m]
    <2>1. [q EXCEPT !.at = x] = [at |-> x, wants |-> w, held |-> h, note |-> m]
      BY <1>3
    <2>2. ASSUME NEW p, p = [at |-> x, wants |-> w, held |-> h, note |-> m]
          PROVE  [p EXCEPT !.wants = y] = [at |-> x, wants |-> y, held |-> h, note |-> m]
      BY <2>2
    <2> QED
      BY <2>1, <2>2
  <1>4. [[tx[c] EXCEPT !.at = x] EXCEPT !.wants = y]
            = [at |-> x, wants |-> y, held |-> tx[c].held, note |-> tx[c].note]
    BY <1>1, <1>3
  <1>5. o = [at |-> x, wants |-> y, held |-> tx[c].held, note |-> tx[c].note]
    BY <1>2, <1>4, Zenon
  <1>6. [o EXCEPT !.note = n] = [at |-> x, wants |-> y, held |-> tx[c].held, note |-> n]
    BY <1>5
  <1>7. tx' = [tx EXCEPT ![c] = Tx(x, y, tx[c].held, n)]
    BY <1>2, <1>6, Zenon DEF Tx
  <1> QED
    BY <1>2, <1>7

LEMMA InsertStep ==
    ASSUME WInv, NEW r \in Runners, InsertSources(r)
    PROVE  WInv' /\ NewEvidence
  <1> PICK note : note = [s \in Sources |-> Current(s)]
    OBVIOUS
  <1> PICK locks : locks = <<ForKeyShare(Namespace)>>
    OBVIOUS
  <1> PICK held : held = tx[r].held
    OBVIOUS
  <1>1. Has(r, "insert") /\ run[r].pc = "off" /\ UNCHANGED vars
    BY Where DEF InsertSources, Has
  <1>2. r \in Conns /\ TxInv /\ tx[r].at = "insert"
    BY <1>1, OwnConns DEF WInv, LocksInv, Has
  <1>3. tx' = [tx EXCEPT ![r] = Tx("inserted", locks, held, note)]
    <2>1. tx' = [tx EXCEPT ![r] = Tx("inserted", <<ForKeyShare(Namespace)>>, tx[r].held,
                                     [s \in Sources |-> Current(s)])]
      BY <1>2, NotedTx DEF TxInv
    <2> QED
      BY <2>1
  <1>4. note \in [Sources -> Texts \union {NoText}]
    BY DEF WInv, SharedInv, RowsInv, Current
  <1> PICK t : t = Tx("inserted", locks, held, note)
    OBVIOUS
  <1>5. t.at = "inserted" /\ t.wants = locks /\ t.held = held
    BY TxFields
  <1>6. Asks(t) /\ Ordered(t)
    <2>1. ForUpdate(Run) \in held /\ IsSeq(locks)
      BY <1>1, <1>2, HasNeeded, ShortLists DEF RunLocked
    <2>2. "inserted" \notin NamespaceLocked /\ "inserted" \notin Late
          /\ "inserted" \notin {"closed", "assign", "members", "assignments"}
      BY DEF NamespaceLocked, Promoting, Late
    <2> QED
      BY <1>5, <2>1, <2>2 DEF Asks, Ordered, Needed
  <1>7. /\ \A d \in Conns \ {r} : \A k \in held, l \in tx[d].held : ~Conflicts(k, l)
        /\ Guarded(r) /\ OwnRun(r) /\ "inserted" \in Doing(run'[r].pc) /\ "inserted" # "admitted"
    BY <1>1, <1>2, Alone DEF Guarded, OwnRun, vars, Doing
  <1>8. LocksInv'
    <2> PICK at : at = "inserted"
      OBVIOUS
    <2>1. /\ tx' = [tx EXCEPT ![r] = Tx(at, locks, held, note)]
          /\ Asks(Tx(at, locks, held, note)) /\ Ordered(Tx(at, locks, held, note))
          /\ at \in Doing(run'[r].pc) /\ at # "admitted"
      BY <1>3, <1>6, <1>7
    <2> QED
      BY <1>2, <1>4, <1>7, <2>1, ConnectionStep DEF WInv
  <1> QED
    BY <1>1, <1>8, SameShares DEF WInv

LEMMA MatchedRuns ==
    ASSUME RunsInv, NEW r \in Runners, run[r].pc \in {"source", "match"}, NEW changed \in BOOLEAN,
           AfterMatch(r, changed)
    PROVE  RunsInv' /\ OwnRun(r)
  <1> DEFINE a == Anchor(r)
             rest == run[r].similar \ {Target(r)}
             pc == CASE rest # {} -> "match"
                     [] rest = {} /\ run[r].scanned # NoMore -> "scan"
                     [] OTHER -> "finalize"
             first == IF changed THEN "load" ELSE "checkpoint"
             exceeds == changed /\ Cardinality(Members(a) \union {Target(r)}) > MaxMembers
  <1>1. run[r] \in RunRecords /\ Follows(run[r]) /\ run[r].page # {}
    BY AnchorIs DEF InLoop
  <1>2. run' = [run EXCEPT ![r] =
                    IF run[r].pc = "source" THEN [run[r] EXCEPT !.pc = first]
                    ELSE IF exceeds THEN [run[r] EXCEPT !.pc = "exceeded"]
                    ELSE [run[r] EXCEPT !.similar = rest, !.pc = pc]]
    BY DEF AfterMatch
  <1>3. pc \in {"match", "scan", "finalize"} /\ (pc = "match" => rest # {})
        /\ first \in {"load", "checkpoint"} /\ rest \in SUBSET run[r].similar
    OBVIOUS
  <1> HIDE DEF a, rest, pc, first, exceeds
  <1>4. OwnRun(r)
    BY <1>2 DEF OwnRun, RunsInv
  <1>5. CASE run[r].pc = "source"
    <2> PICK q : q = [run[r] EXCEPT !.pc = first]
      OBVIOUS
    <2>1. run[r] \in Paging
      BY <1>1, <1>5, RunShapes
    <2>2. q \in Paging /\ q.pc = first /\ q.page = run[r].page
      BY <1>3, <2>1 DEF Paging
    <2>3. q \in RunRecords /\ Follows(q)
      BY <1>1, <1>3, <2>2 DEF RunRecords, Records, Follows, InLoop
    <2>4. run' = [run EXCEPT ![r] = q]
      BY <1>2, <1>5
    <2> QED
      BY <1>4, <2>3, <2>4, RunsStep
  <1>6. CASE run[r].pc = "match" /\ exceeds
    <2> PICK q : q = [run[r] EXCEPT !.pc = "exceeded"]
      OBVIOUS
    <2>1. run[r] \in Scanning
      BY <1>1, <1>6, RunShapes
    <2>2. q \in Exceeding /\ q.pc = "exceeded" /\ q.page = run[r].page
      BY <2>1 DEF Scanning, Exceeding
    <2>3. q \in RunRecords /\ Follows(q)
      BY <1>1, <2>2 DEF RunRecords, Follows, InLoop
    <2>4. run' = [run EXCEPT ![r] = q]
      BY <1>2, <1>6
    <2> QED
      BY <1>4, <2>3, <2>4, RunsStep
  <1>7. CASE run[r].pc = "match" /\ ~exceeds
    <2>1. run[r] \in Scanning
      BY <1>1, <1>7, RunShapes
    <2>2. run' = [run EXCEPT ![r] = [run[r] EXCEPT !.similar = rest, !.pc = pc]]
      BY <1>2, <1>7
    <2>3. pc \in {"match", "scan", "finalize", "checkpoint"}
      BY <1>3
    <2> QED
      BY <1>3, <1>4, <1>7, <2>1, <2>2, <2>3, ScanningRuns
  <1> QED
    BY <1>5, <1>6, <1>7

LEMMA UpdateStep ==
    ASSUME WInv, NEW r \in Runners, UpdateMember(r)
    PROVE  WInv' /\ NewEvidence
  <1>1. Has(r, "assign") /\ run[r].pc \in {"source", "match"}
    BY Where DEF UpdateMember, Has
  <1>2. CASE AfterMatch(r, FALSE) /\ End(r) /\ Unwritten
    <2>1. RunsInv' /\ OwnRun(r)
      BY <1>1, <1>2, MatchedRuns DEF WInv, SharedInv
    <2> QED
      BY <1>2, <2>1, OwnConns, UnwrittenStep
  <1>3. CASE Ask(r, "assigned", <<ForUpdate(Member(Target(r)))>>)
    <2> PICK m : m = Target(r)
      OBVIOUS
    <2> PICK locks : locks = <<ForUpdate(Member(m))>>
      OBVIOUS
    <2>1. Ask(r, "assigned", locks)
      BY <1>3
    <2>2. IsSeq(locks) /\ \A i \in 1 .. Len(locks) : locks[i].row \notin {Run, Namespace}
      <3>1. IsSeq(locks) /\ Len(locks) = 1 /\ locks[1] = ForUpdate(Member(m))
        BY DEF IsSeq
      <3> QED
        BY <3>1, LockFields, RowsApart
    <2>3. "assigned" \in Doing(run[r].pc)
      BY <1>1 DEF Doing
    <2> QED
      BY <1>1, <2>1, <2>2, <2>3, LaterStep
  <1> QED
    BY <1>2, <1>3 DEF UpdateMember

LEMMA CommitMatchStep ==
    ASSUME WInv, NEW r \in Runners, CommitMatch(r)
    PROVE  WInv' /\ NewEvidence
  <1> PICK a, m : a = Anchor(r) /\ m = Target(r)
    OBVIOUS
  <1>1. Has(r, "assigned") /\ run[r].pc \in {"source", "match"}
    BY Where DEF CommitMatch, Has
  <1>2. RunsInv' /\ OwnRun(r)
    BY <1>1, MatchedRuns DEF CommitMatch, WInv, SharedInv
  <1>3. a \in Sources /\ a = Min(run[r].page) /\ run[r] \in RunRecords /\ Follows(run[r])
    BY <1>1, AnchorIs DEF InLoop, WInv, SharedInv
  <1>4. m \in Sources /\ EntityOf[m] = EntityOf[a]
    <2>1. CASE run[r].pc = "source"
      BY <1>3, <2>1 DEF Target, At
    <2>2. CASE run[r].pc = "match"
      <3>1. run[r].similar \in SUBSET Sources /\ run[r].similar # {}
        BY <1>3, <2>2, RunShapes DEF Follows, Scanning
      <3>2. m = Min(run[r].similar) /\ m \in run[r].similar
        BY <2>2, <3>1, MinOf DEF Target, At
      <3> QED
        BY <1>3, <2>2, <3>1, <3>2 DEF Follows
    <2> QED
      BY <1>1, <2>1, <2>2
  <1>5. /\ state' = [state EXCEPT ![m] = "tentative"] /\ anchor' = [anchor EXCEPT ![m] = a]
        /\ text' = text /\ snap' = snap /\ cursor' = cursor /\ live' = live /\ buried' = buried
        /\ End(r)
    BY DEF CommitMatch, sourceVars, semanticVars
  <1>6. RowsInv'
    <2>1. cursor' \in 0 .. N
      BY <1>5 DEF WInv, SharedInv, RowsInv
    <2> QED
      BY <1>3, <1>4, <1>5, <2>1, AssignRows DEF WInv, SharedInv
  <1>7. FactsInv' /\ NewEvidence
    BY <1>5, FactsStay DEF WInv, SharedInv
  <1>8. LocksInv'
    <2>1. ForUpdate(Run) \in tx[r].held
      BY <1>1, OwnConns, HasNeeded DEF WInv, LocksInv, RunLocked
    <2> QED
      BY <1>2, <1>5, <2>1, OwnConns, EndStep DEF WInv, Guarded
  <1> QED
    BY <1>2, <1>6, <1>7, <1>8 DEF WInv, SharedInv

LEMMA LoadAndScanStep ==
    ASSUME WInv, NEW r \in Runners, CommitLoad(r) \/ CommitScan(r)
    PROVE  WInv' /\ NewEvidence
  <1>1. End(r) /\ Unwritten
    BY DEF CommitLoad, CommitScan, LoadAnchor, ScanCandidates, Fail, Unwritten
  <1>2. RunsInv'
    BY LoadRuns, ScanRuns DEF CommitLoad, CommitScan, WInv, SharedInv
  <1>3. OwnRun(r)
    BY DEF CommitLoad, CommitScan, LoadAnchor, ScanCandidates, Fail, Return, OwnRun, WInv, SharedInv, RunsInv
  <1> QED
    BY <1>1, <1>2, <1>3, OwnConns, UnwrittenStep

LEMMA CountStep ==
    ASSUME WInv, NEW r \in Runners, CountMembers(r)
    PROVE  WInv' /\ NewEvidence
  <1> PICK a : a = Anchor(r)
    OBVIOUS
  <1>1. Has(r, "counted") /\ run[r].pc = "finalize"
    BY Where DEF CountMembers, Has
  <1>2. "finalizing" \in Doing(run[r].pc)
    BY <1>1 DEF Doing
  <1>3. ASSUME NEW locks, Ask(r, "finalizing", locks), IsSeq(locks),
               \A i \in 1 .. Len(locks) : locks[i].row \notin {Run, Namespace}
        PROVE  WInv' /\ NewEvidence
    BY <1>1, <1>2, <1>3, LaterStep
  <1>4. CASE Abort(r)
    BY <1>4, AbortStep
  <1>5. CASE run' = [run EXCEPT ![r].pc = "exceeded"] /\ End(r) /\ Unwritten
    <2> PICK q : q = [run[r] EXCEPT !.pc = "exceeded"]
      OBVIOUS
    <2>1. run[r] \in Scanning /\ run[r].page # {}
      BY <1>1, AnchorIs, RunShapes DEF WInv, SharedInv, InLoop
    <2>2. q \in Exceeding /\ q.pc = "exceeded" /\ q.page = run[r].page
      BY <2>1 DEF Scanning, Exceeding
    <2>3. q \in RunRecords /\ Follows(q)
      BY <2>1, <2>2 DEF RunRecords, Follows, InLoop
    <2>4. run' = [run EXCEPT ![r] = q]
      BY <1>5
    <2>5. RunsInv' /\ OwnRun(r)
      BY <2>3, <2>4, RunsStep DEF WInv, SharedInv, OwnRun
    <2> QED
      BY <1>5, <2>5, OwnConns, UnwrittenStep
  <1>6. CASE Ask(r, "finalizing", MembersForUpdate({a} \cap {s \in Sources : snap[s] # NoText}))
    <2> PICK S \in SUBSET Sources : S = {a} \cap {s \in Sources : snap[s] # NoText}
      OBVIOUS
    <2> PICK locks : locks = MembersForUpdate(S)
      OBVIOUS
    <2>1. Ask(r, "finalizing", locks)
      BY <1>6
    <2>2. IsSeq(locks) /\ \A i \in 1 .. Len(locks) : locks[i].row \notin {Run, Namespace}
      BY RowLists, RowListRows
    <2> QED
      BY <1>3, <2>1, <2>2
  <1>7. CASE Ask(r, "finalizing", <<ForShare(Source(Max(Present(r))))>> \o MembersForUpdate(Members(a)))
    <2> PICK S \in SUBSET Sources : S = Members(a)
      BY DEF Members
    <2> PICK k, w : k = ForShare(Source(Max(Present(r)))) /\ w = MembersForUpdate(S)
      OBVIOUS
    <2> PICK locks : locks = <<k>> \o w
      OBVIOUS
    <2>1. Ask(r, "finalizing", locks)
      BY <1>7
    <2>2. IsSeq(w) /\ \A i \in 1 .. Len(w) : w[i].row \notin {Run, Namespace}
      BY RowLists, RowListRows
    <2>3. k.row \notin {Run, Namespace}
      BY LockFields, RowsApart
    <2>4. IsSeq(locks) /\ \A i \in 1 .. Len(locks) : locks[i].row \notin {Run, Namespace}
      <3>1. IsSeq(locks) /\ \A i \in 1 .. Len(locks) :
                locks[i] = k \/ \E j \in 1 .. Len(w) : locks[i] = w[j]
        BY <2>2, ListAfter
      <3> QED
        BY <2>2, <2>3, <3>1
    <2> QED
      BY <1>3, <2>1, <2>4
  <1> QED
    BY <1>4, <1>5, <1>6, <1>7 DEF CountMembers

LEMMA CommitFinalizeStep ==
    ASSUME WInv, NEW r \in Runners, CommitFinalize(r)
    PROVE  WInv' /\ NewEvidence
  <1>1. Has(r, "finalizing") /\ Finalize(r) /\ End(r)
    BY DEF CommitFinalize
  <1>2. RunsInv' /\ RowsInv'
    BY <1>1, FinalizeRuns DEF WInv, SharedInv
  <1>3. OwnRun(r)
    BY <1>1 DEF Finalize, Incomplete, Return, OwnRun, WInv, SharedInv, RunsInv
  <1>4. FactsInv' /\ NewEvidence
    BY <1>1, FactsStay DEF Finalize, semanticVars, WInv, SharedInv
  <1>5. LocksInv'
    <2>1. ForUpdate(Run) \in tx[r].held
      BY <1>1, OwnConns, HasNeeded DEF WInv, LocksInv, RunLocked
    <2> QED
      BY <1>1, <1>3, <2>1, OwnConns, EndStep DEF WInv, Guarded
  <1> QED
    BY <1>2, <1>4, <1>5 DEF WInv, SharedInv

LEMMA CommitBeginStep ==
    ASSUME WInv, NEW r \in Runners, CommitBegin(r)
    PROVE  WInv' /\ NewEvidence
  <1>1. Has(r, "inserted") /\ End(r) /\ tx[r].at = "inserted"
    BY DEF CommitBegin, Has
  <1>2. RunsInv' /\ OwnRun(r)
    BY BeginRuns DEF CommitBegin, OwnRun, WInv, SharedInv, RunsInv
  <1>3. RowsInv'
    <2>1. snap' \in [Sources -> Texts \union {NoText}] /\ text' = text
      BY <1>1 DEF CommitBegin, WInv, LocksInv, Noted, sourceVars
    <2>2. state' \in [Sources -> States] /\ anchor' \in [Sources -> 0 .. N] /\ cursor' \in 0 .. N
          /\ \A s \in Sources : anchor'[s] = 0
      BY Numbers DEF CommitBegin, States
    <2> QED
      BY <2>1, <2>2 DEF RowsInv, Kindred, WInv, SharedInv
  <1>4. FactsInv' /\ NewEvidence
    BY FactsStay DEF CommitBegin, semanticVars, WInv, SharedInv
  <1>5. LocksInv'
    <2>1. ForUpdate(Run) \in tx[r].held
      BY <1>1, OwnConns, HasNeeded DEF WInv, LocksInv, RunLocked
    <2> QED
      BY <1>1, <1>2, <2>1, OwnConns, EndStep DEF WInv, Guarded
  <1> QED
    BY <1>2, <1>3, <1>4, <1>5 DEF WInv, SharedInv

LEMMA CommitInvalidStep ==
    ASSUME WInv, NEW r \in Runners, CommitInvalid(r)
    PROVE  WInv' /\ NewEvidence
  <1>1. Has(r, "invalid") /\ End(r) /\ Rebuild /\ Return(r)
        /\ text' = text /\ live' = live /\ buried' = buried
    BY DEF CommitInvalid, sourceVars, semanticVars
  <1>2. RunsInv' /\ OwnRun(r)
    BY <1>1, ReturnOwn DEF WInv, SharedInv
  <1>3. RowsInv'
    BY <1>1, RebuildRows DEF WInv, SharedInv
  <1>4. FactsInv' /\ NewEvidence
    BY <1>1, FactsStay DEF WInv, SharedInv
  <1>5. LocksInv'
    <2>1. ForUpdate(Run) \in tx[r].held
      BY <1>1, OwnConns, HasNeeded DEF WInv, LocksInv, RunLocked, Promoting
    <2> QED
      BY <1>1, <1>2, <2>1, OwnConns, EndStep DEF WInv, Guarded
  <1> QED
    BY <1>2, <1>3, <1>4, <1>5 DEF WInv, SharedInv

\* What was decided still holds when it is committed.
LEMMA CommitPromotedStep ==
    ASSUME WInv, NEW r \in Runners, CommitPromoted(r)
    PROVE  WInv' /\ NewEvidence
  <1> PICK a, p : a = Anchor(r) /\ p = Object(r)
    OBVIOUS
  <1>1. tx[r].at \in {"admitted", "refused"} /\ run[r].pc = "commit"
    BY Where DEF CommitPromoted, Has, Promoting
  <1>2. a \in Sources /\ p[1] = EntityOf[a]
    BY <1>1, AnchorIs DEF InLoop, WInv, SharedInv, Object
  <1>3. /\ End(r) /\ text' = text /\ snap' = snap /\ anchor' = anchor /\ cursor' = cursor
        /\ buried' = buried
        /\ state' = [s \in Sources |-> IF s \in Members(a) THEN "promoted" ELSE state[s]]
        /\ run' = [run EXCEPT ![r] =
               [pc |-> "checkpoint", after |-> @.after, cursor |-> @.cursor, page |-> @.page]]
    BY DEF CommitPromoted, sourceVars
  <1>4. RunsInv' /\ OwnRun(r)
    BY <1>1, <1>3, PromotedRuns DEF WInv, SharedInv, OwnRun, RunsInv
  <1>5. RowsInv'
    <2>1. state' \in [Sources -> States]
      BY <1>3 DEF RowsInv, States, WInv, SharedInv
    <2> QED
      BY <1>3, <2>1 DEF RowsInv, Kindred, WInv, SharedInv
  <1>6. FactsInv' /\ NewEvidence
    <2>1. CASE Has(r, "admitted")
      <3>1. Supported(r)
        BY <2>1 DEF Has, WInv, LocksInv, Ready
      <3>2. p \in Entities \X Texts => live[p] = 0 /\ \E s \in Members(a) : s > buried[p] /\ Intact(s)
        BY <3>1 DEF Supported
      <3>3. live' = [live EXCEPT ![p] = @ + 1]
        BY <2>1 DEF CommitPromoted
      <3> QED
        BY <1>2, <1>3, <3>2, <3>3, PromotionStep DEF WInv, SharedInv
    <2>2. CASE ~Has(r, "admitted")
      BY <1>3, <2>2, FactsStay DEF CommitPromoted, WInv, SharedInv
    <2> QED
      BY <2>1, <2>2
  <1>7. LocksInv'
    <2>1. ForUpdate(Run) \in tx[r].held
      BY <1>1, OwnConns, HasNeeded DEF CommitPromoted, WInv, LocksInv, RunLocked, Promoting
    <2> QED
      BY <1>3, <1>4, <2>1, OwnConns, EndStep DEF WInv, Guarded
  <1> QED
    BY <1>4, <1>5, <1>6, <1>7 DEF WInv, SharedInv

\* A single statement, or a read outside a transaction.
LEMMA IdleStep ==
    ASSUME WInv, NEW r \in Runners, tx[r] = Closed, tx' = tx,
           UNCHANGED <<text, retired, snap, state, anchor, live, buried>>, cursor' \in 0 .. N,
           RunsInv', OwnRun(r)
    PROVE  WInv' /\ NewEvidence
  <1>1. End(r)
    BY OwnConns DEF End, WInv, LocksInv, TxInv, Shaped
  <1>2. LocksInv'
    BY <1>1, OwnConns, EndStep DEF WInv, Guarded
  <1>3. RowsInv'
    BY RowsStay DEF WInv, SharedInv, RowsInv
  <1>4. FactsInv' /\ NewEvidence
    BY FactsStay DEF WInv, SharedInv
  <1> QED
    BY <1>2, <1>3, <1>4 DEF WInv, SharedInv

LEMMA PageSteps ==
    ASSUME WInv, NEW r \in Runners, ReadStored(r) \/ PageSources(r)
    PROVE  WInv' /\ NewEvidence
  <1>1. /\ tx[r] = Closed /\ tx' = tx
        /\ UNCHANGED <<text, retired, snap, state, anchor, live, buried>>
        /\ cursor' = cursor
    BY DEF ReadStored, PageSources, Open, NextPage, Unwritten, sourceVars, workspaceVars, semanticVars
  <1>2. OwnRun(r)
    BY DEF ReadStored, PageSources, NextPage, OwnRun, WInv, SharedInv, RunsInv
  <1>3. RunsInv'
    <2>1. CASE ReadStored(r)
      <3> PICK q : q = [run[r] EXCEPT !.after = cursor]
        OBVIOUS
      <3>1. run[r] \in Paging /\ run[r].pc = "paging"
        BY <2>1, RunShapes DEF ReadStored, Open, At, WInv, SharedInv, RunsInv
      <3>2. cursor \in -1 .. NoMore
        BY Numbers DEF WInv, SharedInv, RowsInv, NoMore
      <3>3. q \in Paging /\ q.pc = "paging"
        BY <3>1, <3>2 DEF Paging
      <3>4. q \in RunRecords /\ Follows(q)
        BY <3>3 DEF RunRecords, Records, Follows, InLoop
      <3>5. run' = [run EXCEPT ![r] = q]
        BY <2>1 DEF ReadStored
      <3> QED
        BY <3>4, <3>5, RunsStep DEF WInv, SharedInv
    <2>2. CASE PageSources(r)
      BY <2>2, PageRuns DEF PageSources, WInv, SharedInv
    <2> QED
      BY <2>1, <2>2
  <1>4. cursor' \in 0 .. N
    BY <1>1 DEF WInv, SharedInv, RowsInv
  <1> QED
    BY <1>1, <1>2, <1>3, <1>4, IdleStep

LEMMA OutsideStep ==
    ASSUME WInv, NEW r \in Runners, Outside(r)
    PROVE  WInv' /\ NewEvidence
  <1>1. tx[r] = Closed /\ tx' = tx
    BY DEF Outside
  <1>2. UNCHANGED <<text, retired, snap, state, anchor, live, buried>>
    BY DEF Outside, ReadCursor, Checkpoint, Complete, sourceVars, workspaceVars, semanticVars
  <1>3. OwnRun(r)
    BY DEF Outside, ReadCursor, Checkpoint, Complete, Incomplete, Return, OwnRun, WInv, SharedInv, RunsInv
  <1>4. RunsInv' /\ cursor' \in 0 .. N
    <2>1. CASE ReadCursor(r) \/ Complete(r)
      <3>1. RunsInv'
        BY <2>1, ReadRuns, ReturnRuns DEF WInv, SharedInv, Complete
      <3> QED
        BY <2>1, <3>1 DEF ReadCursor, Complete, workspaceVars, WInv, SharedInv, RowsInv
    <2>2. CASE Checkpoint(r)
      <3>1. RunsInv' /\ RowsInv'
        BY <2>2, CheckpointRuns DEF WInv, SharedInv
      <3> QED
        BY <3>1 DEF RowsInv
    <2>3. CASE At(r, "exceeded") /\ Incomplete(r)
      <3>1. run[r].cursor \in 0 .. N
        BY <2>3, AnchorIs DEF At, WInv, SharedInv
      <3> QED
        BY <2>3, <3>1, ReturnRuns DEF Incomplete, WInv, SharedInv
    <2> QED
      BY <2>1, <2>2, <2>3 DEF Outside
  <1> QED
    BY <1>1, <1>2, <1>3, <1>4, IdleStep

LEMMA StopStep ==
    ASSUME WInv, NEW r \in Runners, StopRun(r)
    PROVE  WInv' /\ NewEvidence
  <1>1. /\ End(r) /\ Return(r) /\ run[r].pc \notin {"off", "begun"}
        /\ text' = text /\ retired' = retired /\ snap' = snap /\ state' = state /\ anchor' = anchor
        /\ live' = live /\ buried' = buried
        /\ cursor' = cursor \/ cursor' = run[r].cursor
    BY DEF StopRun, Incomplete, sourceVars, semanticVars
  <1>2. cursor' \in 0 .. N
    BY <1>1, RunShapes DEF WInv, SharedInv, RunsInv, RowsInv
  <1>3. RunsInv' /\ OwnRun(r)
    BY <1>1, ReturnOwn DEF WInv, SharedInv
  <1>4. RowsInv'
    BY <1>1, <1>2, RowsStay DEF WInv, SharedInv, RowsInv
  <1>5. FactsInv' /\ NewEvidence
    BY <1>1, FactsStay DEF WInv, SharedInv
  <1>6. LocksInv'
    BY <1>1, <1>3, OwnConns, EndStep DEF WInv, Guarded
  <1> QED
    BY <1>3, <1>4, <1>5, <1>6 DEF WInv, SharedInv

LEMMA DeadlockStep ==
    ASSUME WInv, NEW c \in Conns, DetectDeadlock(c)
    PROVE  WInv' /\ NewEvidence
  <1>1. RunsInv' /\ OwnRun(c)
    <2>1. CASE c \in Runners
      BY <2>1, ReturnOwn DEF DetectDeadlock, Return, WInv, SharedInv
    <2>2. CASE c \notin Runners
      BY <2>2 DEF DetectDeadlock, OwnRun, WInv, SharedInv, RunsInv, Follows
    <2> QED
      BY <2>1, <2>2
  <1> QED
    BY <1>1, UnwrittenStep DEF DetectDeadlock

-----------------------------------------------------------------------------
(* Writers, and any step                                                   *)

LEMMA OpenWriteStep ==
    ASSUME WInv, OwnConnections, NEW w \in Writers, OpenWrite(w)
    PROVE  WInv' /\ NewEvidence
  <1>1. /\ UNCHANGED <<text, retired, snap, state, anchor, cursor, live, buried, run>>
        /\ tx[w] = Closed
    BY DEF OpenWrite, sourceVars, workspaceVars, semanticVars
  <1>2. w \in Conns /\ w \notin Runners /\ TxInv
    BY DEF Conns, OwnConnections, WInv, LocksInv
  <1>3. RowsInv' /\ RunsInv'
    BY <1>1, RowsStay DEF WInv, SharedInv, RowsInv, RunsInv, Follows
  <1>4. FactsInv' /\ NewEvidence
    BY <1>1, FactsStay DEF WInv, SharedInv
  <1>5. ASSUME NEW at \in {"save", "retire", "fact"}, NEW locks, NEW note,
               tx' = [tx EXCEPT ![w] = Tx(at, locks, {}, note)],
               IsSeq(locks), \E i \in 1 .. Len(locks) : locks[i] = ForUpdate(Namespace)
        PROVE  LocksInv'
    <2> PICK t : t = Tx(at, locks, {}, note)
      OBVIOUS
    <2> PICK held : held = {}
      OBVIOUS
    <2>1. t.at = at /\ t.wants = locks /\ t.held = held
      BY TxFields
    <2>2. at \notin RunLocked /\ at \notin Late /\ at \notin {"closed", "assign", "members", "assignments"}
      BY <1>5 DEF RunLocked, Late, Promoting
    <2>3. Asks(t) /\ Ordered(t)
      BY <1>5, <2>1, <2>2 DEF Asks, Ordered, Needed
    <2>4. \A d \in Conns \ {w} : \A k \in held, l \in tx[d].held : ~Conflicts(k, l)
      OBVIOUS
    <2>5. Guarded(w) /\ OwnRun(w)
      BY <1>1 DEF Guarded, OwnRun
    <2> QED
      BY <1>2, <1>5, <2>3, <2>4, <2>5, ConnectionStep DEF WInv
  <1>6. LocksInv'
    <2>1. ASSUME NEW s \in Sources,
                 tx' = [tx EXCEPT ![w] = [at |-> "save", held |-> {}, note |-> <<s>>,
                     wants |-> <<ForUpdate(Namespace), ForUpdate(Lifecycle), ForUpdate(Source(s))>>]]
          PROVE  LocksInv'
      <3> PICK a, b, c : a = ForUpdate(Namespace) /\ b = ForUpdate(Lifecycle) /\ c = ForUpdate(Source(s))
        OBVIOUS
      <3> PICK locks : locks = <<a, b, c>>
        OBVIOUS
      <3>1. IsSeq(locks) /\ Len(locks) = 3 /\ locks[1] = a
        BY DEF IsSeq
      <3>2. tx' = [tx EXCEPT ![w] = Tx("save", locks, {}, <<s>>)]
        BY <2>1 DEF Tx
      <3>3. \E i \in 1 .. Len(locks) : locks[i] = ForUpdate(Namespace)
        BY <3>1
      <3> QED
        BY <1>5, <3>1, <3>2, <3>3
    <2>2. ASSUME NEW s \in Sources,
                 tx' = [tx EXCEPT ![w] = [at |-> "retire", held |-> {}, note |-> <<s>>,
                     wants |-> <<ForUpdate(Namespace), ForUpdate(Source(s))>>]]
          PROVE  LocksInv'
      <3> PICK a, b : a = ForUpdate(Namespace) /\ b = ForUpdate(Source(s))
        OBVIOUS
      <3> PICK locks : locks = <<a, b>>
        OBVIOUS
      <3>1. IsSeq(locks) /\ \E i \in 1 .. Len(locks) : locks[i] = a
        BY ListHas
      <3>2. tx' = [tx EXCEPT ![w] = Tx("retire", locks, {}, <<s>>)]
        BY <2>2 DEF Tx
      <3> QED
        BY <1>5, <3>1, <3>2
    <2>3. ASSUME tx' = [tx EXCEPT ![w].at = "fact", ![w].wants = <<ForUpdate(Namespace)>>]
          PROVE  LocksInv'
      <3> PICK at, a : at = "fact" /\ a = ForUpdate(Namespace)
        OBVIOUS
      <3> PICK locks : locks = <<a>>
        OBVIOUS
      <3>1. IsSeq(locks) /\ \E i \in 1 .. Len(locks) : locks[i] = a
        BY ListHas
      <3>2. tx' = [tx EXCEPT ![w] = Tx(at, locks, tx[w].held, tx[w].note)]
        <4>1. tx' = [tx EXCEPT ![w].at = at, ![w].wants = locks]
          BY <2>3
        <4> QED
          BY <1>2, <4>1, AskedTx DEF TxInv
      <3>3. tx[w].held = {} /\ tx[w].note = <<>>
        BY <1>1 DEF Closed
      <3>4. at \in {"save", "retire", "fact"}
        OBVIOUS
      <3> QED
        BY <1>5, <3>1, <3>2, <3>3, <3>4
    <2> QED
      BY <2>1, <2>2, <2>3 DEF OpenWrite
  <1> QED
    BY <1>3, <1>4, <1>6 DEF WInv, SharedInv

LEMMA CommitWriteStep ==
    ASSUME WInv, NEW w \in Writers, CommitWrite(w)
    PROVE  WInv' /\ NewEvidence
  <1>1. PICK at \in {"save", "retire", "fact"} : Has(w, at)
    BY DEF CommitWrite
  <1>2. w \in Conns /\ End(w)
    BY DEF Conns, CommitWrite
  <1>3. ForUpdate(Namespace) \in tx[w].held
    BY <1>1, <1>2, HasNeeded DEF WInv, LocksInv, NamespaceLocked
  <1>4. /\ snap' = snap /\ state' = state /\ anchor' = anchor /\ cursor' = cursor /\ run' = run
        /\ text' \in [Sources -> Texts \union {NoText}]
    BY DEF CommitWrite, WriteSource, RetireSource, DeleteSource, SourceWrite, SupersedePromotion,
           ForgetPromotion, sourceVars, workspaceVars, WInv, SharedInv, RowsInv
  <1>5. RowsInv' /\ RunsInv' /\ OwnRun(w)
    BY <1>4, RowsStay DEF WInv, SharedInv, RowsInv, RunsInv, Follows, OwnRun
  <1>6. FactsInv' /\ NewEvidence
    <2>1. CASE \E p \in Entities \X Texts : SupersedePromotion(p) \/ ForgetPromotion(p)
      BY <2>1, FactStep DEF WInv, SharedInv
    <2>2. CASE UNCHANGED semanticVars
      BY <2>2, FactsStay DEF WInv, SharedInv, semanticVars
    <2> QED
      BY <2>1, <2>2 DEF CommitWrite, WriteSource, RetireSource, DeleteSource, SourceWrite
  <1>7. LocksInv'
    BY <1>2, <1>3, <1>5, EndStep DEF WInv, Guarded
  <1> QED
    BY <1>5, <1>6, <1>7 DEF WInv, SharedInv

LEMMA RollBackStep ==
    ASSUME WInv, NEW w \in Writers, RollBackWrite(w)
    PROVE  WInv' /\ NewEvidence
  <1>1. w \in Conns /\ run' = run /\ End(w) /\ Unwritten
    BY DEF Conns, RollBackWrite
  <1>2. RunsInv' /\ OwnRun(w)
    BY <1>1 DEF WInv, SharedInv, RunsInv, Follows, OwnRun
  <1> QED
    BY <1>1, <1>2, UnwrittenStep

LEMMA WStep == WInv /\ OwnConnections /\ [WNext]_wvars => WInv' /\ NewEvidence
  <1> SUFFICES ASSUME WInv, OwnConnections, [WNext]_wvars PROVE WInv' /\ NewEvidence
    OBVIOUS
  <1>1. ASSUME NEW c \in Conns, Lock(c) PROVE WInv' /\ NewEvidence
    BY <1>1, LockStep, SameShares DEF Lock, WInv
  <1>2. ASSUME NEW r \in Runners,
               \/ OpenBegin(r) \/ Compare(r) \/ InsertSources(r) \/ CommitBegin(r)
               \/ ReadStored(r) \/ PageSources(r)
               \/ OpenMatch(r) \/ UpdateMember(r) \/ CommitMatch(r)
        PROVE  WInv' /\ NewEvidence
    BY <1>2, OpenSteps, CompareStep, InsertStep, CommitBeginStep, PageSteps, UpdateStep, CommitMatchStep
  <1>3. ASSUME NEW r \in Runners,
               \/ OpenLoad(r) \/ CommitLoad(r) \/ OpenScan(r) \/ Preflight(r) \/ CommitScan(r)
               \/ OpenFinalize(r) \/ SelectMembers(r) \/ CountMembers(r) \/ CommitFinalize(r)
        PROVE  WInv' /\ NewEvidence
    BY <1>3, LoadAndScanOpen, LoadAndScanStep, OpenSteps, SelectSteps, CountStep, CommitFinalizeStep
  <1>4. ASSUME NEW r \in Runners,
               \/ OpenPromotion(r) \/ SelectAssigned(r) \/ Validate(r) \/ Decide(r)
               \/ CommitInvalid(r) \/ CommitPromoted(r) \/ Outside(r) \/ StopRun(r)
        PROVE  WInv' /\ NewEvidence
    BY <1>4, OpenSteps, SelectSteps, ValidateStep, DecideStep, CommitInvalidStep, CommitPromotedStep,
       OutsideStep, StopStep
  <1>5. ASSUME NEW w \in Writers, OpenWrite(w) \/ CommitWrite(w) \/ RollBackWrite(w)
        PROVE  WInv' /\ NewEvidence
    BY <1>5, OpenWriteStep, CommitWriteStep, RollBackStep
  <1>6. CASE UNCHANGED wvars
    <2>1. UNCHANGED vars /\ tx' = tx
      BY <1>6 DEF wvars
    <2>2. SharedInv' /\ NewEvidence
      BY <2>1, SameShares DEF WInv
    <2>3. LocksInv'
      <3>1. TxInv'
        <4>1. TxInv
          BY DEF WInv, LocksInv
        <4>2. Shaped' /\ Exclusive'
          BY <2>1, <4>1 DEF TxInv, Shaped, Exclusive
        <4>3. ASSUME NEW c \in Conns PROVE Asks(tx[c])' /\ Ordered(tx[c])'
          <5>1. Asks(tx[c]) /\ Ordered(tx[c])
            BY <4>1 DEF TxInv
          <5> QED
            BY <2>1, <5>1, Zenon DEF Asks, Ordered
        <4> QED
          BY <4>2, <4>3 DEF TxInv
      <3>2. ASSUME NEW r \in Runners PROVE InStep(r)' /\ Noted(r)' /\ Ready(r)'
        <4>1. Supported(r) => Supported(r)'
          BY <2>1 DEF vars, Supported, Object, Anchor, Members, Intact, Current
        <4>2. InStep(r) /\ Noted(r) /\ Ready(r) /\ run' = run
          BY <2>1 DEF vars, WInv, LocksInv
        <4> QED
          BY <2>1, <4>1, <4>2 DEF InStep, Noted, Ready
      <3> QED
        BY <3>1, <3>2 DEF LocksInv
    <2> QED
      BY <2>2, <2>3 DEF WInv
  <1> QED
    BY <1>1, <1>2, <1>3, <1>4, <1>5, <1>6, DeadlockStep DEF WNext

LEMMA WStarts == WInit => WInv
  <1> SUFFICES ASSUME WInit PROVE WInv
    OBVIOUS
  <1>1. SharedInv
    BY SharedStarts DEF WInit
  <1>2. \A c \in Conns : tx[c].at = "closed" /\ tx[c].wants = <<>> /\ tx[c].held = {}
    BY DEF WInit, Closed
  <1>3. Shaped
    BY DEF WInit, Closed, Shaped
  <1>4. Exclusive
    BY <1>2 DEF Exclusive
  <1>5. \A c \in Conns : Asks(tx[c]) /\ Ordered(tx[c])
    BY <1>2 DEF Asks, Ordered, RunLocked, NamespaceLocked, Late, Promoting
  <1>6. \A r \in Runners : InStep(r) /\ Noted(r) /\ Ready(r)
    BY <1>2, OwnConns DEF InStep, Noted, Ready
  <1> QED
    BY <1>1, <1>3, <1>4, <1>5, <1>6 DEF WInv, LocksInv, TxInv

\* Where everybody is one of the transactions that change a cluster, somebody
\* does not wait for another one of them.
LEMMA Serialized == WInv => MutationsSerialize
  <1> SUFFICES ASSUME WInv, NEW T, T # {}, \A c \in T : WaitsFor(c) \cap T # {},
                      \A c \in T : c \in Runners /\ run[c].pc \in {"source", "match", "finalize", "commit"}
               PROVE  FALSE
    BY DEF MutationsSerialize, Circle
  <1>1. ASSUME NEW c \in T
        PROVE  \E d \in T : d # c /\ \E k \in tx[d].held : k.row = Head(tx[c].wants).row
    BY DEF WaitsFor, HoldersOf, Conflicts
  <1> DEFINE Empty(c) == tx[c].held = {}
             Waiting(c) == tx[c].wants = <<ForUpdate(Run)>> /\ tx[c].held = {ForUpdate(Namespace)}
             Having(c) == ForUpdate(Run) \in tx[c].held /\ Head(tx[c].wants).row \notin {Run, Namespace}
  <1>2. ASSUME NEW c \in T PROVE Empty(c) \/ Waiting(c) \/ Having(c)
    <2>1. /\ Ordered(tx[c]) /\ Asks(tx[c]) /\ tx[c].wants # <<>>
          /\ tx[c].at \in {"closed"} \union Doing(run[c].pc)
      BY OwnConns DEF WInv, LocksInv, TxInv, InStep, WaitsFor
    <2>2. tx[c].at \in {"assign", "members", "assignments"} \union Late
      BY <2>1 DEF Doing, Late, Promoting, Ordered
    <2>3. CASE tx[c].at \in {"assign", "members", "assignments"}
      BY <2>1, <2>3 DEF Ordered
    <2>4. CASE tx[c].at \in Late
      <3>1. IsSeq(tx[c].wants)
        BY <2>1, <2>4 DEF Asks, Late, RunLocked
      <3>2. Head(tx[c].wants) = tx[c].wants[1] /\ Len(tx[c].wants) \in Nat /\ Len(tx[c].wants) >= 1
        BY <2>1, <3>1, TailOf
      <3> QED
        BY <2>1, <2>4, <3>2 DEF Ordered
    <2> QED
      BY <2>2, <2>3, <2>4
  <1> HIDE DEF Empty, Waiting, Having
  <1>3. ASSUME NEW c \in T, Having(c) PROVE FALSE
    <2>1. PICK d \in T : d # c /\ \E k \in tx[d].held : k.row = Head(tx[c].wants).row
      BY <1>1
    <2>2. ~Empty(d) /\ ~Waiting(d)
      BY <1>3, <2>1, LockFields DEF Empty, Waiting, Having
    <2>3. ForUpdate(Run) \in tx[d].held /\ ForUpdate(Run) \in tx[c].held
      BY <1>2, <1>3, <2>2 DEF Having
    <2>4. ~Conflicts(ForUpdate(Run), ForUpdate(Run))
      BY <2>1, <2>3, OwnConns DEF WInv, LocksInv, TxInv, Exclusive
    <2> QED
      BY <2>4, LockFields DEF Conflicts
  <1>4. PICK c \in T : TRUE
    OBVIOUS
  <1>5. PICK d \in T : \E k \in tx[d].held : k.row = Head(tx[c].wants).row
    BY <1>1
  <1>6. Waiting(d)
    BY <1>2, <1>3, <1>5 DEF Empty
  <1>7. PICK e \in T : \E k \in tx[e].held : k.row = Head(tx[d].wants).row
    BY <1>1
  <1>8. Head(tx[d].wants) = ForUpdate(Run)
    BY <1>6, ShortTails DEF Waiting
  <1>9. Waiting(e)
    BY <1>2, <1>3, <1>7 DEF Empty
  <1> QED
    BY <1>7, <1>8, <1>9, LockFields, RowsApart DEF Waiting

THEOREM TransactionsInvariant == OwnConnections /\ WSpec => []WInv
  <1>1. WInv /\ OwnConnections /\ [WNext]_wvars => WInv'
    BY WStep
  <1>2. OwnConnections => []OwnConnections
    BY DEF OwnConnections
  <1> QED
    BY <1>1, <1>2, WStarts, PTL DEF WSpec

\* On PostgreSQL, where a promotion is decided in statements that each see what
\* is committed when they start, a fact is promoted once.
THEOREM FactsAreUniqueOnPg == OwnConnections /\ WSpec => []NoDuplicatePromotion
  <1>1. WInv => NoDuplicatePromotion
    BY OneFact DEF WInv, SharedInv
  <1> QED
    BY <1>1, TransactionsInvariant, PTL

\* And a superseded fact comes back on newer evidence only.
THEOREM BuriedFactsStayOnPg == OwnConnections /\ WSpec => SupersededStaysBuried
  <1>1. WInv /\ OwnConnections /\ [WNext]_wvars => [NewEvidence]_vars
    BY WStep
  <1>2. OwnConnections => []OwnConnections
    BY DEF OwnConnections
  <1> QED
    BY <1>1, <1>2, TransactionsInvariant, PTL DEF WSpec, SupersededStaysBuried, NewEvidence

\* The transactions that change a cluster never wait for one another in a
\* circle, with any number of processes and members.
THEOREM NoInversion == OwnConnections /\ WSpec => []MutationsSerialize
  BY Serialized, TransactionsInvariant, PTL

=============================================================================
