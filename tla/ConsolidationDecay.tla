------------------------- MODULE ConsolidationDecay -------------------------
(***************************************************************************)
(* The decay pass of a consolidation run: decay_bounded of                 *)
(* consolidation/mod.rs over page_decay and commit_decay of the SQLite     *)
(* workspace, with recalls that reinforce what they return                 *)
(* (apply_reinforcement of retrieval/engine.rs), and rows that are saved   *)
(* and deleted meanwhile.                                                  *)
(*                                                                         *)
(* A pass reads a page of rows in one transaction and writes what it       *)
(* computed from them in another, as absolute values; a recall does the    *)
(* same with a row.  Runners are processes on one database, or one process *)
(* whose runs follow one another.                                          *)
(*                                                                         *)
(* Stability is the number of times it was halved.  What fades is what has *)
(* not been used for longer than its horizon, 81 times its stability in    *)
(* days where the threshold is 0.1; it halves with the stability.          *)
(***************************************************************************)
EXTENDS Integers, FiniteSets, FiniteSetsExt

CONSTANTS
    Rows,     \* numbers: the order of the pages
    Episodic,
    Procedural, \* of a reliability below 0.1; what else there is no pass changes
    Sweepers, \* processes
    DecayPage, \* rows of a page
    Horizon,  \* of a stability that was never halved, in ticks
    MaxClock  \* bound of the model

ASSUME DecayAssumption ==
    /\ Rows \subseteq Nat \ {0} /\ IsFiniteSet(Rows)
    /\ Episodic \subseteq Rows /\ Procedural \subseteq Rows \ Episodic
    /\ DecayPage \in Nat \ {0} /\ Horizon \in Nat

VARIABLES
    clock,
    live,   \* rows that are there
    halved, \* stability, or reliability: how often halved
    ref,    \* last_accessed, last_used
    pass,   \* per runner, its pass
    recall, \* a recall between its read and its write
    used,   \* history: when a row was saved or recalled
    fresh   \* history: rows that were never recalled

dvars == <<clock, live, halved, ref, pass, recall, used, fresh>>

NoPass == [at |-> "idle", now |-> 0, after |-> 0, page |-> {}, more |-> FALSE, unseen |-> {}]
Unsaved == -1
NoRecall == [row |-> 0, halved |-> 0]

DInit ==
    /\ clock = 0
    /\ live \in SUBSET Rows
    /\ halved = [m \in Rows |-> 0]
    /\ ref = [m \in Rows |-> 0]
    /\ pass = [r \in Sweepers |-> NoPass]
    /\ recall = NoRecall
    /\ used = [m \in Rows |-> IF m \in live THEN 0 ELSE Unsaved]
    /\ fresh = Rows

HorizonOf[h \in Nat] == IF h = 0 THEN Horizon ELSE HorizonOf[h - 1] \div 2

\* retrievability is below the threshold.
Faded(age, h) == age > HorizonOf[h]

\* decay_bounded reads its clock.
BeginPass(r) ==
    /\ pass[r].at \in {"idle", "complete"}
    /\ pass' = [pass EXCEPT ![r] = [NoPass EXCEPT !.at = "paging", !.now = clock, !.unseen = live]]
    /\ UNCHANGED <<clock, live, halved, ref, recall, used, fresh>>

Later(after) == {m \in live : m > after}

\* The first n of a set of rows.
FirstOf(S, n) == {m \in S : Cardinality({x \in S : x < m}) < n}

\* Variant: the cursor is the row that told that there are more.
CursorAfter(S) == LET P == FirstOf(S, DecayPage + 1) IN IF P = {} THEN 0 ELSE Max(P)

\* next_cursor
Cursor(S) == LET P == FirstOf(S, DecayPage) IN IF P = {} THEN 0 ELSE Max(P)

Completed(p) == [NoPass EXCEPT !.at = "complete", !.now = p.now, !.unseen = p.unseen]

\* page_decay.  With no row left the pass is complete.
PageDecay(r) ==
    /\ pass[r].at = "paging"
    /\ LET S == Later(pass[r].after)
           P == FirstOf(S, DecayPage)
       IN pass' = [pass EXCEPT ![r] =
            IF S = {} THEN Completed(@)
            ELSE [@ EXCEPT !.at = "paged", !.after = Cursor(S), !.more = Cardinality(S) > DecayPage,
                           !.page = {<<m, halved[m], ref[m]>> : m \in P},
                           !.unseen = pass[r].unseen \ P]]
    /\ UNCHANGED <<clock, live, halved, ref, recall, used, fresh>>

FadedIn(e, now) == Faded(now - e[3], e[2])

\* The rows of a page that get an update: every episodic one, and a procedural
\* one that has faded.
Updated(P, now) ==
    {e \in P : \/ e[1] \in Episodic
               \/ e[1] \in Procedural /\ FadedIn(e, now)}

Halved(e, now) == IF FadedIn(e, now) THEN e[2] + 1 ELSE e[2]

\* Variant: a pass is no access.
WriteStability(U, now) ==
    /\ halved' = [m \in Rows |-> IF \E e \in U : e[1] = m
                                 THEN Halved(CHOOSE e \in U : e[1] = m, now) ELSE halved[m]]
    /\ UNCHANGED ref

\* commit_decay of the updates U: stability, and the time of the commit as the
\* last access.  A row that is gone is not updated.
CommitDecay(U, now) ==
    /\ halved' = [m \in Rows |-> IF m \in live /\ \E e \in U : e[1] = m
                                 THEN Halved(CHOOSE e \in U : e[1] = m, now) ELSE halved[m]]
    /\ ref' = [m \in Rows |-> IF m \in live /\ \E e \in U : e[1] = m THEN clock ELSE ref[m]]

\* The page is committed, as far as the pass got with it: cancelled or out of
\* time it commits the rows before and ends incomplete.
CommitPage(r) ==
    /\ pass[r].at = "paged"
    /\ \E P \in {pass[r].page} \union {{e \in pass[r].page : e[1] < x[1]} : x \in pass[r].page} :
        /\ CommitDecay(Updated(P, pass[r].now), pass[r].now)
        /\ pass' = [pass EXCEPT ![r] =
            IF P # pass[r].page THEN NoPass
            ELSE IF pass[r].more THEN [@ EXCEPT !.at = "paging", !.page = {}]
            ELSE Completed(@)]
    /\ UNCHANGED <<clock, live, recall, used, fresh>>

\* Cancelled or out of time between two pages, an error, or a crash anywhere.
StopPass(r) ==
    /\ pass[r].at \in {"paging", "paged"}
    /\ pass' = [pass EXCEPT ![r] = NoPass]
    /\ UNCHANGED <<clock, live, halved, ref, recall, used, fresh>>

\* A recall returns an episodic row with the stability it has.
ReadRecalled(m) ==
    /\ recall = NoRecall /\ m \in live \intersect Episodic
    /\ recall' = [row |-> m, halved |-> halved[m]]
    /\ UNCHANGED <<clock, live, halved, ref, pass, used, fresh>>

Reinforced(h) == IF h = 0 THEN 0 ELSE h - 1

\* update_episodic_access_in_namespace
ApplyReinforcement ==
    /\ recall # NoRecall
    /\ IF recall.row \in live
         THEN /\ halved' = [halved EXCEPT ![recall.row] = Reinforced(recall.halved)]
              /\ ref' = [ref EXCEPT ![recall.row] = clock]
              /\ used' = [used EXCEPT ![recall.row] = clock]
              /\ fresh' = fresh \ {recall.row}
         ELSE UNCHANGED <<halved, ref, used, fresh>>
    /\ recall' = NoRecall
    /\ UNCHANGED <<clock, live, pass>>

SaveRow(m) ==
    /\ used[m] = Unsaved
    /\ live' = live \union {m}
    /\ ref' = [ref EXCEPT ![m] = clock]
    /\ used' = [used EXCEPT ![m] = clock]
    /\ UNCHANGED <<clock, halved, pass, recall, fresh>>

\* Deleted, or superseded.
DeleteRow(m) ==
    /\ m \in live
    /\ live' = live \ {m}
    /\ pass' = [r \in Sweepers |-> [pass[r] EXCEPT !.unseen = @ \ {m}]]
    /\ UNCHANGED <<clock, halved, ref, recall, used, fresh>>

DTick ==
    /\ clock < MaxClock
    /\ clock' = clock + 1
    /\ UNCHANGED <<live, halved, ref, pass, recall, used, fresh>>

DNext ==
    \/ \E r \in Sweepers : BeginPass(r) \/ PageDecay(r) \/ CommitPage(r) \/ StopPass(r)
    \/ \E m \in Rows : ReadRecalled(m) \/ SaveRow(m) \/ DeleteRow(m)
    \/ ApplyReinforcement
    \/ DTick

DSpec == DInit /\ [][DNext]_dvars

-----------------------------------------------------------------------------

\* A pass that is complete has paged every row that was there from its begin to
\* its end, whatever was saved and deleted between its pages.
CompletePassSawAll == \A r \in Sweepers : pass[r].at = "complete" => pass[r].unseen = {}

\* The time without use that n halvings take.
Price[n \in Nat] == IF n = 0 THEN 0 ELSE Price[n - 1] + HorizonOf[n - 1] + 1

\* A row that was never recalled has been there for the horizons of all its
\* halvings: neither the pass after an interrupted one nor another process
\* halves for a time that was halved for before (decay_bounded, commit_decay).
HalvingsArePaid ==
    \A m \in live \intersect fresh :
        Price[halved[m]] <= clock - used[m]

\* Unaccessed memories decay naturally: a complete pass leaves no episodic row as
\* it was that has not been used for longer than its horizon.
UnusedIsDecayed ==
    \A r \in Sweepers : pass[r].at = "complete" =>
        \A m \in live : m \in Episodic /\ pass[r].now - used[m] > Horizon => halved[m] > 0
=============================================================================
