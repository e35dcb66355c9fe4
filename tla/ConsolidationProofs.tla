------------------------- MODULE ConsolidationProofs -------------------------
(***************************************************************************)
(* Proofs about who may consolidate at a time.  In one process, for any    *)
(* number of callers and namespaces and any ticket span: the permit        *)
(* excludes, is never lost and serves in the order of arrival; the gate    *)
(* keeps one owner per namespace, leaks no claim and drops no coalesced    *)
(* trigger; together one pass runs at a time.  On one database, for any    *)
(* rows, pages, horizons and processes: the decay pass misses no row and   *)
(* halves for no time twice.  The last part states the theorems of         *)
(* PostgresWorkspaceProofs for the two processes of MCConsolidation.       *)
(***************************************************************************)
EXTENDS MCConsolidation, FiniteSetTheorems, WellFoundedInduction, TLAPS

-----------------------------------------------------------------------------
(* The permit                                                              *)

\* Distances count forward from the ticket being served: they stay within the
\* span, and distinct tickets are at distinct distances.
LEMMA DistFacts ==
    ASSUME NEW s \in Tickets
    PROVE  /\ \A t \in Tickets : Dist(s, t) \in 0 .. TicketSpan - 1
           /\ \A t, u \in Tickets : Dist(s, t) = Dist(s, u) => t = u
           /\ Dist(s, s) = 0
  BY TicketSpanAssumption DEF Tickets, Dist

\* Taking a ticket widens the window of outstanding tickets by exactly the
\* one taken, as long as the span is not used up.
LEMMA WindowGrows ==
    ASSUME NEW s \in Tickets, NEW n \in Tickets,
           Dist(s, n) < TicketSpan - 1
    PROVE  /\ Succ(n) \in Tickets
           /\ Dist(s, Succ(n)) = Dist(s, n) + 1
           /\ \A t \in Tickets :
                Dist(s, t) < Dist(s, Succ(n)) <=> (Dist(s, t) < Dist(s, n) \/ t = n)
  BY TicketSpanAssumption DEF Tickets, Dist, Succ

\* Moving the served ticket forward to s2, still within the window or at its
\* end, keeps exactly the tickets that were not passed.
LEMMA WindowShifts ==
    ASSUME NEW s \in Tickets, NEW s2 \in Tickets, NEW n \in Tickets,
           Dist(s, s2) <= Dist(s, n)
    PROVE  \A t \in Tickets :
              Dist(s2, t) < Dist(s2, n)
                <=> (Dist(s, t) < Dist(s, n) /\ Dist(s, t) >= Dist(s, s2))
  BY TicketSpanAssumption DEF Tickets, Dist

\* advance_abandoned stays inside the window, stops at a ticket nobody
\* abandoned, and everything it passes was abandoned.
LEMMA AdvanceFacts ==
    ASSUME NEW from \in Tickets, NEW n \in Tickets, NEW gone \in SUBSET Tickets,
           \A t \in gone : Dist(from, t) < Dist(from, n),
           AdvanceAbandoned(from, gone)
    PROVE  /\ serving' \in Tickets
           /\ serving' \notin abandoned'
           /\ abandoned' = {u \in gone : Dist(from, u) >= Dist(from, serving')}
           /\ Dist(from, serving') <= Dist(from, n)
           /\ \A u \in Tickets : Dist(from, u) < Dist(from, serving') => u \in gone
  <1>1. PICK s \in Tickets \ gone :
            /\ \A u \in Tickets : Dist(from, u) < Dist(from, s) => u \in gone
            /\ serving' = s
            /\ abandoned' = {u \in gone : Dist(from, u) >= Dist(from, s)}
    BY DEF AdvanceAbandoned
  <1>2. /\ Dist(from, s) \in 0 .. TicketSpan - 1
        /\ Dist(from, n) \in 0 .. TicketSpan - 1
    BY DistFacts
  <1>3. Dist(from, s) <= Dist(from, n)
    <2>1. SUFFICES ASSUME Dist(from, n) < Dist(from, s) PROVE FALSE
      BY <1>2, TicketSpanAssumption
    <2>2. n \in gone
      BY <1>1, <2>1
    <2>3. Dist(from, n) < Dist(from, n)
      BY <2>2
    <2> QED
      BY <1>2, <2>3, TicketSpanAssumption
  <1> QED
    BY <1>1, <1>3

\* advance_abandoned does not move while the ticket being served is not
\* abandoned: a waiter that gives up never takes the permit from its holder.
LEMMA AdvanceStays ==
    ASSUME NEW from \in Tickets, NEW gone, from \notin gone, AdvanceAbandoned(from, gone)
    PROVE  serving' = from
  <1>1. PICK s \in Tickets \ gone :
            /\ \A u \in Tickets : Dist(from, u) < Dist(from, s) => u \in gone
            /\ serving' = s
    BY DEF AdvanceAbandoned
  <1>2. ~(Dist(from, from) < Dist(from, s))
    BY <1>1
  <1> QED
    BY <1>1, <1>2, TicketSpanAssumption DEF Tickets, Dist

(***************************************************************************)
(* One step of the inductive argument, shared by abandoning a ticket and   *)
(* by dropping the guard: caller p leaves with ticket t, the outstanding   *)
(* tickets are those between `from' and the next one, and all of them but  *)
(* the abandoned ones belong to callers other than p.                      *)
(***************************************************************************)
LEMMA LeaveKeepsInv ==
    ASSUME PermitTypeOK, TicketsDistinct, PermitTypeOK',
           NEW p \in Callers, NEW from \in Tickets, NEW gone \in SUBSET Tickets,
           ticket' = [ticket EXCEPT ![p] = NoTicket],
           AdvanceAbandoned(from, gone),
           \A t \in gone : Dist(from, t) < Dist(from, nextTicket'),
           \A q \in Callers \ {p} : Live(q) =>
               /\ Dist(from, ticket[q]) < Dist(from, nextTicket')
               /\ ticket[q] \notin gone,
           \A t \in Tickets : Dist(from, t) < Dist(from, nextTicket') =>
               t \in gone \/ \E q \in Callers \ {p} : ticket[q] = t
    PROVE  TicketsDistinct' /\ WindowSound' /\ WindowComplete'
  <1> DEFINE n == nextTicket'
             s == serving'
  <1>1. n \in Tickets
    BY DEF PermitTypeOK
  <1>2. /\ s \in Tickets
        /\ s \notin abandoned'
        /\ abandoned' = {u \in gone : Dist(from, u) >= Dist(from, s)}
        /\ Dist(from, s) <= Dist(from, n)
        /\ \A u \in Tickets : Dist(from, u) < Dist(from, s) => u \in gone
    <2>1. \A t \in gone : Dist(from, t) < Dist(from, n)
      OBVIOUS
    <2> HIDE DEF n
    <2> QED
      BY <1>1, <2>1, AdvanceFacts
  <1>3. \A t \in Tickets :
            Dist(s, t) < Dist(s, n)
              <=> (Dist(from, t) < Dist(from, n) /\ Dist(from, t) >= Dist(from, s))
    <2> HIDE DEF n, s
    <2> QED
      BY <1>1, <1>2, WindowShifts
  <1>4. \A t \in Tickets : /\ Dist(from, t) \in 0 .. TicketSpan - 1
                           /\ Dist(s, t) \in 0 .. TicketSpan - 1
    <2> HIDE DEF s
    <2> QED
      BY <1>2, DistFacts
  <1>5. \A q \in Callers : q # p => ticket'[q] = ticket[q]
    BY DEF PermitTypeOK
  <1>6. ticket'[p] = NoTicket
    BY DEF PermitTypeOK
  <1>7. TicketsDistinct'
    BY <1>5, <1>6 DEF TicketsDistinct, Live
  <1>8. ASSUME NEW q \in Callers, ticket'[q] # NoTicket
        PROVE  Dist(s, ticket'[q]) < Dist(s, n) /\ ticket'[q] \notin abandoned'
    <2>1. q # p /\ ticket'[q] = ticket[q] /\ Live(q)
      BY <1>5, <1>6, <1>8 DEF Live
    <2>2. ticket[q] \in Tickets
      BY <2>1 DEF PermitTypeOK, Live
    <2>3. Dist(from, ticket[q]) < Dist(from, n) /\ ticket[q] \notin gone
      BY <2>1
    <2>4. ~(Dist(from, ticket[q]) < Dist(from, s))
      BY <1>2, <2>2, <2>3
    <2>5. Dist(from, ticket[q]) >= Dist(from, s)
      BY <1>2, <1>4, <2>2, <2>4, TicketSpanAssumption
    <2> QED
      BY <1>2, <1>3, <2>1, <2>2, <2>3, <2>5
  <1>9. ASSUME NEW t \in abandoned' PROVE Dist(s, t) < Dist(s, n)
    BY <1>2, <1>3, <1>9
  <1>10. ASSUME NEW t \in Tickets, Dist(s, t) < Dist(s, n)
         PROVE  t \in abandoned' \/ \E q \in Callers : ticket'[q] = t
    <2>1. Dist(from, t) < Dist(from, n) /\ Dist(from, t) >= Dist(from, s)
      BY <1>3, <1>10
    <2>2. t \in gone \/ \E q \in Callers \ {p} : ticket[q] = t
      BY <2>1
    <2> QED
      BY <1>2, <1>5, <2>1, <2>2
  <1> QED
    BY <1>2, <1>7, <1>8, <1>9, <1>10 DEF WindowSound, WindowComplete, InWindow, Live

\* A caller that joins the line with the newest ticket t, whether it waits or
\* is served at once, keeps the window sound and complete.
LEMMA JoinKeepsInv ==
    ASSUME PermitInv, NEW p \in Callers, ~Live(p), SpanLeft,
           nextTicket' = Succ(nextTicket),
           ticket' = [ticket EXCEPT ![p] = nextTicket],
           UNCHANGED <<serving, abandoned>>
    PROVE  TicketsDistinct' /\ WindowSound' /\ WindowComplete'
  <1>1. /\ nextTicket \in Tickets /\ serving \in Tickets
        /\ ticket \in [Callers -> Tickets \cup {NoTicket}]
        /\ abandoned \subseteq Tickets
    BY DEF PermitInv, PermitTypeOK
  <1>2. /\ \A t \in Tickets : Dist(serving, t) < Dist(serving, Succ(nextTicket))
                              <=> (Dist(serving, t) < Dist(serving, nextTicket) \/ t = nextTicket)
    BY <1>1, WindowGrows DEF SpanLeft
  <1>3. \A q \in Callers : q # p => ticket'[q] = ticket[q]
    BY <1>1
  <1>4. ticket'[p] = nextTicket
    BY <1>1
  <1>5. Dist(serving, nextTicket) \in 0 .. TicketSpan - 1
    BY <1>1, DistFacts
  <1>6. ~InWindow(nextTicket)
    BY <1>5, TicketSpanAssumption DEF InWindow
  <1>7. \A q \in Callers : ticket[q] # nextTicket
    BY <1>1, <1>6, TicketSpanAssumption DEF PermitInv, WindowSound, Live, Tickets, NoTicket
  <1>8. nextTicket \notin abandoned
    BY <1>6 DEF PermitInv, WindowSound
  <1>9. TicketsDistinct'
    BY <1>3, <1>4, <1>7 DEF TicketsDistinct, Live, PermitInv
  <1>10. ASSUME NEW q \in Callers, ticket'[q] # NoTicket
         PROVE  /\ Dist(serving, ticket'[q]) < Dist(serving, Succ(nextTicket))
                /\ ticket'[q] \notin abandoned
    <2>1. CASE q = p
      BY <1>1, <1>2, <1>4, <1>8, <2>1
    <2>2. CASE q # p
      BY <1>1, <1>2, <1>3, <1>10, <2>2 DEF PermitInv, WindowSound, InWindow, Live
    <2> QED
      BY <2>1, <2>2
  <1>11. WindowSound'
    <2>1. \A t \in abandoned : Dist(serving, t) < Dist(serving, Succ(nextTicket))
      BY <1>1, <1>2 DEF PermitInv, WindowSound, InWindow
    <2> QED
      BY <1>10, <2>1 DEF PermitInv, WindowSound, InWindow, Live
  <1>12. ASSUME NEW t \in Tickets, Dist(serving, t) < Dist(serving, Succ(nextTicket))
         PROVE  t \in abandoned \/ \E q \in Callers : ticket'[q] = t
    <2>1. CASE t = nextTicket
      BY <1>4, <2>1
    <2>2. CASE t # nextTicket
      <3>1. InWindow(t)
        BY <1>2, <1>12, <2>2 DEF InWindow
      <3>2. t \in abandoned \/ \E q \in Callers : ticket[q] = t
        BY <3>1 DEF PermitInv, WindowComplete
      <3> QED
        BY <1>1, <1>3, <3>2 DEF Live, Tickets, NoTicket
    <2> QED
      BY <2>1, <2>2
  <1>13. WindowComplete'
    BY <1>12 DEF WindowComplete, InWindow
  <1> QED
    BY <1>9, <1>11, <1>13

\* Types survive every permit step.
LEMMA PermitTypeStep ==
    ASSUME PermitInv, PermitNext PROVE PermitTypeOK'
  <1>1. Succ(nextTicket) \in Tickets
    BY TicketSpanAssumption DEF PermitInv, PermitTypeOK, Tickets, Succ
  <1>2. ASSUME NEW from, NEW gone \in SUBSET Tickets, AdvanceAbandoned(from, gone)
        PROVE  serving' \in Tickets /\ abandoned' \subseteq Tickets
    BY <1>2 DEF AdvanceAbandoned
  <1>3. ASSUME NEW p \in Callers, NEW t \in Tickets, Abandon(p, t)
        PROVE  /\ serving' \in Tickets /\ abandoned' \subseteq Tickets
               /\ ticket' \in [Callers -> Tickets \cup {NoTicket}]
               /\ holders' \subseteq Callers
    <2>1. abandoned \cup {t} \in SUBSET Tickets
      BY DEF PermitInv, PermitTypeOK
    <2> QED
      BY <1>2, <1>3, <2>1 DEF Abandon, PermitInv, PermitTypeOK
  <1>4. ASSUME NEW p \in Callers, NEW t \in Tickets, Grant(p, t) \/ Wait(p, t)
        PROVE  /\ serving' \in Tickets /\ abandoned' \subseteq Tickets
               /\ ticket' \in [Callers -> Tickets \cup {NoTicket}]
               /\ holders' \subseteq Callers
    BY <1>4 DEF Grant, Wait, PermitInv, PermitTypeOK
  <1>5. ASSUME NEW p \in Callers, NEW stop \in BOOLEAN, Acquire(p, stop)
        PROVE  PermitTypeOK'
    <2>1. nextTicket \in Tickets
      BY DEF PermitInv, PermitTypeOK
    <2>2. nextTicket' \in Tickets
      BY <1>1, <1>5 DEF Acquire
    <2>3. Abandon(p, nextTicket) \/ Grant(p, nextTicket) \/ Wait(p, nextTicket)
      BY <1>5 DEF Acquire
    <2> QED
      BY <1>3, <1>4, <2>1, <2>2, <2>3 DEF PermitTypeOK
  <1>6. ASSUME NEW p \in Callers, NEW stop \in BOOLEAN, Recheck(p, stop)
        PROVE  PermitTypeOK'
    <2>1. ticket[p] \in Tickets
      BY <1>6 DEF Recheck, Live, PermitInv, PermitTypeOK
    <2>2. nextTicket' \in Tickets
      BY <1>6 DEF Recheck, PermitInv, PermitTypeOK
    <2>3. Abandon(p, ticket[p]) \/ Grant(p, ticket[p])
      BY <1>6 DEF Recheck
    <2> QED
      BY <1>3, <1>4, <2>1, <2>2, <2>3 DEF PermitTypeOK
  <1>7. ASSUME NEW p \in Callers, Release(p) PROVE PermitTypeOK'
    BY <1>2, <1>7 DEF Release, PermitInv, PermitTypeOK
  <1> QED
    BY <1>5, <1>6, <1>7 DEF PermitNext

\* acquire, taking a ticket.
LEMMA AcquireKeepsInv ==
    ASSUME PermitInv, PermitTypeOK', NEW p \in Callers, NEW stop \in BOOLEAN,
           Acquire(p, stop)
    PROVE  PermitInv'
  <1>1. /\ nextTicket \in Tickets /\ serving \in Tickets
        /\ ticket \in [Callers -> Tickets \cup {NoTicket}]
        /\ abandoned \subseteq Tickets
        /\ holders \subseteq Callers
    BY DEF PermitInv, PermitTypeOK
  <1>2. nextTicket' = Succ(nextTicket) /\ ~Live(p) /\ SpanLeft
    BY DEF Acquire
  <1>3. p \notin holders
    BY <1>1, <1>2, TicketSpanAssumption
    DEF PermitInv, HolderServed, Live, Tickets, NoTicket
  <1>4. CASE Grant(p, nextTicket) \/ Wait(p, nextTicket)
    <2>1. TicketsDistinct' /\ WindowSound' /\ WindowComplete'
      BY <1>2, <1>4, JoinKeepsInv DEF Grant, Wait
    <2>2. HolderServed'
      BY <1>1, <1>3, <1>4 DEF Grant, Wait, HolderServed, PermitInv
    <2> QED
      BY <2>1, <2>2 DEF PermitInv
  <1>5. CASE Abandon(p, nextTicket)
    <2> DEFINE gone == abandoned \cup {nextTicket}
    <2>1. \A t \in Tickets : Dist(serving, t) < Dist(serving, Succ(nextTicket))
                            <=> (InWindow(t) \/ t = nextTicket)
      BY <1>1, <1>2, WindowGrows DEF SpanLeft, InWindow
    <2>2. \A t \in gone : Dist(serving, t) < Dist(serving, nextTicket')
      BY <1>1, <1>2, <2>1 DEF PermitInv, WindowSound
    <2>3. ~InWindow(nextTicket)
      BY <1>1, DistFacts, TicketSpanAssumption DEF InWindow
    <2>4. \A q \in Callers \ {p} : Live(q) =>
               /\ Dist(serving, ticket[q]) < Dist(serving, nextTicket')
               /\ ticket[q] \notin gone
      BY <1>1, <1>2, <2>1, <2>3 DEF PermitInv, WindowSound, Live
    <2>5. \A t \in Tickets : Dist(serving, t) < Dist(serving, nextTicket') =>
               t \in gone \/ \E q \in Callers \ {p} : ticket[q] = t
      BY <1>1, <1>2, <2>1, TicketSpanAssumption
      DEF PermitInv, WindowComplete, Live, Tickets, NoTicket
    <2>6. /\ ticket' = [ticket EXCEPT ![p] = NoTicket]
          /\ AdvanceAbandoned(serving, gone)
          /\ holders' = holders
      BY <1>5 DEF Abandon
    <2>7. gone \in SUBSET Tickets
      BY <1>1
    <2>8. TicketsDistinct' /\ WindowSound' /\ WindowComplete'
      <3> HIDE DEF gone
      <3> QED
        BY <1>1, <2>2, <2>4, <2>5, <2>6, <2>7, LeaveKeepsInv DEF PermitInv
    <2>9. ASSUME NEW q \in holders' PROVE ticket'[q] = serving'
      <3>1. q \in Callers /\ q # p /\ ticket[q] = serving /\ Live(q)
        BY <1>1, <1>3, <2>6, <2>9, TicketSpanAssumption
        DEF PermitInv, HolderServed, Live, Tickets, NoTicket
      <3>2. serving \notin gone
        BY <2>4, <3>1
      <3>3. serving' = serving
        BY <1>1, <2>6, <3>2, AdvanceStays
      <3> QED
        BY <1>1, <2>6, <3>1, <3>3
    <2> QED
      BY <2>8, <2>9 DEF PermitInv, HolderServed
  <1> QED
    BY <1>4, <1>5 DEF Acquire

\* The loop of acquire after a wait.
LEMMA RecheckKeepsInv ==
    ASSUME PermitInv, PermitTypeOK', NEW p \in Callers, NEW stop \in BOOLEAN,
           Recheck(p, stop)
    PROVE  PermitInv'
  <1>1. /\ nextTicket \in Tickets /\ serving \in Tickets
        /\ ticket \in [Callers -> Tickets \cup {NoTicket}]
        /\ abandoned \subseteq Tickets
        /\ holders \subseteq Callers
    BY DEF PermitInv, PermitTypeOK
  <1>2. nextTicket' = nextTicket /\ ticket[p] \in Tickets /\ p \notin holders /\ Live(p)
    BY <1>1 DEF Recheck, Live
  <1>3. CASE Grant(p, ticket[p])
    <2>1. ticket' = ticket
      BY <1>1, <1>3 DEF Grant
    <2>2. TicketsDistinct' /\ WindowSound' /\ WindowComplete'
      BY <1>2, <1>3, <2>1
      DEF Grant, PermitInv, TicketsDistinct, WindowSound, WindowComplete, InWindow, Live
    <2>3. HolderServed'
      BY <1>3, <2>1 DEF Grant, HolderServed, PermitInv
    <2> QED
      BY <2>2, <2>3 DEF PermitInv
  <1>4. CASE Abandon(p, ticket[p])
    <2> DEFINE gone == abandoned \cup {ticket[p]}
    <2>1. \A t \in gone : Dist(serving, t) < Dist(serving, nextTicket')
      BY <1>1, <1>2 DEF PermitInv, WindowSound, InWindow
    <2>2. \A q \in Callers \ {p} : Live(q) =>
               /\ Dist(serving, ticket[q]) < Dist(serving, nextTicket')
               /\ ticket[q] \notin gone
      BY <1>2 DEF PermitInv, WindowSound, TicketsDistinct, InWindow
    <2>3. \A t \in Tickets : Dist(serving, t) < Dist(serving, nextTicket') =>
               t \in gone \/ \E q \in Callers \ {p} : ticket[q] = t
      BY <1>2 DEF PermitInv, WindowComplete, InWindow
    <2>4. /\ ticket' = [ticket EXCEPT ![p] = NoTicket]
          /\ AdvanceAbandoned(serving, gone)
          /\ holders' = holders
      BY <1>4 DEF Abandon
    <2>5. gone \in SUBSET Tickets
      BY <1>1, <1>2
    <2>6. TicketsDistinct' /\ WindowSound' /\ WindowComplete'
      <3> HIDE DEF gone
      <3> QED
        BY <1>1, <2>1, <2>2, <2>3, <2>4, <2>5, LeaveKeepsInv DEF PermitInv
    <2>7. ASSUME NEW q \in holders' PROVE ticket'[q] = serving'
      <3>1. q \in Callers /\ q # p /\ ticket[q] = serving /\ Live(q)
        BY <1>1, <1>2, <2>4, <2>7, TicketSpanAssumption
        DEF PermitInv, HolderServed, Live, Tickets, NoTicket
      <3>2. serving \notin gone
        BY <2>2, <3>1
      <3>3. serving' = serving
        BY <1>1, <2>4, <3>2, AdvanceStays
      <3> QED
        BY <1>1, <2>4, <3>1, <3>3
    <2> QED
      BY <2>6, <2>7 DEF PermitInv, HolderServed
  <1> QED
    BY <1>3, <1>4 DEF Recheck

\* Dropping the guard.
LEMMA ReleaseKeepsInv ==
    ASSUME PermitInv, PermitTypeOK', NEW p \in Callers, Release(p)
    PROVE  PermitInv'
  <1> DEFINE from == Succ(serving)
  <1>1. /\ nextTicket \in Tickets /\ serving \in Tickets
        /\ ticket \in [Callers -> Tickets \cup {NoTicket}]
        /\ abandoned \subseteq Tickets
        /\ holders \subseteq Callers
    BY DEF PermitInv, PermitTypeOK
  <1>2. /\ nextTicket' = nextTicket /\ ticket' = [ticket EXCEPT ![p] = NoTicket]
        /\ AdvanceAbandoned(from, abandoned) /\ holders' = holders \ {p}
    BY DEF Release
  <1>3. ticket[p] = serving /\ Live(p)
    BY <1>1, TicketSpanAssumption
    DEF Release, PermitInv, HolderServed, Live, Tickets, NoTicket
  <1>4. InWindow(serving)
    BY <1>3 DEF PermitInv, WindowSound
  <1>5. from \in Tickets /\ Dist(serving, from) = 1 /\ Dist(serving, from) <= Dist(serving, nextTicket)
    BY <1>1, <1>4, TicketSpanAssumption DEF Succ, Tickets, Dist, InWindow
  <1>6. \A t \in Tickets : Dist(from, t) < Dist(from, nextTicket) <=> (InWindow(t) /\ t # serving)
    <2> HIDE DEF from
    <2>1. \A t \in Tickets :
              Dist(from, t) < Dist(from, nextTicket)
                <=> (InWindow(t) /\ Dist(serving, t) >= Dist(serving, from))
      BY <1>1, <1>5, WindowShifts DEF InWindow
    <2>2. \A t \in Tickets : Dist(serving, t) >= 1 <=> t # serving
      BY <1>1, TicketSpanAssumption DEF Tickets, Dist
    <2> QED
      BY <1>5, <2>1, <2>2
  <1>7. \A t \in abandoned : Dist(from, t) < Dist(from, nextTicket')
    BY <1>1, <1>2, <1>6 DEF PermitInv, WindowSound
  <1>8. \A q \in Callers \ {p} : Live(q) =>
             /\ Dist(from, ticket[q]) < Dist(from, nextTicket')
             /\ ticket[q] \notin abandoned
    BY <1>1, <1>2, <1>3, <1>6 DEF PermitInv, WindowSound, TicketsDistinct, Live
  <1>9. \A t \in Tickets : Dist(from, t) < Dist(from, nextTicket') =>
             t \in abandoned \/ \E q \in Callers \ {p} : ticket[q] = t
    BY <1>1, <1>2, <1>3, <1>6 DEF PermitInv, WindowComplete
  <1>10. TicketsDistinct' /\ WindowSound' /\ WindowComplete'
    <2> HIDE DEF from
    <2> QED
      BY <1>1, <1>2, <1>5, <1>7, <1>8, <1>9, LeaveKeepsInv DEF PermitInv
  <1>11. holders' = {}
    BY <1>1, <1>2, <1>3 DEF PermitInv, HolderServed, TicketsDistinct, Live
  <1> QED
    BY <1>10, <1>11 DEF PermitInv, HolderServed

\* The permit starts out with no ticket outstanding.
LEMMA PermitStarts == PermitInit => PermitInv
  BY TicketSpanAssumption
  DEF PermitInit, PermitInv, PermitTypeOK, TicketsDistinct, WindowSound,
      WindowComplete, HolderServed, InWindow, Live, Tickets, Dist, NoTicket

\* Every call of acquire and every drop of a guard keeps the invariant.
LEMMA PermitSteps ==
    ASSUME PermitInv, [PermitNext]_permitVars PROVE PermitInv'
  <1>1. CASE UNCHANGED permitVars
    BY <1>1
    DEF permitVars, PermitInv, PermitTypeOK, TicketsDistinct, WindowSound,
        WindowComplete, HolderServed, InWindow, Live
  <1>2. CASE PermitNext
    <2>1. PermitTypeOK'
      BY <1>2, PermitTypeStep
    <2> QED
      BY <1>2, <2>1, AcquireKeepsInv, RecheckKeepsInv, ReleaseKeepsInv DEF PermitNext
  <1> QED
    BY <1>1, <1>2

\* No two callers hold a guard.
LEMMA InvExcludes == PermitInv => PermitExclusion
  BY TicketSpanAssumption
  DEF PermitInv, PermitTypeOK, PermitExclusion, HolderServed, TicketsDistinct, Live, Tickets, NoTicket

\* The inductive invariant holds in every reachable state of the permit.
THEOREM PermitInvariant == PermitSpec => []PermitInv
  <1>1. PermitInv /\ [PermitNext]_permitVars => PermitInv'
    BY PermitSteps
  <1> QED
    BY <1>1, PermitStarts, PTL DEF PermitSpec

\* At most one consolidation pass holds the permit (FairPermitGuard), for any
\* number of callers and any pattern of abandoned tickets.
THEOREM PermitIsExclusive == PermitSpec => []PermitExclusion
  BY InvExcludes, PermitInvariant, PTL

\* The ticket being served is outstanding, and nobody gave it up.
LEMMA InvNeverLost == PermitInv => PermitNotLost
  <1> SUFFICES ASSUME PermitInv, serving # nextTicket PROVE \E p \in Callers : ticket[p] = serving
    BY DEF PermitNotLost
  <1>1. InWindow(serving)
    BY TicketSpanAssumption DEF PermitInv, PermitTypeOK, InWindow, Dist, Tickets
  <1> QED
    BY <1>1 DEF PermitInv, PermitTypeOK, WindowSound, WindowComplete

\* The permit never gets stuck on a ticket nobody will redeem.
THEOREM PermitIsNeverLost == PermitSpec => []PermitNotLost
  BY InvNeverLost, PermitInvariant, PTL

-----------------------------------------------------------------------------
(* The ticket lock implements the line of FifoPermit.                      *)

\* Serving a later ticket does not change the order of those not yet passed.
LEMMA ShiftKeepsOrder ==
    ASSUME NEW s \in Tickets, NEW s2 \in Tickets, NEW t \in Tickets, NEW u \in Tickets,
           Dist(s, t) >= Dist(s, s2), Dist(s, u) >= Dist(s, s2)
    PROVE  Dist(s2, t) < Dist(s2, u) <=> Dist(s, t) < Dist(s, u)
  BY TicketSpanAssumption DEF Tickets, Dist

\* advance_abandoned keeps the order of the tickets that were not abandoned.
LEMMA AdvanceKeepsOrder ==
    ASSUME NEW from \in Tickets, NEW gone, AdvanceAbandoned(from, gone),
           NEW t \in Tickets \ gone, NEW u \in Tickets \ gone
    PROVE  Dist(serving', t) < Dist(serving', u) <=> Dist(from, t) < Dist(from, u)
  <1>1. PICK s \in Tickets \ gone :
            /\ \A v \in Tickets : Dist(from, v) < Dist(from, s) => v \in gone
            /\ serving' = s
    BY DEF AdvanceAbandoned
  <1>2. \A v \in Tickets : Dist(from, v) \in 0 .. TicketSpan - 1
    BY DistFacts
  <1>3. Dist(from, t) >= Dist(from, s) /\ Dist(from, u) >= Dist(from, s)
    BY <1>1, <1>2, TicketSpanAssumption
  <1> QED
    BY <1>1, <1>3, ShiftKeepsOrder

\* A caller leaves the line, and the order of the others stays.
LEMMA LeavesLine ==
    ASSUME PermitTypeOK, NEW p \in Callers,
           ticket' = [ticket EXCEPT ![p] = NoTicket],
           \A q, r \in Line \ {p} :
               Dist(serving', ticket[q]) < Dist(serving', ticket[r])
                   <=> Dist(serving, ticket[q]) < Dist(serving, ticket[r])
    PROVE  Line' = Line \ {p} /\ Order' = Fifo!Without(p)
  <1>1. /\ \A q \in Callers \ {p} : ticket'[q] = ticket[q]
        /\ ticket'[p] = NoTicket
    BY DEF PermitTypeOK
  <1>2. Line' = Line \ {p}
    BY <1>1 DEF Line, Live
  <1>3. \A q, r \in Line' : <<q, r>> \in Order' <=> <<q, r>> \in Order
    BY <1>1, <1>2 DEF Order, Line
  <1>4. \A pair \in Order' : pair = <<pair[1], pair[2]>> /\ pair[1] \in Line' /\ pair[2] \in Line'
    BY DEF Order
  <1>5. \A pair \in Order : pair = <<pair[1], pair[2]>> /\ pair[1] \in Line /\ pair[2] \in Line
    BY DEF Order
  <1>6. Order' \subseteq Fifo!Without(p)
    BY <1>2, <1>3, <1>4 DEF Fifo!Without
  <1>7. Fifo!Without(p) \subseteq Order'
    <2> SUFFICES ASSUME NEW pair \in Order, p # pair[1], p # pair[2] PROVE pair \in Order'
      BY DEF Fifo!Without
    <2>1. pair[1] \in Line' /\ pair[2] \in Line'
      BY <1>2, <1>5
    <2> QED
      BY <1>3, <1>5, <2>1
  <1> QED
    BY <1>2, <1>6, <1>7

\* acquire with a ticket taken: the caller joins the line at its end, and is
\* served if it is alone.
LEMMA JoinsLine ==
    ASSUME PermitInv, NEW p \in Callers, ~Live(p), SpanLeft,
           Grant(p, nextTicket) \/ Wait(p, nextTicket)
    PROVE  Fifo!Join(p)
  <1>1. /\ nextTicket \in Tickets /\ serving \in Tickets
        /\ ticket \in [Callers -> Tickets \cup {NoTicket}]
        /\ holders \subseteq Callers /\ NoTicket \notin Tickets
    BY DEF PermitInv, PermitTypeOK, Tickets, NoTicket
  <1>2. /\ ticket' = [ticket EXCEPT ![p] = nextTicket]
        /\ serving' = serving
    BY DEF Grant, Wait
  <1>3. Line' = Line \union {p} /\ p \notin Line
    BY <1>1, <1>2 DEF Line, Live
  <1>4. \A q \in Line : /\ ticket'[q] = ticket[q]
                        /\ Dist(serving, ticket[q]) < Dist(serving, nextTicket)
                        /\ Dist(serving, ticket[q]) \in Nat
    <2>1. \A q \in Line : q # p /\ q \in Callers /\ ticket[q] \in Tickets /\ InWindow(ticket[q])
      BY <1>1, <1>3 DEF Line, Live, PermitInv, WindowSound
    <2>2. \A t \in Tickets : Dist(serving, t) \in Nat
      BY <1>1, DistFacts
    <2> QED
      BY <1>1, <1>2, <2>1, <2>2 DEF InWindow
  <1>5. ticket'[p] = nextTicket /\ Dist(serving, nextTicket) \in Nat
    BY <1>1, <1>2, DistFacts
  <1>6. \A q, r \in Line' : <<q, r>> \in Order' <=> <<q, r>> \in Order \/ (q \in Line /\ r = p)
    <2> SUFFICES ASSUME NEW q \in Line', NEW r \in Line'
                 PROVE  <<q, r>> \in Order' <=> <<q, r>> \in Order \/ (q \in Line /\ r = p)
      OBVIOUS
    <2>1. <<q, r>> \in Order' <=> Dist(serving, ticket'[q]) < Dist(serving, ticket'[r])
      BY <1>2 DEF Order
    <2>2. CASE q \in Line /\ r \in Line
      BY <1>3, <1>4, <2>1, <2>2 DEF Order
    <2>3. CASE q \in Line /\ r = p
      BY <1>4, <1>5, <2>1, <2>3
    <2>4. CASE q = p
      <3>1. ~(Dist(serving, ticket'[p]) < Dist(serving, ticket'[r]))
        BY <1>3, <1>4, <1>5
      <3> QED
        BY <1>3, <2>1, <2>4, <3>1 DEF Order
    <2> QED
      BY <1>3, <2>2, <2>3, <2>4
  <1>7. Order' = Order \union (Line \X {p})
    <2>1. \A pair \in Order' : pair = <<pair[1], pair[2]>> /\ pair[1] \in Line' /\ pair[2] \in Line'
      BY DEF Order
    <2>2. \A pair \in Order : pair = <<pair[1], pair[2]>> /\ pair[1] \in Line' /\ pair[2] \in Line'
      BY <1>3 DEF Order
    <2>3. \A pair \in Line \X {p} : pair = <<pair[1], pair[2]>> /\ pair[1] \in Line' /\ pair[2] \in Line'
      BY <1>3
    <2>4. Order' \subseteq Order \union (Line \X {p})
      BY <1>6, <2>1
    <2>5. Order \union (Line \X {p}) \subseteq Order'
      BY <1>6, <2>2, <2>3
    <2> QED
      BY <2>4, <2>5
  <1>8. Line = {} <=> serving = nextTicket
    <2>1. serving = nextTicket => Line = {}
      BY <1>1, <1>4, DistFacts
    <2>2. serving # nextTicket => PermitNotLost /\ \E q \in Callers : ticket[q] = serving
      BY InvNeverLost DEF PermitNotLost
    <2> QED
      BY <1>1, <2>1, <2>2 DEF Line, Live
  <1>9. holders' = IF Line = {} THEN {p} ELSE holders
    <2>1. Line = {} => holders = {}
      BY <1>1 DEF Line, Live, PermitInv, HolderServed
    <2> QED
      BY <1>8, <2>1 DEF Grant, Wait
  <1> QED
    BY <1>3, <1>7, <1>9 DEF Fifo!Join

\* A ticket that is given up: the caller leaves the line, or never was in it.
LEMMA AbandonLeavesLine ==
    ASSUME PermitInv, NEW p \in Callers, p \notin holders, NEW t \in Tickets,
           Abandon(p, t), Live(p) => ticket[p] = t,
           ~Live(p) => t = nextTicket
    PROVE  Fifo!Leave(p) \/ UNCHANGED <<Line, Order, holders>>
  <1> DEFINE gone == abandoned \union {t}
  <1>1. /\ ticket \in [Callers -> Tickets \cup {NoTicket}] /\ NoTicket \notin Tickets
        /\ serving \in Tickets /\ nextTicket \in Tickets
    BY DEF PermitInv, PermitTypeOK, Tickets, NoTicket
  <1>2. /\ ticket' = [ticket EXCEPT ![p] = NoTicket] /\ holders' = holders
        /\ AdvanceAbandoned(serving, gone)
    BY DEF Abandon
  <1>3. ~InWindow(nextTicket)
    BY <1>1, DistFacts DEF InWindow
  <1>4. \A q \in Line \ {p} : ticket[q] \in Tickets \ gone
    BY <1>1, <1>3 DEF Line, Live, PermitInv, WindowSound, TicketsDistinct
  <1>5. \A q, r \in Line \ {p} :
            Dist(serving', ticket[q]) < Dist(serving', ticket[r])
                <=> Dist(serving, ticket[q]) < Dist(serving, ticket[r])
    <2> HIDE DEF gone
    <2> QED
      BY <1>1, <1>2, <1>4, AdvanceKeepsOrder
  <1>6. Line' = Line \ {p} /\ Order' = Fifo!Without(p)
    BY <1>2, <1>5, LeavesLine DEF PermitInv
  <1>7. CASE Live(p)
    BY <1>2, <1>6, <1>7 DEF Fifo!Leave, Line
  <1>8. CASE ~Live(p)
    <2>1. p \notin Line
      BY <1>8 DEF Line
    <2>2. Fifo!Without(p) = Order
      BY <2>1 DEF Fifo!Without, Order
    <2> QED
      BY <1>2, <1>6, <2>1, <2>2
  <1> QED
    BY <1>7, <1>8

\* A waiting caller whose ticket is served is the first of the line.
LEMMA GrantServesFirst ==
    ASSUME PermitInv, NEW p \in Callers, Live(p), p \notin holders, Grant(p, ticket[p])
    PROVE  Fifo!Serve(p)
  <1>1. /\ ticket \in [Callers -> Tickets \cup {NoTicket}] /\ NoTicket \notin Tickets
        /\ serving \in Tickets /\ holders \subseteq Callers
    BY DEF PermitInv, PermitTypeOK, Tickets, NoTicket
  <1>2. ticket' = ticket /\ serving' = serving /\ serving = ticket[p] /\ holders' = holders \union {p}
    BY <1>1 DEF Grant
  <1>3. holders = {}
    BY <1>1, <1>2 DEF PermitInv, HolderServed, TicketsDistinct
  <1>4. Line' = Line /\ Order' = Order
    BY <1>2 DEF Line, Order, Live
  <1>5. \A q \in Line \ {p} : ticket[q] \in Tickets /\ ticket[q] # serving
    BY <1>1, <1>2 DEF Line, Live, PermitInv, TicketsDistinct
  <1>6. \A u \in Tickets : u # serving => Dist(serving, serving) < Dist(serving, u)
    BY <1>1, TicketSpanAssumption DEF Tickets, Dist
  <1>7. Fifo!First(p)
    BY <1>2, <1>5, <1>6 DEF Fifo!First, Line, Order
  <1> QED
    BY <1>2, <1>3, <1>4, <1>7 DEF Fifo!Serve

\* The guard's drop takes its caller from the line.
LEMMA ReleaseFinishes ==
    ASSUME PermitInv, NEW p \in Callers, Release(p)
    PROVE  Fifo!Finish(p)
  <1> DEFINE from == Succ(serving)
  <1>1. /\ ticket \in [Callers -> Tickets \cup {NoTicket}] /\ NoTicket \notin Tickets
        /\ serving \in Tickets /\ holders \subseteq Callers
    BY DEF PermitInv, PermitTypeOK, Tickets, NoTicket
  <1>2. /\ p \in holders /\ holders' = holders \ {p}
        /\ ticket' = [ticket EXCEPT ![p] = NoTicket]
        /\ AdvanceAbandoned(from, abandoned)
    BY DEF Release
  <1>3. holders = {p} /\ ticket[p] = serving
    BY <1>1, <1>2 DEF PermitInv, HolderServed, TicketsDistinct, Live
  <1>4. from \in Tickets
    BY <1>1, TicketSpanAssumption DEF Succ, Tickets
  <1>5. \A q \in Line \ {p} : ticket[q] \in Tickets \ abandoned /\ ticket[q] # serving
    BY <1>1, <1>3 DEF Line, Live, PermitInv, WindowSound, TicketsDistinct
  <1>6. \A u \in Tickets \ {serving} : Dist(serving, u) >= Dist(serving, from)
    BY <1>1, TicketSpanAssumption DEF Succ, Tickets, Dist
  <1>7. \A q, r \in Line \ {p} :
            Dist(serving', ticket[q]) < Dist(serving', ticket[r])
                <=> Dist(serving, ticket[q]) < Dist(serving, ticket[r])
    <2> SUFFICES ASSUME NEW q \in Line \ {p}, NEW r \in Line \ {p}
                 PROVE  Dist(serving', ticket[q]) < Dist(serving', ticket[r])
                          <=> Dist(serving, ticket[q]) < Dist(serving, ticket[r])
      OBVIOUS
    <2> HIDE DEF from
    <2>1. Dist(serving', ticket[q]) < Dist(serving', ticket[r])
            <=> Dist(from, ticket[q]) < Dist(from, ticket[r])
      BY <1>2, <1>4, <1>5, AdvanceKeepsOrder
    <2>2. Dist(from, ticket[q]) < Dist(from, ticket[r])
            <=> Dist(serving, ticket[q]) < Dist(serving, ticket[r])
      BY <1>1, <1>4, <1>5, <1>6, ShiftKeepsOrder
    <2> QED
      BY <2>1, <2>2
  <1>8. Line' = Line \ {p} /\ Order' = Fifo!Without(p)
    BY <1>2, <1>7, LeavesLine DEF PermitInv
  <1> QED
    BY <1>2, <1>3, <1>8 DEF Fifo!Finish

\* Every step of the permit is a step of the line or leaves it alone.
LEMMA PermitStepsLine ==
    ASSUME PermitInv, [PermitNext]_permitVars
    PROVE  [Fifo!Next]_(Fifo!vars)
  <1>1. /\ nextTicket \in Tickets /\ ticket \in [Callers -> Tickets \cup {NoTicket}]
        /\ NoTicket \notin Tickets /\ serving \in Tickets
    BY DEF PermitInv, PermitTypeOK, Tickets, NoTicket
  <1>2. ASSUME NEW p \in Callers, NEW stop \in BOOLEAN, Acquire(p, stop)
        PROVE  [Fifo!Next]_(Fifo!vars)
    <2>1. ~Live(p) /\ SpanLeft /\ p \notin holders
      BY <1>1, <1>2 DEF Acquire, Live, PermitInv, HolderServed
    <2>2. CASE Grant(p, nextTicket) \/ Wait(p, nextTicket)
      BY <2>1, <2>2, JoinsLine DEF Fifo!Next
    <2>3. CASE Abandon(p, nextTicket)
      BY <1>1, <2>1, <2>3, AbandonLeavesLine DEF Fifo!Next, Fifo!vars
    <2> QED
      BY <1>2, <2>2, <2>3 DEF Acquire
  <1>3. ASSUME NEW p \in Callers, NEW stop \in BOOLEAN, Recheck(p, stop)
        PROVE  [Fifo!Next]_(Fifo!vars)
    <2>1. Live(p) /\ p \notin holders /\ ticket[p] \in Tickets
      BY <1>1, <1>3 DEF Recheck, Live
    <2>2. CASE Grant(p, ticket[p])
      BY <2>1, <2>2, GrantServesFirst DEF Fifo!Next
    <2>3. CASE Abandon(p, ticket[p])
      BY <2>1, <2>3, AbandonLeavesLine DEF Fifo!Next, Fifo!vars
    <2> QED
      BY <1>3, <2>2, <2>3 DEF Recheck
  <1>4. ASSUME NEW p \in Callers, Release(p) PROVE [Fifo!Next]_(Fifo!vars)
    BY <1>4, ReleaseFinishes DEF Fifo!Next
  <1>5. CASE UNCHANGED permitVars
    BY <1>5 DEF permitVars, Fifo!vars, Line, Order, Live
  <1> QED
    BY <1>2, <1>3, <1>4, <1>5 DEF PermitNext

\* The line is empty at first.
LEMMA PermitStartsLine == PermitInit => Fifo!Init
  BY DEF PermitInit, Fifo!Init, Line, Order, Live, NoTicket

\* The ticket lock serves its callers one at a time and in the order in which
\* they asked, for any number of callers and any span of the tickets.
THEOREM PermitImplementsFifo == PermitSpec => ImplementsFifo
  BY PermitInvariant, PermitStepsLine, PermitStartsLine, PTL
  DEF PermitSpec, ImplementsFifo, Fifo!Spec

-----------------------------------------------------------------------------
(* The gate                                                                *)

\* Every step of the gate is a step of the permit or leaves it alone.
LEMMA GateStepsPermit ==
    ASSUME GateInv, [GateNext]_allVars
    PROVE  [PermitNext]_permitVars
  <1>1. ASSUME NEW p \in Callers PROVE Stop(p) \in BOOLEAN
    BY DEF Stop
  <1>2. CASE UNCHANGED allVars
    BY <1>2 DEF allVars
  <1>3. ASSUME NEW p \in Callers, Step(p) PROVE [PermitNext]_permitVars
    <2>1. EnterRun(p) => PermitNext
      BY <1>1 DEF EnterRun, PermitNext
    <2>2. WaitTurn(p) => PermitNext
      BY <1>1 DEF WaitTurn, PermitNext
    <2>3. EndRun(p) => PermitNext
      BY DEF EndRun, PermitNext
    <2>4. Snapshot(p) \/ DecideRerun(p) \/ Rerun(p) \/ Finish(p) \/ DropLease(p)
              => UNCHANGED permitVars
      BY DEF Snapshot, DecideRerun, Rerun, Finish, DropLease
    <2> QED
      BY <1>3, <2>1, <2>2, <2>3, <2>4 DEF Step
  <1>4. ASSUME NEW p \in Callers, NEW n \in Namespaces,
               Coalesce(p, n) \/ Claim(p, n)
        PROVE  UNCHANGED permitVars
    BY <1>4 DEF Coalesce, Claim
  <1>5. ASSUME NEW p \in Callers, Cancel(p) PROVE UNCHANGED permitVars
    BY <1>5 DEF Cancel
  <1>6. Tick => UNCHANGED permitVars
    BY DEF Tick
  <1> QED
    BY <1>2, <1>3, <1>4, <1>5, <1>6 DEF GateNext

\* What acquire and the guard do to the caller's ticket and to the holders;
\* nobody else's ticket or guard changes.
LEMMA PermitEffect ==
    ASSUME GateInv, NEW p \in Callers, NEW stop \in BOOLEAN,
           Acquire(p, stop) \/ Recheck(p, stop) \/ Release(p)
    PROVE  /\ \A q \in Callers \ {p} : (q \in holders' <=> q \in holders) /\ ticket'[q] = ticket[q]
           /\ Acquire(p, stop) \/ Recheck(p, stop) => (p \in holders' => ticket'[p] # NoTicket)
           /\ Release(p) => p \notin holders' /\ ticket'[p] = NoTicket
  <1>1. /\ ticket \in [Callers -> Tickets \cup {NoTicket}] /\ holders \subseteq Callers
        /\ nextTicket \in Tickets /\ NoTicket \notin Tickets
    BY DEF GateInv, PermitInv, PermitTypeOK, Tickets, NoTicket
  <1>2. p \notin holders \/ ticket[p] # NoTicket
    BY DEF GateInv, PermitAgrees, Live
  <1>3. ASSUME NEW t \in Tickets, Abandon(p, t) \/ Grant(p, t) \/ Wait(p, t), p \notin holders
        PROVE  /\ \A q \in Callers \ {p} : (q \in holders' <=> q \in holders) /\ ticket'[q] = ticket[q]
               /\ p \in holders' => ticket'[p] # NoTicket
    BY <1>1, <1>3 DEF Abandon, Grant, Wait
  <1>4. CASE Acquire(p, stop)
    <2>1. p \notin holders /\ (Abandon(p, nextTicket) \/ Grant(p, nextTicket) \/ Wait(p, nextTicket))
      BY <1>2, <1>4 DEF Acquire, Live
    <2>2. ~Release(p)
      BY <2>1 DEF Release
    <2> QED
      BY <1>1, <1>3, <2>1, <2>2
  <1>5. CASE Recheck(p, stop)
    <2>1. p \notin holders /\ ticket[p] \in Tickets
          /\ (Abandon(p, ticket[p]) \/ Grant(p, ticket[p]))
      BY <1>1, <1>5 DEF Recheck, Live
    <2>2. ~Release(p)
      BY <2>1 DEF Release
    <2> QED
      BY <1>3, <2>1, <2>2
  <1>6. CASE Release(p)
    <2>1. ~Acquire(p, stop) /\ ~Recheck(p, stop)
      BY <1>2, <1>6 DEF Release, Acquire, Recheck, Live
    <2> QED
      BY <1>1, <1>6, <2>1 DEF Release
  <1> QED
    BY <1>4, <1>5, <1>6

\* The caller's place in dispatch follows what the permit gave it.
LEMMA AcquireAgrees ==
    ASSUME GateInv, NEW p \in Callers, NEW stop \in BOOLEAN,
           Acquire(p, stop) \/ Recheck(p, stop), AfterAcquire(p)
    PROVE  PermitAgrees'
  <1>1. pc \in [Callers -> PCs]
    BY DEF GateInv, GateTypeOK
  <1>2. /\ \A q \in Callers \ {p} : (q \in holders' <=> q \in holders) /\ ticket'[q] = ticket[q]
        /\ p \in holders' => ticket'[p] # NoTicket
    BY PermitEffect
  <1>3. /\ p \in holders' => pc'[p] = "running"
        /\ p \notin holders' /\ ticket'[p] # NoTicket => pc'[p] = "waiting"
        /\ p \notin holders' /\ ticket'[p] = NoTicket => pc'[p] \in {"failed", "expired"}
        /\ \A q \in Callers \ {p} : pc'[q] = pc[q]
    BY <1>1 DEF AfterAcquire, Goto
  <1>4. ASSUME NEW q \in Callers \ {p}
        PROVE  /\ q \in holders' <=> pc'[q] \in {"running", "snapped"}
               /\ ticket'[q] # NoTicket <=> pc'[q] \in {"waiting", "running", "snapped"}
    BY <1>2, <1>3 DEF GateInv, PermitAgrees, Live
  <1>5. /\ p \in holders' <=> pc'[p] \in {"running", "snapped"}
        /\ ticket'[p] # NoTicket <=> pc'[p] \in {"waiting", "running", "snapped"}
    BY <1>2, <1>3
  <1> QED
    BY <1>4, <1>5 DEF PermitAgrees, Live

\* The registry side of the invariant.
Owners == OneOwner /\ ClaimHasOwner /\ OwnerNamed /\ OwedNoted

\* A step that moves a caller to another place inside dispatch, short of
\* taking its snapshot, does not concern the registry side.
LEMMA MoveKeepsOwners ==
    ASSUME GateTypeOK, Owners, NEW p \in Callers, NEW l \in PCs \ {"idle", "snapped"},
           pc[p] # "idle", Goto(p, l), UNCHANGED <<registry, ns, owed>>,
           l \in {"complete", "finishing"} => pc[p] \in {"snapped", "complete"}
    PROVE  Owners'
  <1>1. /\ \A q \in Callers \ {p} : pc'[q] = pc[q]
        /\ pc'[p] = l /\ l # "idle"
    BY DEF GateTypeOK, Goto
  <1>2. \A q \in Callers : pc'[q] # "idle" <=> pc[q] # "idle"
    BY <1>1
  <1>3. OneOwner' /\ ClaimHasOwner' /\ OwnerNamed'
    BY <1>2 DEF Owners, OneOwner, ClaimHasOwner, OwnerNamed
  <1>4. OwedNoted'
    BY <1>1 DEF Owners, OwedNoted, PCs
  <1> QED
    BY <1>3, <1>4 DEF Owners

\* A caller that leaves dispatch and removes the entry it owns.
LEMMA ReturnKeepsOwners ==
    ASSUME GateTypeOK, Owners, NEW p \in Callers, pc[p] # "idle", Return(p),
           registry' = [registry EXCEPT ![ns[p]] = "free"], UNCHANGED owed
    PROVE  Owners'
  <1>1. /\ \A q \in Callers \ {p} : pc'[q] = pc[q] /\ ns'[q] = ns[q]
        /\ pc'[p] = "idle"
    BY DEF GateTypeOK, Return
  <1>2. \A q \in Callers \ {p} : pc[q] # "idle" => ns[q] # ns[p]
    BY DEF Owners, OneOwner
  <1>3. /\ ns[p] \in Namespaces
        /\ registry'[ns[p]] = "free"
        /\ \A n \in Namespaces \ {ns[p]} : registry'[n] = registry[n]
    BY DEF GateTypeOK, Owners, OwnerNamed
  <1>4. OneOwner' /\ OwnerNamed'
    BY <1>1 DEF Owners, OneOwner, OwnerNamed
  <1>5. OwedNoted'
    BY <1>1, <1>2, <1>3 DEF Owners, OwedNoted, OwnerNamed
  <1>6. ClaimHasOwner'
    <2> SUFFICES ASSUME NEW n \in Namespaces
                 PROVE  registry'[n] # "free" <=> \E q \in Callers : pc'[q] # "idle" /\ ns'[q] = n
      BY DEF ClaimHasOwner
    <2>1. CASE n = ns[p]
      BY <1>1, <1>2, <1>3, <2>1
    <2>2. CASE n # ns[p]
      BY <1>1, <1>3, <2>2 DEF Owners, ClaimHasOwner
    <2> QED
      BY <2>1, <2>2
  <1> QED
    BY <1>4, <1>5, <1>6 DEF Owners

LEMMA StepKeepsOwners ==
    ASSUME GateInv, NEW p \in Callers, Step(p)
    PROVE  Owners'
  <1>1. GateTypeOK /\ Owners /\ pc \in [Callers -> PCs]
    BY DEF GateInv, Owners, GateTypeOK
  <1>2. CASE EnterRun(p) \/ WaitTurn(p)
    <2>1. PICK l \in {"running", "waiting", "failed", "expired"} : Goto(p, l)
      BY <1>2 DEF EnterRun, WaitTurn, AfterAcquire
    <2>2. l \in PCs \ {"idle", "snapped"} /\ pc[p] # "idle" /\ l \notin {"complete", "finishing"}
      BY <1>2 DEF PCs, EnterRun, WaitTurn
    <2>3. UNCHANGED <<registry, ns, owed>>
      BY <1>2 DEF EnterRun, WaitTurn
    <2> QED
      BY <1>1, <2>1, <2>2, <2>3, MoveKeepsOwners
  <1>3. CASE EndRun(p) \/ DecideRerun(p)
    <2>1. PICK l \in {"complete", "failed", "finishing"} :
              /\ Goto(p, l)
              /\ l \in {"complete", "finishing"} => pc[p] \in {"snapped", "complete"}
      BY <1>3 DEF EndRun, DecideRerun
    <2>2. l \in PCs \ {"idle", "snapped"} /\ pc[p] # "idle"
      BY <1>3 DEF PCs, EndRun, DecideRerun
    <2>3. UNCHANGED <<registry, ns, owed>>
      BY <1>3 DEF EndRun, DecideRerun
    <2> QED
      BY <1>1, <2>1, <2>2, <2>3, MoveKeepsOwners
  <1>4. CASE Finish(p) \/ DropLease(p)
    <2>1. /\ pc[p] # "idle" /\ Return(p) /\ UNCHANGED owed
          /\ registry' = [registry EXCEPT ![ns[p]] = "free"]
      BY <1>4 DEF Finish, DropLease
    <2> QED
      BY <1>1, <2>1, ReturnKeepsOwners
  <1>5. CASE Snapshot(p)
    <2>1. /\ \A q \in Callers \ {p} : pc'[q] = pc[q]
          /\ pc'[p] = "snapped" /\ pc[p] = "running"
          /\ UNCHANGED <<registry, ns>> /\ owed' = owed \ {ns[p]}
      BY <1>1, <1>5 DEF Snapshot, Goto
    <2>2. \A q \in Callers : pc'[q] # "idle" <=> pc[q] # "idle"
      BY <2>1
    <2>3. OneOwner' /\ ClaimHasOwner' /\ OwnerNamed'
      BY <1>1, <2>1, <2>2 DEF Owners, OneOwner, ClaimHasOwner, OwnerNamed
    <2>4. OwedNoted'
      BY <1>1, <2>1 DEF Owners, OwedNoted
    <2> QED
      BY <2>3, <2>4 DEF Owners
  <1>6. CASE Rerun(p)
    <2>1. /\ \A q \in Callers \ {p} : pc'[q] = pc[q]
          /\ pc'[p] = "enter" /\ pc[p] = "finishing"
          /\ UNCHANGED <<ns, owed>>
          /\ registry[ns[p]] = "pending"
          /\ registry' = [registry EXCEPT ![ns[p]] = "running"]
      BY <1>1, <1>6 DEF Rerun, Goto
    <2>2. \A q \in Callers : pc'[q] # "idle" <=> pc[q] # "idle"
      BY <2>1
    <2>3. \A n \in Namespaces : registry'[n] # "free" <=> registry[n] # "free"
      BY <1>1, <2>1 DEF GateTypeOK
    <2>4. OneOwner' /\ ClaimHasOwner' /\ OwnerNamed'
      BY <1>1, <2>1, <2>2, <2>3 DEF Owners, OneOwner, ClaimHasOwner, OwnerNamed
    <2>5. \A q \in Callers \ {p} : pc[q] # "idle" => ns[q] # ns[p] /\ ns[q] \in Namespaces
      BY <1>1, <2>1 DEF Owners, OneOwner, OwnerNamed
    <2>6. OwedNoted'
      BY <1>1, <2>1, <2>5 DEF Owners, OwedNoted, GateTypeOK
    <2> QED
      BY <2>4, <2>6 DEF Owners
  <1> QED
    BY <1>2, <1>3, <1>4, <1>5, <1>6 DEF Step

LEMMA TriggerKeepsOwners ==
    ASSUME GateInv, NEW p \in Callers, NEW n \in Namespaces,
           Coalesce(p, n) \/ Claim(p, n)
    PROVE  Owners'
  <1>1. GateTypeOK /\ Owners
    BY DEF GateInv, Owners
  <1>2. CASE Coalesce(p, n)
    <2>1. /\ UNCHANGED <<pc, ns>> /\ owed' = owed \cup {n} /\ registry[n] # "free"
          /\ registry'[n] = "pending"
          /\ \A o \in Namespaces \ {n} : registry'[o] = registry[o]
      BY <1>1, <1>2 DEF Coalesce, GateTypeOK
    <2>2. OneOwner' /\ OwnerNamed'
      BY <1>1, <2>1 DEF Owners, OneOwner, OwnerNamed
    <2>3. ClaimHasOwner'
      BY <1>1, <2>1 DEF Owners, ClaimHasOwner
    <2>4. OwedNoted'
      BY <1>1, <2>1 DEF Owners, OwedNoted, OwnerNamed
    <2> QED
      BY <2>2, <2>3, <2>4 DEF Owners
  <1>3. CASE Claim(p, n)
    <2>1. /\ \A q \in Callers \ {p} : pc'[q] = pc[q] /\ ns'[q] = ns[q]
          /\ pc'[p] = "enter" /\ ns'[p] = n /\ pc[p] = "idle"
          /\ owed' = owed \cup {n} /\ registry[n] = "free"
          /\ registry'[n] = "running"
          /\ \A o \in Namespaces \ {n} : registry'[o] = registry[o]
      BY <1>1, <1>3 DEF Claim, Goto, GateTypeOK
    <2>2. \A q \in Callers : pc[q] # "idle" => ns[q] # n
      BY <1>1, <2>1 DEF Owners, ClaimHasOwner
    <2>3. OneOwner' /\ OwnerNamed'
      BY <1>1, <2>1, <2>2 DEF Owners, OneOwner, OwnerNamed
    <2>4. ClaimHasOwner'
      BY <1>1, <2>1, <2>2 DEF Owners, ClaimHasOwner
    <2>5. OwedNoted'
      BY <1>1, <2>1, <2>2 DEF Owners, OwedNoted, OwnerNamed
    <2> QED
      BY <2>3, <2>4, <2>5 DEF Owners
  <1> QED
    BY <1>2, <1>3

LEMMA StepKeepsAgreement ==
    ASSUME GateInv, NEW p \in Callers, Step(p)
    PROVE  PermitAgrees'
  <1>1. pc \in [Callers -> PCs] /\ Stop(p) \in BOOLEAN
    BY DEF GateInv, GateTypeOK, Stop
  <1>2. CASE EnterRun(p) \/ WaitTurn(p)
    BY <1>1, <1>2, AcquireAgrees DEF EnterRun, WaitTurn
  <1>3. CASE EndRun(p)
    <2>1. /\ \A q \in Callers \ {p} : (q \in holders' <=> q \in holders) /\ ticket'[q] = ticket[q]
          /\ p \notin holders' /\ ticket'[p] = NoTicket
      BY <1>1, <1>3, PermitEffect DEF EndRun
    <2>2. /\ \A q \in Callers \ {p} : pc'[q] = pc[q]
          /\ pc'[p] \in {"complete", "failed"}
      BY <1>1, <1>3 DEF EndRun, Goto
    <2>3. ASSUME NEW q \in Callers \ {p}
          PROVE  /\ q \in holders' <=> pc'[q] \in {"running", "snapped"}
                 /\ ticket'[q] # NoTicket <=> pc'[q] \in {"waiting", "running", "snapped"}
      BY <2>1, <2>2 DEF GateInv, PermitAgrees, Live
    <2> QED
      BY <2>1, <2>2, <2>3 DEF PermitAgrees, Live
  <1>4. CASE Snapshot(p) \/ DecideRerun(p) \/ Rerun(p) \/ Finish(p) \/ DropLease(p)
    <2>1. /\ UNCHANGED <<holders, ticket>>
          /\ \A q \in Callers \ {p} : pc'[q] = pc[q]
          /\ \/ pc[p] = "running" /\ pc'[p] = "snapped"
             \/ pc[p] \notin {"waiting", "running", "snapped"}
                  /\ pc'[p] \notin {"waiting", "running", "snapped"}
      BY <1>1, <1>4 DEF Snapshot, DecideRerun, Rerun, Finish, DropLease, Return, Goto, permitVars
    <2> QED
      BY <2>1 DEF GateInv, PermitAgrees, Live
  <1> QED
    BY <1>2, <1>3, <1>4 DEF Step

LEMMA TriggerKeepsAgreement ==
    ASSUME GateInv, NEW p \in Callers, NEW n \in Namespaces,
           Coalesce(p, n) \/ Claim(p, n)
    PROVE  PermitAgrees'
  <1>1. /\ UNCHANGED <<holders, ticket>>
        /\ \A q \in Callers \ {p} : pc'[q] = pc[q]
        /\ pc[p] = "idle" /\ pc'[p] \in {"idle", "enter"}
    BY DEF Coalesce, Claim, Goto, GateInv, GateTypeOK, permitVars
  <1> QED
    BY <1>1 DEF GateInv, PermitAgrees, Live

\* The part of the type invariant that is not the permit's.
GateTypes ==
    /\ registry \in [Namespaces -> {"free", "running", "pending"}]
    /\ pc \in [Callers -> PCs]
    /\ ns \in [Callers -> Namespaces \cup {NoNamespace}]
    /\ cancelled \subseteq Callers
    /\ elapsed \in [Callers -> 0 .. MaxDuration]
    /\ owed \subseteq Namespaces

LEMMA StepKeepsTypes ==
    ASSUME GateTypes, NEW p \in Callers, Step(p)
    PROVE  GateTypes'
  <1>1. CASE EnterRun(p) \/ WaitTurn(p)
    BY <1>1 DEF EnterRun, WaitTurn, AfterAcquire, Goto, GateTypes, PCs
  <1>2. CASE Snapshot(p) \/ EndRun(p) \/ DecideRerun(p)
    BY <1>2 DEF Snapshot, EndRun, DecideRerun, Goto, GateTypes, PCs
  <1>3. CASE Rerun(p)
    BY <1>3 DEF Rerun, Goto, GateTypes, PCs
  <1>4. CASE Finish(p) \/ DropLease(p)
    BY <1>4, GateAssumption DEF Finish, DropLease, Return, GateTypes, PCs
  <1> QED
    BY <1>1, <1>2, <1>3, <1>4 DEF Step

LEMMA OthersKeepTypes ==
    ASSUME GateTypes,
           \/ Tick
           \/ \E p \in Callers : Cancel(p)
           \/ \E p \in Callers, n \in Namespaces : Coalesce(p, n) \/ Claim(p, n)
    PROVE  GateTypes'
  <1>1. CASE Tick
    BY <1>1, GateAssumption DEF Tick, GateTypes
  <1>2. ASSUME NEW p \in Callers, Cancel(p) PROVE GateTypes'
    BY <1>2 DEF Cancel, GateTypes
  <1>3. ASSUME NEW p \in Callers, NEW n \in Namespaces, Coalesce(p, n) \/ Claim(p, n)
        PROVE  GateTypes'
    BY <1>3 DEF Coalesce, Claim, Goto, GateTypes, PCs
  <1> QED
    BY <1>1, <1>2, <1>3

LEMMA GateSteps ==
    ASSUME GateInv, [GateNext]_allVars PROVE GateInv'
  <1>1. PermitInv'
    BY GateStepsPermit, PermitSteps DEF GateInv
  <1>2. GateTypes /\ Owners /\ PermitAgrees
    BY DEF GateInv, GateTypeOK, GateTypes, Owners
  <1>3. GateTypes' /\ Owners' /\ PermitAgrees'
    <2>1. CASE UNCHANGED allVars
      BY <1>2, <2>1
      DEF allVars, gateVars, permitVars, GateTypes, Owners, OneOwner, ClaimHasOwner,
          OwnerNamed, OwedNoted, PermitAgrees, Live
    <2>2. CASE Tick \/ \E p \in Callers : Cancel(p)
      BY <1>2, <2>2, OthersKeepTypes
      DEF Tick, Cancel, permitVars, Owners, OneOwner, ClaimHasOwner,
          OwnerNamed, OwedNoted, PermitAgrees, Live
    <2>3. ASSUME NEW p \in Callers, NEW n \in Namespaces, Coalesce(p, n) \/ Claim(p, n)
          PROVE  GateTypes' /\ Owners' /\ PermitAgrees'
      BY <1>2, <2>3, OthersKeepTypes, TriggerKeepsOwners, TriggerKeepsAgreement
    <2>4. ASSUME NEW p \in Callers, Step(p)
          PROVE  GateTypes' /\ Owners' /\ PermitAgrees'
      BY <1>2, <2>4, StepKeepsTypes, StepKeepsOwners, StepKeepsAgreement
    <2> QED
      BY <2>1, <2>2, <2>3, <2>4 DEF GateNext
  <1> QED
    BY <1>1, <1>3 DEF GateInv, GateTypeOK, GateTypes, Owners, PermitInv

\* The inductive invariant of the gate and the permit together.
THEOREM GateInvariant == GateSpec => []GateInv
  <1>1. GateInit => GateInv
    <2> SUFFICES ASSUME GateInit PROVE GateInv
      OBVIOUS
    <2>1. PermitInv
      BY PermitStarts DEF GateInit
    <2>2. GateTypeOK
      BY <2>1, GateAssumption DEF GateInit, GateTypeOK, PermitInv, PCs
    <2>3. OneOwner /\ ClaimHasOwner /\ OwnerNamed /\ OwedNoted
      BY DEF GateInit, OneOwner, ClaimHasOwner, OwnerNamed, OwedNoted
    <2>4. PermitAgrees
      BY DEF GateInit, PermitInit, PermitAgrees, Live
    <2> QED
      BY <2>1, <2>2, <2>3, <2>4 DEF GateInv
  <1>2. GateInv /\ [GateNext]_allVars => GateInv'
    BY GateSteps
  <1> QED
    BY <1>1, <1>2, PTL DEF GateSpec

\* Claims (claim, finish_or_rerun, Lease::drop) never give a namespace two
\* owners.
THEOREM GateHasOneOwner == GateSpec => []OneOwner
  <1>1. GateInv => OneOwner
    BY DEF GateInv
  <1> QED
    BY <1>1, GateInvariant, PTL

\* A registry entry never outlives its owner, nor is it lost under it.
THEOREM ClaimsAreOwned == GateSpec => []ClaimHasOwner
  <1>1. GateInv => ClaimHasOwner
    BY DEF GateInv
  <1> QED
    BY <1>1, GateInvariant, PTL

\* Whatever the gate does, one pass runs at a time in the process.
THEOREM OnePassAtATime == GateSpec => []OnePass
  <1>1. GateInv => OnePass
    BY InvExcludes DEF GateInv, PermitAgrees, OnePass, PermitExclusion
  <1> QED
    BY <1>1, GateInvariant, PTL

\* A complete owner leaves no trigger behind that its snapshot did not cover
\* (finish_or_rerun tests and removes under one lock).
THEOREM CoalescingDropsNoWork == GateSpec => NoWorkDropped
  <1> DEFINE A == \A p \in Callers :
                     pc[p] = "finishing" /\ pc'[p] = "idle" => ns[p] \notin owed
  <1>1. GateInv /\ [GateNext]_allVars => [A]_allVars
    <2> SUFFICES ASSUME GateInv, GateNext, NEW p \in Callers,
                        pc[p] = "finishing", pc'[p] = "idle"
                 PROVE  ns[p] \notin owed
      OBVIOUS
    <2>1. pc \in [Callers -> PCs]
      BY DEF GateInv, GateTypeOK
    <2>2. ~Tick /\ \A q \in Callers : ~Cancel(q) /\ \A n \in Namespaces : ~Coalesce(q, n)
      BY DEF Tick, Cancel, Coalesce
    <2>3. \A q \in Callers : \A n \in Namespaces : ~Claim(q, n)
      BY <2>1 DEF Claim, Goto
    <2>4. PICK q \in Callers : Step(q)
      BY <2>2, <2>3 DEF GateNext
    <2>5. q = p
      BY <2>1, <2>4
      DEF Step, EnterRun, WaitTurn, AfterAcquire, Snapshot, EndRun, DecideRerun, Rerun,
          Finish, DropLease, Return, Goto
    <2>6. Finish(p)
      BY <2>1, <2>4, <2>5
      DEF Step, EnterRun, WaitTurn, Snapshot, EndRun, DecideRerun, Rerun, DropLease, Goto
    <2> QED
      BY <2>6 DEF Finish, GateInv, OwedNoted
  <1> QED
    BY <1>1, GateInvariant, PTL DEF GateSpec, NoWorkDropped

\* Inside dispatch, too, callers are served in the order of their tickets,
\* whatever the clock and the cancellations do to them (acquire,
\* FairPermitGuard::drop).
THEOREM GateImplementsFifo == GateSpec => ImplementsFifo
  <1>1. GateInit => Fifo!Init
    BY PermitStartsLine DEF GateInit
  <1>2. GateInv /\ [GateNext]_allVars => [Fifo!Next]_(Fifo!vars)
    BY GateStepsPermit, PermitStepsLine DEF GateInv
  <1> QED
    BY <1>1, <1>2, GateInvariant, PTL DEF GateSpec, ImplementsFifo, Fifo!Spec

-----------------------------------------------------------------------------
(* Functions that are defined by the number before: the horizon and the    *)
(* price.                                                                  *)

\* A set of numbers that is not empty has a least one.
LEMMA LeastNat ==
    ASSUME NEW S \in SUBSET Nat, S # {}
    PROVE  \E m \in S : \A n \in S : m <= n
  <1>1. PICK x \in S : \A y \in S : <<y, x>> \notin OpToRel(<, Nat)
    BY NatLessThanWellFounded, WFMin
  <1>2. \A y \in S : ~(y < x)
    BY <1>1 DEF OpToRel
  <1> QED
    BY <1>2

\* A first value and a step define a function on the numbers.
LEMMA Recursion ==
    ASSUME NEW b \in Int, NEW step \in [Nat \X Int -> Int]
    PROVE  \E p \in [Nat -> Int] :
               p[0] = b /\ \A n \in Nat \ {0} : p[n] = step[<<n, p[n - 1]>>]
  <1> DEFINE Upto(n, f) == f[0] = b /\ \A k \in 1 .. n : f[k] = step[<<k, f[k - 1]>>]
  <1>1. ASSUME NEW n \in Nat PROVE \E f \in [0 .. n -> Int] : Upto(n, f)
    <2> DEFINE S == {k \in Nat : ~\E f \in [0 .. k -> Int] : Upto(k, f)}
    <2> SUFFICES ASSUME S # {} PROVE FALSE
      OBVIOUS
    <2>1. PICK m \in S : \A k \in S : m <= k
      BY LeastNat
    <2> HIDE DEF Upto
    <2>2. CASE m = 0
      <3> DEFINE f == [k \in 0 .. 0 |-> b]
      <3>1. f \in [0 .. m -> Int] /\ Upto(m, f)
        BY <2>2 DEF Upto
      <3> HIDE DEF f
      <3> QED
        BY <2>1, <3>1
    <2>3. CASE m # 0
      <3>1. m - 1 \in Nat /\ m - 1 \notin S
        BY <2>1, <2>3
      <3>2. PICK f \in [0 .. m - 1 -> Int] : Upto(m - 1, f)
        BY <3>1
      <3> DEFINE g == [k \in 0 .. m |-> IF k = m THEN step[<<m, f[m - 1]>>] ELSE f[k]]
      <3>3. step[<<m, f[m - 1]>>] \in Int
        BY <3>1, <3>2
      <3>4. g \in [0 .. m -> Int]
        BY <3>2, <3>3
      <3>5. g[0] = b
        BY <2>3, <3>2 DEF Upto
      <3>6. ASSUME NEW k \in 1 .. m PROVE g[k] = step[<<k, g[k - 1]>>]
        <4>1. CASE k = m
          <5>1. m - 1 \in 0 .. m /\ m - 1 # m /\ m \in 0 .. m
            BY <3>1
          <5>2. g[m - 1] = f[m - 1] /\ g[m] = step[<<m, f[m - 1]>>]
            BY <5>1
          <5> QED
            BY <4>1, <5>2
        <4>2. CASE k # m
          <5>1. k \in 1 .. m - 1 /\ k \in 0 .. m /\ k - 1 \in 0 .. m /\ k - 1 # m
            BY <3>1, <4>2
          <5>2. g[k] = f[k] /\ g[k - 1] = f[k - 1]
            BY <4>2, <5>1
          <5>3. f[k] = step[<<k, f[k - 1]>>]
            BY <3>2, <5>1 DEF Upto
          <5> QED
            BY <5>2, <5>3
        <4> QED
          BY <4>1, <4>2
      <3>7. Upto(m, g)
        BY <3>5, <3>6 DEF Upto
      <3> HIDE DEF g
      <3> QED
        BY <2>1, <3>4, <3>7
    <2> QED
      BY <2>2, <2>3
  <1>2. ASSUME NEW n \in Nat, NEW m \in Nat, NEW f, NEW g, Upto(n, f), Upto(m, g),
               NEW i \in Nat, i <= n, i <= m
        PROVE  f[i] = g[i]
    <2> DEFINE S == {k \in Nat : k <= n /\ k <= m /\ f[k] # g[k]}
    <2> SUFFICES ASSUME S # {} PROVE FALSE
      BY <1>2
    <2>1. PICK k \in S : \A j \in S : k <= j
      BY LeastNat
    <2>2. k # 0
      BY <1>2, <2>1
    <2>3. k - 1 \in Nat /\ k - 1 \notin S
      BY <2>1, <2>2
    <2>4. f[k - 1] = g[k - 1] /\ k \in 1 .. n /\ k \in 1 .. m
      BY <2>1, <2>2, <2>3
    <2>5. f[k] = step[<<k, f[k - 1]>>] /\ g[k] = step[<<k, g[k - 1]>>]
      BY <1>2, <2>4
    <2> QED
      BY <2>1, <2>4, <2>5
  <1> DEFINE F == [n \in Nat |-> CHOOSE f \in [0 .. n -> Int] : Upto(n, f)]
             p == [n \in Nat |-> F[n][n]]
  <1>3. ASSUME NEW n \in Nat PROVE F[n] \in [0 .. n -> Int] /\ Upto(n, F[n])
    BY <1>1
  <1> HIDE DEF F
  <1>4. p \in [Nat -> Int] /\ p[0] = b
    BY <1>3
  <1>5. ASSUME NEW n \in Nat \ {0} PROVE p[n] = step[<<n, p[n - 1]>>]
    <2>1. n - 1 \in Nat /\ n \in Nat /\ n \in 1 .. n
      OBVIOUS
    <2>2. p[n] = F[n][n] /\ p[n - 1] = F[n - 1][n - 1]
      BY <2>1
    <2>3. F[n][n] = step[<<n, F[n][n - 1]>>]
      BY <1>3, <2>1
    <2>4. Upto(n, F[n]) /\ Upto(n - 1, F[n - 1])
      BY <1>3, <2>1
    <2> HIDE DEF Upto
    <2>5. F[n][n - 1] = F[n - 1][n - 1]
      BY <1>2, <2>1, <2>4
    <2> QED
      BY <2>2, <2>3, <2>5
  <1> QED
    BY <1>4, <1>5

LEMMA HorizonUnfolds ==
    /\ HorizonOf \in [Nat -> Int]
    /\ HorizonOf[0] = Horizon
    /\ \A n \in Nat \ {0} : HorizonOf[n] = HorizonOf[n - 1] \div 2
  <1> DEFINE step == [x \in Nat \X Int |-> x[2] \div 2]
             Same(H) == H = [h \in Nat |-> IF h = 0 THEN Horizon ELSE H[h - 1] \div 2]
  <1>1. step \in [Nat \X Int -> Int] /\ Horizon \in Int
    BY DecayAssumption
  <1>2. PICK p \in [Nat -> Int] : p[0] = Horizon /\ \A n \in Nat \ {0} : p[n] = step[<<n, p[n - 1]>>]
    <2> HIDE DEF step
    <2> QED
      BY <1>1, Recursion
  <1>3. ASSUME NEW n \in Nat \ {0} PROVE n - 1 \in Nat /\ p[n] = p[n - 1] \div 2
    <2>1. n - 1 \in Nat /\ n \in Nat /\ n # 0 /\ p[n - 1] \in Int
      BY <1>2
    <2>2. step[<<n, p[n - 1]>>] = p[n - 1] \div 2
      BY <2>1
    <2> HIDE DEF step
    <2> QED
      BY <1>2, <2>1, <2>2
  <1>4. Same(p)
    <2>1. \A n \in Nat : p[n] = IF n = 0 THEN Horizon ELSE p[n - 1] \div 2
      BY <1>2, <1>3
    <2>2. p = [n \in Nat |-> p[n]]
      BY <1>2
    <2> QED
      BY <2>1, <2>2
  <1>5. Same(HorizonOf)
    <2>1. HorizonOf = CHOOSE H : Same(H)
      BY DEF HorizonOf
    <2> HIDE DEF Same
    <2> QED
      BY <1>4, <2>1
  <1>6. ASSUME NEW n \in Nat PROVE HorizonOf[n] \in Int
    <2> DEFINE S == {k \in Nat : HorizonOf[k] \notin Int}
    <2> SUFFICES ASSUME S # {} PROVE FALSE
      OBVIOUS
    <2>1. PICK k \in S : \A j \in S : k <= j
      BY LeastNat
    <2>2. k # 0
      BY <1>1, <1>5, <2>1
    <2>3. k - 1 \in Nat /\ HorizonOf[k - 1] \in Int
      BY <2>1, <2>2
    <2>4. HorizonOf[k] = HorizonOf[k - 1] \div 2
      BY <1>5, <2>1, <2>2
    <2>5. HorizonOf[k] \in Int
      BY <2>3, <2>4
    <2> QED
      BY <2>1, <2>5
  <1>7. HorizonOf = [n \in Nat |-> HorizonOf[n]]
    BY <1>5
  <1>8. HorizonOf \in [Nat -> Int]
    BY <1>6, <1>7
  <1> QED
    BY <1>1, <1>5, <1>8

\* The price goes on by a horizon and a tick.
LEMMA PriceUnfolds ==
    /\ Price \in [Nat -> Int]
    /\ Price[0] = 0
    /\ \A n \in Nat : Price[n + 1] = Price[n] + HorizonOf[n] + 1
  <1> DEFINE step == [x \in Nat \X Int |-> IF x[1] = 0 THEN 0 ELSE x[2] + HorizonOf[x[1] - 1] + 1]
             Same(P) == P = [n \in Nat |-> IF n = 0 THEN 0 ELSE P[n - 1] + HorizonOf[n - 1] + 1]
  <1>1. step \in [Nat \X Int -> Int]
    BY HorizonUnfolds
  <1>2. PICK p \in [Nat -> Int] : p[0] = 0 /\ \A n \in Nat \ {0} : p[n] = step[<<n, p[n - 1]>>]
    <2> HIDE DEF step
    <2>1. \A b \in Int : \E p \in [Nat -> Int] :
              p[0] = b /\ \A n \in Nat \ {0} : p[n] = step[<<n, p[n - 1]>>]
      BY <1>1, Recursion
    <2>2. 0 \in Int
      OBVIOUS
    <2> QED
      BY <2>1, <2>2, Zenon
  <1>3. ASSUME NEW n \in Nat \ {0} PROVE n - 1 \in Nat /\ p[n] = p[n - 1] + HorizonOf[n - 1] + 1
    <2>1. n - 1 \in Nat /\ n \in Nat /\ n # 0 /\ p[n - 1] \in Int
      BY <1>2
    <2>2. <<n, p[n - 1]>> \in Nat \X Int
      BY <2>1
    <2>3. step[<<n, p[n - 1]>>] = p[n - 1] + HorizonOf[n - 1] + 1
      BY <2>1, <2>2
    <2> HIDE DEF step
    <2> QED
      BY <1>2, <2>1, <2>3
  <1>4. Same(p)
    <2>1. \A n \in Nat : p[n] = IF n = 0 THEN 0 ELSE p[n - 1] + HorizonOf[n - 1] + 1
      BY <1>2, <1>3
    <2>2. p = [n \in Nat |-> p[n]]
      BY <1>2
    <2> QED
      BY <2>1, <2>2
  <1>5. Same(Price)
    <2>1. Price = CHOOSE P : Same(P)
      BY DEF Price
    <2> HIDE DEF Same
    <2> QED
      BY <1>4, <2>1
  <1>6. ASSUME NEW n \in Nat PROVE Price[n] \in Int
    <2> DEFINE S == {k \in Nat : Price[k] \notin Int}
    <2> SUFFICES ASSUME S # {} PROVE FALSE
      OBVIOUS
    <2>1. PICK k \in S : \A j \in S : k <= j
      BY LeastNat
    <2>2. k # 0
      BY <1>5, <2>1
    <2>3. k - 1 \in Nat /\ Price[k - 1] \in Int
      BY <2>1, <2>2
    <2>4. Price[k] = Price[k - 1] + HorizonOf[k - 1] + 1
      BY <1>5, <2>1, <2>2
    <2>5. Price[k] \in Int
      BY <2>3, <2>4, HorizonUnfolds
    <2> QED
      BY <2>1, <2>5
  <1>7. ASSUME NEW n \in Nat PROVE Price[n + 1] = Price[n] + HorizonOf[n] + 1
    <2>1. n + 1 \in Nat /\ n + 1 # 0 /\ (n + 1) - 1 = n
      OBVIOUS
    <2> QED
      BY <1>5, <2>1
  <1>8. Price = [n \in Nat |-> Price[n]]
    BY <1>5
  <1>9. Price \in [Nat -> Int]
    BY <1>6, <1>8
  <1> QED
    BY <1>5, <1>7, <1>9

-----------------------------------------------------------------------------
(* Pages                                                                   *)

\* The rows of S before a row, and how their numbers compare.
LEMMA CountBefore ==
    ASSUME NEW S \in SUBSET Rows
    PROVE  /\ IsFiniteSet(S) /\ Cardinality(S) \in Nat
           /\ \A m \in S : LET B == {x \in S : x < m} IN
                  IsFiniteSet(B) /\ Cardinality(B) \in Nat /\ Cardinality(B) < Cardinality(S)
           /\ \A m, k \in S : m < k =>
                  Cardinality({x \in S : x < m}) < Cardinality({x \in S : x < k})
           /\ \A m, k \in S : m <= k =>
                  Cardinality({x \in S : x < m}) <= Cardinality({x \in S : x < k})
  <1>1. IsFiniteSet(S) /\ Cardinality(S) \in Nat /\ S \subseteq Nat
    BY FS_Subset, FS_CardinalityType, DecayAssumption
  <1>2. \A T \in SUBSET S : /\ IsFiniteSet(T) /\ Cardinality(T) \in Nat
                            /\ Cardinality(T) <= Cardinality(S)
                            /\ Cardinality(T) = Cardinality(S) => T = S
    BY <1>1, FS_Subset, FS_CardinalityType
  <1>3. ASSUME NEW m \in S PROVE
            LET B == {x \in S : x < m} IN
            IsFiniteSet(B) /\ Cardinality(B) \in Nat /\ Cardinality(B) < Cardinality(S)
    <2> DEFINE B == {x \in S : x < m}
    <2>1. B \in SUBSET S /\ m \notin B
      BY <1>1
    <2> HIDE DEF B
    <2>2. IsFiniteSet(B) /\ Cardinality(B) \in Nat /\ Cardinality(B) <= Cardinality(S) /\ Cardinality(B) # Cardinality(S)
      BY <1>2, <2>1
    <2>3. Cardinality(B) < Cardinality(S)
      BY <1>1, <2>2
    <2> QED
      BY <2>2, <2>3 DEF B
  <1>4. ASSUME NEW m \in S, NEW k \in S, m <= k PROVE
            /\ Cardinality({x \in S : x < m}) <= Cardinality({x \in S : x < k})
            /\ m < k => Cardinality({x \in S : x < m}) < Cardinality({x \in S : x < k})
    <2> DEFINE B == {x \in S : x < m}
               C == {x \in S : x < k}
    <2>1. B \in SUBSET C /\ C \in SUBSET S /\ m \notin B /\ (m < k => m \in C)
      <3>1. m \in Nat /\ k \in Nat
        BY <1>1
      <3>2. ASSUME NEW x \in S, x < m PROVE x < k
        BY <1>1, <1>4, <3>1, <3>2
      <3>3. ~(m < m)
        BY <3>1
      <3> QED
        BY <3>2, <3>3
    <2> HIDE DEF B, C
    <2>2. IsFiniteSet(C) /\ Cardinality(C) \in Nat /\ Cardinality(B) \in Nat
      BY <1>2, <2>1
    <2>3. Cardinality(B) <= Cardinality(C) /\ (Cardinality(B) = Cardinality(C) => B = C)
      BY <2>1, <2>2, FS_Subset
    <2>4. m < k => Cardinality(B) < Cardinality(C)
      BY <2>1, <2>2, <2>3
    <2> QED
      BY <2>3, <2>4 DEF B, C
  <1>5. \A m, k \in S : m < k => m <= k
    BY <1>1
  <1> QED
    BY <1>1, <1>3, <1>4, <1>5

\* A page is not empty, ends with the row the cursor is set to, and what is not
\* in it comes after the cursor.
LEMMA PageFacts ==
    ASSUME NEW S \in SUBSET Rows, S # {}
    PROVE  /\ FirstOf(S, DecayPage) \subseteq S
           /\ Cursor(S) \in Nat
           /\ \A m \in S \ FirstOf(S, DecayPage) : m > Cursor(S)
           /\ Cardinality(S) <= DecayPage => FirstOf(S, DecayPage) = S
  <1> DEFINE P == FirstOf(S, DecayPage)
             Before(m) == Cardinality({x \in S : x < m})
  <1>1. S \subseteq Nat /\ DecayPage \in Nat \ {0} /\ Cardinality(S) \in Nat
    BY DecayAssumption, CountBefore
  <1>2. \A m \in S : Before(m) \in Nat /\ Before(m) < Cardinality(S)
    BY CountBefore
  <1>3. \A m, k \in S : (m < k => Before(m) < Before(k)) /\ (m <= k => Before(m) <= Before(k))
    BY CountBefore
  <1>4. P = {m \in S : Before(m) < DecayPage}
    BY DEF FirstOf
  <1> HIDE DEF Before, P
  <1>5. P # {}
    <2>1. PICK m \in S : \A k \in S : m <= k
      BY <1>1, LeastNat
    <2>2. {x \in S : x < m} = {}
      <3>1. ASSUME NEW x \in S PROVE ~(x < m)
        BY <1>1, <2>1
      <3> QED
        BY <3>1
    <2>3. Before(m) = 0
      BY <2>2, FS_EmptySet DEF Before
    <2> QED
      BY <1>1, <1>4, <2>3
  <1>6. \E k \in P : \A m \in P : k >= m
    <2> DEFINE D == {DecayPage - Before(m) : m \in P}
    <2>1. D \in SUBSET Nat /\ D # {}
      <3>1. ASSUME NEW m \in P PROVE DecayPage - Before(m) \in Nat
        BY <1>1, <1>2, <1>4
      <3> QED
        BY <1>5, <3>1
    <2>2. PICK d \in D : \A e \in D : d <= e
      BY <2>1, LeastNat
    <2>3. PICK k \in P : d = DecayPage - Before(k)
      BY <2>2
    <2>4. ASSUME NEW m \in P PROVE k >= m
      <3>1. DecayPage - Before(k) <= DecayPage - Before(m)
        BY <2>2, <2>3, <2>4
      <3>2. Before(k) >= Before(m)
        BY <3>1, <1>1, <1>2, <1>4
      <3>3. k \in S /\ m \in S /\ k \in Nat /\ m \in Nat
        BY <1>1, <1>4
      <3> QED
        BY <1>2, <1>3, <3>2, <3>3
    <2> QED
      BY <2>4
  <1> DEFINE k == Max(P)
  <1>7. k \in P /\ \A m \in P : k >= m
    BY <1>6 DEF Max
  <1>8. Cursor(S) = k
    BY <1>5 DEF Cursor, P
  <1> HIDE DEF k
  <1>9. ASSUME NEW m \in S \ P PROVE m > k
    <2>1. k \in S /\ Before(k) < DecayPage /\ ~(Before(m) < DecayPage)
      BY <1>4, <1>7
    <2>2. ~(m <= k)
      BY <1>1, <1>2, <1>3, <2>1
    <2> QED
      BY <1>1, <2>1, <2>2
  <1>10. Cardinality(S) <= DecayPage => P = S
    <2>1. ASSUME Cardinality(S) <= DecayPage, NEW m \in S PROVE Before(m) < DecayPage
      BY <1>1, <1>2, <2>1
    <2> QED
      BY <1>4, <2>1
  <1>11. P \subseteq S /\ k \in Nat
    BY <1>1, <1>4, <1>7
  <1> QED
    BY <1>8, <1>9, <1>10, <1>11 DEF P

-----------------------------------------------------------------------------
(* The invariant                                                           *)

Passes ==
    [at : {"idle", "paging", "paged", "complete"}, now : Nat, after : Nat,
     page : SUBSET (Rows \X Nat \X Nat), more : BOOLEAN, unseen : SUBSET Rows]

Recalls == [row : Nat, halved : Nat]

DTypeOK ==
    /\ clock \in Nat
    /\ live \in SUBSET Rows
    /\ halved \in [Rows -> Nat] /\ ref \in [Rows -> Nat]
    /\ pass \in [Sweepers -> Passes]
    /\ recall \in Recalls
    /\ used \in [Rows -> Int] /\ fresh \in SUBSET Rows

\* What a pass has not seen is there, after its cursor, and nothing after its
\* last page.
Sees(p) ==
    /\ p.at \in {"paging", "paged"} => p.unseen \subseteq Later(p.after)
    /\ p.at = "paged" /\ ~p.more => p.unseen = {}
    /\ p.at = "complete" => p.unseen = {}

\* A row that was never recalled has paid for its halvings by its last access,
\* which a page remembers.
PaidBy(m, h, a) == m \in fresh => Price[h] <= a - used[m]

Paid ==
    /\ \A m \in Rows :
           /\ ref[m] <= clock /\ used[m] <= clock
           /\ m \in live => used[m] # Unsaved
           /\ used[m] = Unsaved => halved[m] = 0
           /\ used[m] # Unsaved => PaidBy(m, halved[m], ref[m])
    /\ \A r \in Sweepers :
           /\ pass[r].now <= clock
           /\ \A e \in pass[r].page :
                  e[3] <= clock /\ used[e[1]] # Unsaved /\ PaidBy(e[1], e[2], e[3])

DecayInv == DTypeOK /\ (\A r \in Sweepers : Sees(pass[r])) /\ Paid

LEMMA DecayStarts == DInit => DecayInv
  <1> SUFFICES ASSUME DInit PROVE DecayInv
    OBVIOUS
  <1>1. NoPass \in Passes /\ NoRecall \in Recalls
    BY DEF NoPass, Passes, NoRecall, Recalls
  <1>2. DTypeOK
    BY <1>1 DEF DInit, DTypeOK, Unsaved
  <1>3. \A r \in Sweepers : pass[r] = NoPass
    BY DEF DInit
  <1>4. Sees(NoPass) /\ NoPass.now = 0 /\ NoPass.page = {}
    BY DEF Sees, NoPass
  <1>5. \A m \in Rows : PaidBy(m, halved[m], ref[m]) \/ used[m] = Unsaved
    BY PriceUnfolds DEF DInit, PaidBy, Unsaved
  <1>6. Paid
    <2>1. ASSUME NEW m \in Rows
          PROVE  /\ ref[m] <= clock /\ used[m] <= clock
                 /\ m \in live => used[m] # Unsaved
                 /\ used[m] = Unsaved => halved[m] = 0
      BY DEF DInit, Unsaved
    <2>2. \A r \in Sweepers : pass[r].now <= clock /\ pass[r].page = {}
      BY <1>3, <1>4 DEF DInit
    <2> QED
      BY <1>5, <2>1, <2>2 DEF Paid
  <1> QED
    BY <1>2, <1>3, <1>4, <1>6 DEF DecayInv

\* A pass that takes a step is one of the shape of passes that sees its rows
\* and knows its page; the others and the rows stay.
LEMMA PassStep ==
    ASSUME DecayInv, NEW r \in Sweepers, NEW p \in Passes, Sees(p), p.now <= clock,
           \A e \in p.page :
               e[3] <= clock /\ used[e[1]] # Unsaved /\ PaidBy(e[1], e[2], e[3]),
           pass' = [pass EXCEPT ![r] = p],
           UNCHANGED <<clock, live, recall, used, fresh>>
    PROVE  /\ \A q \in Sweepers : Sees(pass[q])'
           /\ pass' \in [Sweepers -> Passes]
           /\ \A q \in Sweepers :
                  /\ pass'[q].now <= clock'
                  /\ \A e \in pass'[q].page :
                         e[3] <= clock' /\ used'[e[1]] # Unsaved /\ PaidBy(e[1], e[2], e[3])'
  <1>1. \A q \in Sweepers : pass'[q] = IF q = r THEN p ELSE pass[q]
    BY DEF DecayInv, DTypeOK
  <1>2. pass' \in [Sweepers -> Passes]
    BY DEF DecayInv, DTypeOK
  <1>3. ASSUME NEW q \in Sweepers PROVE Sees(pass[q])'
    BY <1>1 DEF DecayInv, Sees, Later
  <1>4. ASSUME NEW q \in Sweepers
        PROVE  /\ pass'[q].now <= clock'
               /\ \A e \in pass'[q].page :
                      e[3] <= clock' /\ used'[e[1]] # Unsaved /\ PaidBy(e[1], e[2], e[3])'
    BY <1>1 DEF DecayInv, Paid, PaidBy
  <1> QED
    BY <1>2, <1>3, <1>4

\* Then the rows are as they were, if their values are.
LEMMA PassOnly ==
    ASSUME DecayInv, NEW r \in Sweepers, NEW p \in Passes, Sees(p), p.now <= clock,
           \A e \in p.page :
               e[3] <= clock /\ used[e[1]] # Unsaved /\ PaidBy(e[1], e[2], e[3]),
           pass' = [pass EXCEPT ![r] = p],
           UNCHANGED <<clock, live, halved, ref, recall, used, fresh>>
    PROVE  DecayInv'
  <1>1. DTypeOK'
    BY PassStep DEF DecayInv, DTypeOK
  <1>2. \A m \in Rows :
            /\ ref'[m] <= clock' /\ used'[m] <= clock'
            /\ m \in live' => used'[m] # Unsaved
            /\ used'[m] = Unsaved => halved'[m] = 0
            /\ used'[m] # Unsaved => PaidBy(m, halved[m], ref[m])'
    BY DEF DecayInv, Paid, PaidBy
  <1> QED
    BY <1>1, <1>2, PassStep DEF DecayInv, Paid

LEMMA BeginKeeps ==
    ASSUME DecayInv, NEW r \in Sweepers, BeginPass(r) PROVE DecayInv'
  <1>0. PICK p : p = [NoPass EXCEPT !.at = "paging", !.now = clock, !.unseen = live]
    OBVIOUS
  <1>1. pass' = [pass EXCEPT ![r] = p]
    BY <1>0 DEF BeginPass
  <1>2. /\ p \in Passes
        /\ p.at = "paging" /\ p.now = clock /\ p.after = 0 /\ p.page = {} /\ p.unseen = live
    BY <1>0 DEF DecayInv, DTypeOK, NoPass, Passes
  <1>3. live \subseteq Later(0) /\ p.now <= clock
    BY <1>2, DecayAssumption DEF DecayInv, DTypeOK, Later
  <1>4. Sees(p)
    BY <1>2, <1>3 DEF Sees
  <1> QED
    BY <1>1, <1>2, <1>3, <1>4, PassOnly DEF BeginPass

LEMMA PageKeeps ==
    ASSUME DecayInv, NEW r \in Sweepers, PageDecay(r) PROVE DecayInv'
  <1> DEFINE o == pass[r]
             S == Later(o.after)
             P == FirstOf(S, DecayPage)
  <1>1. o \in Passes /\ o.at = "paging" /\ Sees(o) /\ o.now <= clock /\ o.unseen \subseteq S
    BY DEF DecayInv, DTypeOK, PageDecay, Paid, Sees
  <1>2. S \in SUBSET live /\ S \in SUBSET Rows
    BY DEF Later, DecayInv, DTypeOK
  <1>3. CASE S = {}
    <2>0. PICK p : p = Completed(o)
      OBVIOUS
    <2>1. pass' = [pass EXCEPT ![r] = p]
      BY <1>3, <2>0 DEF PageDecay
    <2>2. o.now \in Nat /\ o.unseen \in SUBSET Rows
      BY <1>1 DEF Passes
    <2>3. /\ p \in Passes
          /\ p.at = "complete" /\ p.now = o.now /\ p.page = {} /\ p.unseen = o.unseen
      BY <2>0, <2>2 DEF Completed, NoPass, Passes
    <2> HIDE DEF o, S
    <2>4. Sees(p) /\ p.now <= clock
      BY <1>1, <1>3, <2>3 DEF Sees
    <2> QED
      BY <2>1, <2>3, <2>4, PassOnly DEF PageDecay
  <1>4. CASE S # {}
    <2>1. /\ P \subseteq S /\ Cursor(S) \in Nat
          /\ \A m \in S \ P : m > Cursor(S)
          /\ Cardinality(S) <= DecayPage => P = S
      BY <1>2, <1>4, PageFacts
    <2>2. Cardinality(S) \in Nat /\ DecayPage \in Nat
      BY <1>2, CountBefore, DecayAssumption
    <2> DEFINE K == {<<m, halved[m], ref[m]>> : m \in P}
    <2>0. PICK p : p = [o EXCEPT !.at = "paged", !.after = Cursor(S),
                                 !.more = Cardinality(S) > DecayPage,
                                 !.page = K, !.unseen = @ \ P]
      OBVIOUS
    <2>3. pass' = [pass EXCEPT ![r] = p]
      BY <1>4, <2>0 DEF PageDecay
    <2>4. (Cardinality(S) > DecayPage) \in BOOLEAN /\ o.unseen \ P \in SUBSET Rows
      BY <1>1 DEF Passes
    <2>5. \A m \in P : m \in Rows /\ m \in live /\ halved[m] \in Nat /\ ref[m] \in Nat
      BY <1>2, <2>1 DEF DecayInv, DTypeOK
    <2>6. K \in SUBSET (Rows \X Nat \X Nat)
      BY <2>5
    <2>7. /\ p \in Passes
          /\ p.at = "paged" /\ p.now = o.now /\ p.after = Cursor(S) /\ p.page = K
          /\ p.more = (Cardinality(S) > DecayPage) /\ p.unseen = o.unseen \ P
      <3> HIDE DEF K, P, S, o
      <3> QED
        BY <1>1, <2>0, <2>1, <2>4, <2>6 DEF Passes
    <2> HIDE DEF K, P, S, o
    <2>8. o.unseen \ P \subseteq Later(Cursor(S))
      BY <1>1, <1>2, <2>1 DEF Later
    <2>9. Cardinality(S) <= DecayPage => o.unseen \ P = {}
      BY <1>1, <2>1
    <2>10. ~p.more => ~(Cardinality(S) > DecayPage)
      BY <2>7, Zenon
    <2>11. ~p.more => Cardinality(S) <= DecayPage
      BY <2>2, <2>10
    <2>12. Sees(p) /\ p.now <= clock
      BY <1>1, <2>7, <2>8, <2>9, <2>11 DEF Sees
    <2>13. ASSUME NEW e \in K
           PROVE  e[3] <= clock /\ used[e[1]] # Unsaved /\ PaidBy(e[1], e[2], e[3])
      <3>1. PICK m \in P : e = <<m, halved[m], ref[m]>>
        BY DEF K
      <3>2. ref[m] <= clock /\ used[m] # Unsaved /\ PaidBy(m, halved[m], ref[m])
        BY <2>5 DEF DecayInv, Paid
      <3>3. e[1] = m /\ e[2] = halved[m] /\ e[3] = ref[m]
        BY <3>1
      <3> QED
        BY <3>2, <3>3
    <2> QED
      BY <2>3, <2>7, <2>12, <2>13, PassOnly DEF PageDecay
  <1> QED
    BY <1>3, <1>4

LEMMA StopKeeps ==
    ASSUME DecayInv, NEW r \in Sweepers, StopPass(r) PROVE DecayInv'
  <1>1. NoPass \in Passes /\ Sees(NoPass) /\ NoPass.now <= clock /\ NoPass.page = {}
    BY DEF NoPass, Passes, Sees, DecayInv, DTypeOK
  <1> QED
    BY <1>1, PassOnly DEF StopPass

\* An entry of a page has paid, at the time of its commit, for what it has then.
LEMMA EntryPays ==
    ASSUME DecayInv, NEW r \in Sweepers, NEW e \in pass[r].page
    PROVE  /\ Halved(e, pass[r].now) \in Nat
           /\ used[e[1]] # Unsaved
           /\ PaidBy(e[1], Halved(e, pass[r].now), clock)
  <1> DEFINE now == pass[r].now
             h == e[2]
             a == e[3]
             u == used[e[1]]
  <1>1. e \in Rows \X Nat \X Nat /\ now \in Nat
    BY DEF DecayInv, DTypeOK, Passes
  <1>2. e[1] \in Rows /\ h \in Nat /\ a \in Nat /\ u \in Int /\ clock \in Nat
    BY <1>1 DEF DecayInv, DTypeOK
  <1>3. now <= clock /\ a <= clock /\ u # Unsaved /\ PaidBy(e[1], h, a)
    BY DEF DecayInv, Paid
  <1>4. CASE FadedIn(e, now)
    <2>1. Halved(e, now) = h + 1 /\ now - a > HorizonOf[h]
      BY <1>4 DEF Halved, FadedIn, Faded
    <2>2. Price[h + 1] = Price[h] + HorizonOf[h] + 1 /\ Price[h] \in Int /\ HorizonOf[h] \in Int
      BY <1>2, PriceUnfolds, HorizonUnfolds
    <2>3. ASSUME e[1] \in fresh PROVE Price[h + 1] <= clock - u
      <3>1. Price[h] <= a - u
        BY <1>3, <2>3 DEF PaidBy
      <3> QED
        BY <1>1, <1>2, <1>3, <2>1, <2>2, <3>1
    <2>4. h + 1 \in Nat
      BY <1>2
    <2> QED
      BY <1>3, <2>1, <2>3, <2>4 DEF PaidBy
  <1>5. CASE ~FadedIn(e, now)
    <2>1. Halved(e, now) = h
      BY <1>5 DEF Halved
    <2>2. ASSUME e[1] \in fresh PROVE Price[h] <= clock - u
      <3>1. Price[h] <= a - u
        BY <1>3, <2>2 DEF PaidBy
      <3>2. Price[h] \in Int
        BY <1>2, PriceUnfolds
      <3> QED
        BY <1>2, <1>3, <3>1, <3>2
    <2> QED
      BY <1>2, <1>3, <2>1, <2>2 DEF PaidBy
  <1> QED
    BY <1>4, <1>5

\* So has every row after the commit.
LEMMA CommitPays ==
    ASSUME DecayInv, NEW r \in Sweepers, NEW U \in SUBSET pass[r].page,
           CommitDecay(U, pass[r].now)
    PROVE  /\ halved' \in [Rows -> Nat] /\ ref' \in [Rows -> Nat]
           /\ \A m \in Rows :
                  \/ halved'[m] = halved[m] /\ ref'[m] = ref[m]
                  \/ m \in live /\ ref'[m] = clock /\ PaidBy(m, halved'[m], clock)
  <1> DEFINE now == pass[r].now
             Hit(m) == m \in live /\ \E e \in U : e[1] = m
             E(m) == CHOOSE e \in U : e[1] = m
  <1>1. /\ halved' = [m \in Rows |-> IF Hit(m) THEN Halved(E(m), now) ELSE halved[m]]
        /\ ref' = [m \in Rows |-> IF Hit(m) THEN clock ELSE ref[m]]
    BY DEF CommitDecay
  <1>2. ASSUME NEW m \in Rows, Hit(m)
        PROVE  Halved(E(m), now) \in Nat /\ PaidBy(m, Halved(E(m), now), clock)
    <2>1. PICK e : e = E(m)
      OBVIOUS
    <2>2. e \in U /\ e[1] = m
      BY <1>2, <2>1
    <2>3. e \in pass[r].page
      BY <2>2
    <2>4. Halved(e, pass[r].now) \in Nat /\ PaidBy(m, Halved(e, pass[r].now), clock)
      BY <2>2, <2>3, EntryPays
    <2> QED
      BY <2>1, <2>4
  <1>3. \A m \in Rows : halved[m] \in Nat /\ ref[m] \in Nat /\ clock \in Nat
    BY DEF DecayInv, DTypeOK
  <1> HIDE DEF Hit, E, now
  <1>4. halved' \in [Rows -> Nat] /\ ref' \in [Rows -> Nat]
    BY <1>1, <1>2, <1>3
  <1>5. ASSUME NEW m \in Rows
        PROVE  \/ halved'[m] = halved[m] /\ ref'[m] = ref[m]
               \/ m \in live /\ ref'[m] = clock /\ PaidBy(m, halved'[m], clock)
    <2>1. CASE Hit(m)
      <3>1. halved'[m] = Halved(E(m), now) /\ ref'[m] = clock /\ m \in live
        BY <1>1, <2>1 DEF Hit
      <3> QED
        BY <1>2, <2>1, <3>1
    <2>2. CASE ~Hit(m)
      BY <1>1, <2>2
    <2> QED
      BY <2>1, <2>2
  <1> QED
    BY <1>4, <1>5

LEMMA CommitKeeps ==
    ASSUME DecayInv, NEW r \in Sweepers, CommitPage(r) PROVE DecayInv'
  <1> DEFINE o == pass[r]
             P0 == {o.page} \union {{e \in o.page : e[1] < x[1]} : x \in o.page}
  <1>1. PICK P \in P0 :
            /\ CommitDecay(Updated(P, o.now), o.now)
            /\ pass' = [pass EXCEPT ![r] =
                 IF P # o.page THEN NoPass
                 ELSE IF o.more THEN [o EXCEPT !.at = "paging", !.page = {}]
                 ELSE Completed(o)]
    BY DEF CommitPage
  <1>2. Updated(P, o.now) \in SUBSET o.page
    BY DEF Updated
  <1>3. o.at = "paged" /\ UNCHANGED <<clock, live, recall, used, fresh>>
    BY DEF CommitPage
  <1>4. /\ halved' \in [Rows -> Nat] /\ ref' \in [Rows -> Nat]
        /\ \A m \in Rows :
               \/ halved'[m] = halved[m] /\ ref'[m] = ref[m]
               \/ m \in live /\ ref'[m] = clock /\ PaidBy(m, halved'[m], clock)
    BY <1>1, <1>2, CommitPays
  <1>5. \E p \in Passes :
            /\ pass' = [pass EXCEPT ![r] = p]
            /\ Sees(p) /\ p.now <= clock /\ p.page = {}
    <2>1. o \in Passes /\ Sees(o) /\ o.now <= clock /\ clock \in Nat
      BY DEF DecayInv, DTypeOK, Paid
    <2>2. CASE P # o.page
      <3>1. NoPass \in Passes /\ Sees(NoPass) /\ NoPass.now <= clock /\ NoPass.page = {}
        BY <2>1 DEF NoPass, Passes, Sees
      <3> QED
        BY <1>1, <2>2, <3>1
    <2>3. CASE P = o.page /\ o.more
      <3>1. PICK p : p = [o EXCEPT !.at = "paging", !.page = {}]
        OBVIOUS
      <3>2. /\ p \in Passes /\ p.at = "paging" /\ p.now = o.now /\ p.after = o.after
            /\ p.page = {} /\ p.unseen = o.unseen
        BY <2>1, <3>1 DEF Passes
      <3>3. pass' = [pass EXCEPT ![r] = p]
        BY <1>1, <2>3, <3>1
      <3> HIDE DEF o
      <3>4. Sees(p) /\ p.now <= clock
        BY <1>3, <2>1, <3>2 DEF Sees
      <3> QED
        BY <3>2, <3>3, <3>4
    <2>4. CASE P = o.page /\ ~o.more
      <3>1. PICK p : p = Completed(o)
        OBVIOUS
      <3>2. p \in Passes /\ p.at = "complete" /\ p.now = o.now /\ p.page = {} /\ p.unseen = o.unseen
        BY <2>1, <3>1 DEF Completed, NoPass, Passes
      <3>3. pass' = [pass EXCEPT ![r] = p]
        BY <1>1, <2>4, <3>1
      <3> HIDE DEF o
      <3>4. Sees(p) /\ p.now <= clock
        BY <1>3, <2>1, <2>4, <3>2 DEF Sees
      <3> QED
        BY <3>2, <3>3, <3>4
    <2> QED
      BY <2>2, <2>3, <2>4
  <1>6. PICK p \in Passes :
            /\ pass' = [pass EXCEPT ![r] = p]
            /\ Sees(p) /\ p.now <= clock /\ p.page = {}
    BY <1>5
  <1>7. /\ \A q \in Sweepers : Sees(pass[q])'
        /\ pass' \in [Sweepers -> Passes]
        /\ \A q \in Sweepers :
               /\ pass'[q].now <= clock'
               /\ \A e \in pass'[q].page :
                      e[3] <= clock' /\ used'[e[1]] # Unsaved /\ PaidBy(e[1], e[2], e[3])'
    BY <1>3, <1>6, PassStep
  <1>8. ASSUME NEW m \in Rows
        PROVE  /\ ref'[m] <= clock' /\ used'[m] <= clock'
               /\ m \in live' => used'[m] # Unsaved
               /\ used'[m] = Unsaved => halved'[m] = 0
               /\ used'[m] # Unsaved => PaidBy(m, halved[m], ref[m])'
    <2>1. /\ ref[m] <= clock /\ used[m] <= clock /\ clock \in Nat
          /\ m \in live => used[m] # Unsaved
          /\ used[m] = Unsaved => halved[m] = 0
          /\ used[m] # Unsaved => PaidBy(m, halved[m], ref[m])
      BY DEF DecayInv, Paid, DTypeOK
    <2>2. CASE halved'[m] = halved[m] /\ ref'[m] = ref[m]
      BY <1>3, <2>1, <2>2 DEF PaidBy
    <2>3. CASE m \in live /\ ref'[m] = clock /\ PaidBy(m, halved'[m], clock)
      BY <1>3, <2>1, <2>3 DEF PaidBy
    <2> QED
      BY <1>4, <2>2, <2>3
  <1>9. DTypeOK'
    BY <1>3, <1>4, <1>7 DEF DecayInv, DTypeOK
  <1> QED
    BY <1>7, <1>8, <1>9 DEF DecayInv, Paid

\* What runners know of the rows outlives what happens to the rows beside them.
LEMMA PassesStay ==
    ASSUME DecayInv, UNCHANGED pass, clock <= clock', fresh' \subseteq fresh, clock' \in Nat,
           \A r \in Sweepers :
               pass[r].at \in {"paging", "paged"} => Later(pass[r].after) \subseteq Later(pass[r].after)',
           \A m \in Rows : used[m] # Unsaved /\ m \in fresh' => used'[m] = used[m],
           \A m \in Rows : used[m] # Unsaved => used'[m] # Unsaved
    PROVE  /\ \A r \in Sweepers : Sees(pass[r])'
           /\ \A r \in Sweepers :
                  /\ pass'[r].now <= clock'
                  /\ \A e \in pass'[r].page :
                         e[3] <= clock' /\ used'[e[1]] # Unsaved /\ PaidBy(e[1], e[2], e[3])'
  <1>1. ASSUME NEW r \in Sweepers PROVE Sees(pass[r])'
    BY DEF DecayInv, Sees
  <1>2. ASSUME NEW r \in Sweepers PROVE pass'[r].now <= clock'
    BY DEF DecayInv, Paid, DTypeOK, Passes
  <1>3. ASSUME NEW r \in Sweepers, NEW e \in pass'[r].page
        PROVE  e[3] <= clock' /\ used'[e[1]] # Unsaved /\ PaidBy(e[1], e[2], e[3])'
    <2>1. e \in pass[r].page /\ e \in Rows \X Nat \X Nat
      BY DEF DecayInv, DTypeOK, Passes
    <2>2. e[1] \in Rows /\ e[3] \in Nat /\ clock \in Nat
      BY <2>1 DEF DecayInv, DTypeOK
    <2>3. e[3] <= clock /\ used[e[1]] # Unsaved /\ PaidBy(e[1], e[2], e[3])
      BY <2>1 DEF DecayInv, Paid
    <2> QED
      BY <2>2, <2>3 DEF PaidBy
  <1> QED
    BY <1>1, <1>2, <1>3

\* A row has paid, by its state.
RowPaid(m) ==
    /\ ref[m] <= clock /\ used[m] <= clock
    /\ m \in live => used[m] # Unsaved
    /\ used[m] = Unsaved => halved[m] = 0
    /\ used[m] # Unsaved => PaidBy(m, halved[m], ref[m])

LEMMA ReadKeeps ==
    ASSUME DecayInv, NEW m \in Rows, ReadRecalled(m) PROVE DecayInv'
  <1>1. recall' \in Recalls
    <2>1. m \in Nat /\ halved[m] \in Nat
      BY DecayAssumption DEF DecayInv, DTypeOK
    <2> QED
      BY <2>1 DEF ReadRecalled, Recalls
  <1>2. UNCHANGED <<clock, live, halved, ref, pass, used, fresh>>
    BY DEF ReadRecalled
  <1>3. DTypeOK'
    BY <1>1, <1>2 DEF DecayInv, DTypeOK
  <1>4. \A r \in Sweepers : Sees(pass[r])'
    BY <1>2 DEF DecayInv, Sees, Later
  <1>5. Paid'
    BY <1>2 DEF DecayInv, Paid, PaidBy
  <1> QED
    BY <1>3, <1>4, <1>5 DEF DecayInv

LEMMA ReinforceKeeps ==
    ASSUME DecayInv, ApplyReinforcement PROVE DecayInv'
  <1> DEFINE m == recall.row
  <1>1. /\ UNCHANGED <<clock, live, pass>> /\ recall' = NoRecall
        /\ \/ UNCHANGED <<halved, ref, used, fresh>>
           \/ /\ m \in live
              /\ halved' = [halved EXCEPT ![m] = Reinforced(recall.halved)]
              /\ ref' = [ref EXCEPT ![m] = clock]
              /\ used' = [used EXCEPT ![m] = clock]
              /\ fresh' = fresh \ {m}
    BY DEF ApplyReinforcement
  <1>2. Reinforced(recall.halved) \in Nat /\ clock \in Nat /\ live \subseteq Rows
    BY DEF DecayInv, DTypeOK, Recalls, Reinforced
  <1>3. NoRecall \in Recalls
    BY DEF NoRecall, Recalls
  <1>4. DTypeOK'
    BY <1>1, <1>2, <1>3 DEF DecayInv, DTypeOK
  <1>5. \A n \in Rows : n # m \/ m \notin live =>
            (n \in fresh' => n \in fresh) /\ halved'[n] = halved[n] /\ ref'[n] = ref[n] /\ used'[n] = used[n]
    BY <1>1 DEF DecayInv, DTypeOK
  <1>6. m \in live => \/ UNCHANGED <<halved, ref, used, fresh>>
                      \/ m \notin fresh' /\ used'[m] = clock /\ ref'[m] = clock
    BY <1>1, <1>2 DEF DecayInv, DTypeOK
  <1>7. \A n \in Rows : RowPaid(n)
    BY DEF DecayInv, Paid, RowPaid
  <1>8. fresh' \subseteq fresh
    BY <1>1
  <1>9. clock # Unsaved
    BY <1>2 DEF Unsaved
  <1>10. ASSUME NEW n \in Rows PROVE RowPaid(n)'
    <2>1. CASE n # m \/ m \notin live
      BY <1>1, <1>5, <1>7, <2>1 DEF RowPaid, PaidBy
    <2>2. CASE n = m /\ m \in live
      <3>1. CASE UNCHANGED <<halved, ref, used, fresh>>
        BY <1>1, <1>7, <3>1 DEF RowPaid, PaidBy
      <3>2. CASE m \notin fresh' /\ used'[m] = clock /\ ref'[m] = clock
        BY <1>1, <1>2, <1>9, <2>2, <3>2 DEF RowPaid, PaidBy
      <3> QED
        BY <1>6, <2>2, <3>1, <3>2
    <2> QED
      BY <2>1, <2>2
  <1>11. /\ \A n \in Rows : used[n] # Unsaved /\ n \in fresh' => used'[n] = used[n]
         /\ \A n \in Rows : used[n] # Unsaved => used'[n] # Unsaved
    BY <1>2, <1>5, <1>6, <1>9
  <1>12. \A r \in Sweepers : Later(pass[r].after) \subseteq Later(pass[r].after)'
    BY <1>1 DEF Later
  <1>13. clock <= clock' /\ clock' \in Nat
    BY <1>1, <1>2
  <1> HIDE DEF m
  <1> QED
    BY <1>1, <1>4, <1>8, <1>10, <1>11, <1>12, <1>13, PassesStay DEF DecayInv, Paid, RowPaid

LEMMA SaveKeeps ==
    ASSUME DecayInv, NEW m \in Rows, SaveRow(m) PROVE DecayInv'
  <1>1. /\ used[m] = Unsaved /\ live' = live \union {m}
        /\ ref' = [ref EXCEPT ![m] = clock] /\ used' = [used EXCEPT ![m] = clock]
        /\ UNCHANGED <<clock, halved, pass, recall, fresh>>
    BY DEF SaveRow
  <1>2. clock \in Nat /\ clock # Unsaved
    BY DEF DecayInv, DTypeOK, Unsaved
  <1>3. DTypeOK'
    BY <1>1, <1>2 DEF DecayInv, DTypeOK
  <1>4. \A n \in Rows : RowPaid(n)
    BY DEF DecayInv, Paid, RowPaid
  <1>5. ref'[m] = clock /\ used'[m] = clock /\ halved'[m] = 0
    BY <1>1, <1>4 DEF DecayInv, DTypeOK, RowPaid
  <1>6. \A n \in Rows \ {m} : ref'[n] = ref[n] /\ used'[n] = used[n] /\ (n \in live' => n \in live)
    BY <1>1 DEF DecayInv, DTypeOK
  <1>7. ASSUME NEW n \in Rows PROVE RowPaid(n)'
    <2>1. CASE n = m
      <3>1. Price[0] <= clock - clock
        BY <1>2, PriceUnfolds
      <3>2. clock <= clock
        BY <1>2
      <3> QED
        BY <1>1, <1>2, <1>5, <2>1, <3>1, <3>2 DEF RowPaid, PaidBy
    <2>2. CASE n # m
      BY <1>1, <1>4, <1>6, <2>2 DEF RowPaid, PaidBy
    <2> QED
      BY <2>1, <2>2
  <1>8. /\ \A n \in Rows : used[n] # Unsaved /\ n \in fresh' => used'[n] = used[n]
        /\ \A n \in Rows : used[n] # Unsaved => used'[n] # Unsaved
    BY <1>1, <1>6
  <1>9. \A r \in Sweepers : Later(pass[r].after) \subseteq Later(pass[r].after)'
    BY <1>1 DEF Later
  <1>10. clock <= clock' /\ clock' \in Nat /\ fresh' \subseteq fresh
    BY <1>1, <1>2
  <1> QED
    BY <1>1, <1>3, <1>7, <1>8, <1>9, <1>10, PassesStay DEF DecayInv, Paid, RowPaid

LEMMA DeleteKeeps ==
    ASSUME DecayInv, NEW m \in Rows, DeleteRow(m) PROVE DecayInv'
  <1>1. /\ live' = live \ {m}
        /\ pass' = [r \in Sweepers |-> [pass[r] EXCEPT !.unseen = @ \ {m}]]
        /\ UNCHANGED <<clock, halved, ref, recall, used, fresh>>
    BY DEF DeleteRow
  <1>2. ASSUME NEW r \in Sweepers
        PROVE  /\ pass'[r] \in Passes /\ pass[r] \in Passes
               /\ pass'[r].at = pass[r].at /\ pass'[r].now = pass[r].now
               /\ pass'[r].after = pass[r].after /\ pass'[r].page = pass[r].page
               /\ pass'[r].more = pass[r].more /\ pass'[r].unseen = pass[r].unseen \ {m}
    <2>1. pass[r] \in Passes /\ pass'[r] = [pass[r] EXCEPT !.unseen = @ \ {m}]
      BY <1>1 DEF DecayInv, DTypeOK
    <2> QED
      BY <2>1 DEF Passes
  <1>3. DTypeOK'
    <2>1. pass' \in [Sweepers -> Passes]
      BY <1>1, <1>2
    <2> QED
      BY <1>1, <2>1 DEF DecayInv, DTypeOK
  <1>4. ASSUME NEW r \in Sweepers PROVE Sees(pass[r])'
    <2>1. Sees(pass[r])
      BY DEF DecayInv
    <2> QED
      BY <1>1, <1>2, <2>1 DEF Sees, Later
  <1>5. Paid'
    BY <1>1, <1>2 DEF DecayInv, Paid, PaidBy
  <1> QED
    BY <1>3, <1>4, <1>5 DEF DecayInv

LEMMA TickKeeps ==
    ASSUME DecayInv, DTick PROVE DecayInv'
  <1>1. clock' = clock + 1 /\ UNCHANGED <<live, halved, ref, pass, recall, used, fresh>>
    BY DEF DTick
  <1>2. DTypeOK'
    BY <1>1 DEF DecayInv, DTypeOK
  <1>3. \A r \in Sweepers : Later(pass[r].after) \subseteq Later(pass[r].after)'
    BY <1>1 DEF Later
  <1>4. clock <= clock' /\ clock' \in Nat /\ fresh' \subseteq fresh
    BY <1>1 DEF DecayInv, DTypeOK
  <1>5. ASSUME NEW n \in Rows
        PROVE  /\ ref'[n] <= clock' /\ used'[n] <= clock'
               /\ n \in live' => used'[n] # Unsaved
               /\ used'[n] = Unsaved => halved'[n] = 0
               /\ used'[n] # Unsaved => PaidBy(n, halved[n], ref[n])'
    <2>1. ref[n] \in Nat /\ used[n] \in Int /\ clock \in Nat /\ RowPaid(n)
      BY DEF DecayInv, DTypeOK, Paid, RowPaid
    <2> QED
      BY <1>1, <2>1 DEF RowPaid, PaidBy
  <1>6. \A n \in Rows : used'[n] = used[n]
    BY <1>1
  <1> QED
    BY <1>1, <1>2, <1>3, <1>4, <1>5, <1>6, PassesStay DEF DecayInv, Paid

-----------------------------------------------------------------------------
(* The theorems                                                            *)

LEMMA DecayStep == DecayInv /\ [DNext]_dvars => DecayInv'
  <1> SUFFICES ASSUME DecayInv, [DNext]_dvars PROVE DecayInv'
    OBVIOUS
  <1>1. ASSUME NEW r \in Sweepers, BeginPass(r) \/ PageDecay(r) \/ CommitPage(r) \/ StopPass(r)
        PROVE  DecayInv'
    BY <1>1, BeginKeeps, PageKeeps, CommitKeeps, StopKeeps
  <1>2. ASSUME NEW m \in Rows, ReadRecalled(m) \/ SaveRow(m) \/ DeleteRow(m)
        PROVE  DecayInv'
    BY <1>2, ReadKeeps, SaveKeeps, DeleteKeeps
  <1>3. CASE ApplyReinforcement
    BY <1>3, ReinforceKeeps
  <1>4. CASE DTick
    BY <1>4, TickKeeps
  <1>5. CASE UNCHANGED dvars
    <2>1. UNCHANGED <<clock, live, halved, ref, pass, recall, used, fresh>>
      BY <1>5 DEF dvars
    <2> QED
      BY <2>1 DEF DecayInv, DTypeOK, Sees, Later, Paid, PaidBy
  <1> QED
    BY <1>1, <1>2, <1>3, <1>4, <1>5 DEF DNext

\* The inductive invariant of the decay pass (decay_bounded, page_decay,
\* commit_decay).
THEOREM DecayInvariant == DSpec => []DecayInv
  BY DecayStarts, DecayStep, PTL DEF DSpec

\* A complete pass has paged every row that was there from its begin to its
\* end.
THEOREM CompletePassesSawAll == DSpec => []CompletePassSawAll
  <1>1. DecayInv => CompletePassSawAll
    BY DEF DecayInv, Sees, CompletePassSawAll
  <1> QED
    BY <1>1, DecayInvariant, PTL

\* No row that was never recalled is halved twice for the same time.
THEOREM HalvingsAreAlwaysPaid == DSpec => []HalvingsArePaid
  <1>1. DecayInv => HalvingsArePaid
    <2> SUFFICES ASSUME DecayInv, NEW m \in live \intersect fresh
                 PROVE  Price[halved[m]] <= clock - used[m]
      BY DEF HalvingsArePaid
    <2>1. /\ m \in Rows /\ halved[m] \in Nat /\ ref[m] \in Nat /\ used[m] \in Int /\ clock \in Nat
          /\ ref[m] <= clock /\ Price[halved[m]] <= ref[m] - used[m]
      BY DEF DecayInv, DTypeOK, Paid, PaidBy
    <2>2. Price[halved[m]] \in Int
      BY <2>1, PriceUnfolds
    <2> QED
      BY <2>1, <2>2
  <1> QED
    BY <1>1, DecayInvariant, PTL

-----------------------------------------------------------------------------
(* Two processes on one database.  The theorems of PostgresWorkspaceProofs *)
(* for the sources, pages and bounds that Shared has.                      *)

W == INSTANCE PostgresWorkspaceProofs WITH
    N <- 3, EntityOf <- <<1, 1, 2>>, Texts <- {tA}, Similar <- {<<tA, tA>>},
    Runners <- Procs, SourcePage <- 2, CandidatePage <- 1, MaxMembers <- 2, MaxWrites <- 1, MaxStops <- 1,
    live <- promoted

\* The instance is one that the theorems speak of.
LEMMA InstanceAssumption == W!WorkspaceAssumption /\ W!OwnConnections
  BY ConnectionsAssumption DEF W!Sources, W!Entities, W!OwnConnections

\* Shared and W are the same definitions.
LEMMA StartsAlike == Shared!WInit <=> W!WInit
  BY Zenon DEF
      Shared!Sources, W!Sources, Shared!Entities, W!Entities, Shared!Never,
      W!Never, Shared!Off, W!Off, Shared!Init, W!Init, Shared!Conns,
      W!Conns, Shared!Closed, W!Closed, Shared!WInit, W!WInit

LEMMA StepsAlike == Shared!Next <=> W!Next
  BY Zenon DEF
      Shared!Max, W!Max, Shared!Min, W!Min, Shared!Cardinality,
      W!Cardinality, Shared!Sources, W!Sources, Shared!Entities,
      W!Entities, Shared!sourceVars, W!sourceVars, Shared!workspaceVars,
      W!workspaceVars, Shared!semanticVars, W!semanticVars,
      Shared!boundVars, W!boundVars, Shared!Never, W!Never, Shared!NoMore,
      W!NoMore, Shared!Stored, W!Stored, Shared!Off, W!Off, Shared!Current,
      W!Current, Shared!Intact, W!Intact, Shared!Members, W!Members,
      Shared!First, W!First, Shared!NextCursor, W!NextCursor,
      Shared!Rebuild, W!Rebuild, Shared!Matches, W!Matches,
      Shared!RecordMatch, W!RecordMatch, Shared!At, W!At, Shared!Return,
      W!Return, Shared!Fail, W!Fail, Shared!Begin, W!Begin,
      Shared!ReadCursor, W!ReadCursor, Shared!NextPage, W!NextPage,
      Shared!Anchor, W!Anchor, Shared!TakeSource, W!TakeSource,
      Shared!LoadAnchor, W!LoadAnchor, Shared!ScanCandidates,
      W!ScanCandidates, Shared!Incomplete, W!Incomplete,
      Shared!MatchCandidate, W!MatchCandidate, Shared!Finalize, W!Finalize,
      Shared!Admitted, W!Admitted, Shared!CommitPromotion,
      W!CommitPromotion, Shared!Checkpoint, W!Checkpoint, Shared!Complete,
      W!Complete, Shared!Stop, W!Stop, Shared!Pass, W!Pass,
      Shared!SourceWrite, W!SourceWrite, Shared!WriteSource, W!WriteSource,
      Shared!RetireSource, W!RetireSource, Shared!DeleteSource,
      W!DeleteSource, Shared!SupersedePromotion, W!SupersedePromotion,
      Shared!ForgetPromotion, W!ForgetPromotion, Shared!Writer, W!Writer,
      Shared!Next, W!Next

LEMMA TransactionsAlike == Shared!WNext <=> W!WNext
  BY Zenon DEF
      Shared!Max, W!Max, Shared!Min, W!Min, Shared!Cardinality,
      W!Cardinality, Shared!FlattenSeq, W!FlattenSeq, Shared!SetToSortSeq,
      W!SetToSortSeq, Shared!SetToSeq, W!SetToSeq, Shared!IsInjective,
      W!IsInjective, Shared!Sources, W!Sources, Shared!Entities,
      W!Entities, Shared!sourceVars, W!sourceVars, Shared!workspaceVars,
      W!workspaceVars, Shared!semanticVars, W!semanticVars,
      Shared!boundVars, W!boundVars, Shared!vars, W!vars, Shared!Never,
      W!Never, Shared!NoMore, W!NoMore, Shared!Stored, W!Stored,
      Shared!Off, W!Off, Shared!Current, W!Current, Shared!Intact,
      W!Intact, Shared!Members, W!Members, Shared!First, W!First,
      Shared!NextCursor, W!NextCursor, Shared!Rebuild, W!Rebuild,
      Shared!At, W!At, Shared!Return, W!Return, Shared!Fail, W!Fail,
      Shared!ReadCursor, W!ReadCursor, Shared!NextPage, W!NextPage,
      Shared!Anchor, W!Anchor, Shared!LoadAnchor, W!LoadAnchor,
      Shared!ScanCandidates, W!ScanCandidates, Shared!Incomplete,
      W!Incomplete, Shared!Finalize, W!Finalize, Shared!Admitted,
      W!Admitted, Shared!Checkpoint, W!Checkpoint, Shared!Complete,
      W!Complete, Shared!SourceWrite, W!SourceWrite, Shared!WriteSource,
      W!WriteSource, Shared!RetireSource, W!RetireSource,
      Shared!DeleteSource, W!DeleteSource, Shared!SupersedePromotion,
      W!SupersedePromotion, Shared!ForgetPromotion, W!ForgetPromotion,
      Shared!Conns, W!Conns, Shared!Closed, W!Closed, Shared!Namespace,
      W!Namespace, Shared!Lifecycle, W!Lifecycle, Shared!Run, W!Run,
      Shared!Member, W!Member, Shared!Source, W!Source, Shared!ForUpdate,
      W!ForUpdate, Shared!ForShare, W!ForShare, Shared!ForKeyShare,
      W!ForKeyShare, Shared!InOrder, W!InOrder, Shared!MembersForUpdate,
      W!MembersForUpdate, Shared!MembersForShare, W!MembersForShare,
      Shared!SourcesForShare, W!SourcesForShare, Shared!Conflicts,
      W!Conflicts, Shared!HoldersOf, W!HoldersOf, Shared!WaitsFor,
      W!WaitsFor, Shared!Lock, W!Lock, Shared!Ask, W!Ask, Shared!Has,
      W!Has, Shared!End, W!End, Shared!Open, W!Open, Shared!Unwritten,
      W!Unwritten, Shared!Abort, W!Abort, Shared!RunFree, W!RunFree,
      Shared!OpenBegin, W!OpenBegin, Shared!Unchanged, W!Unchanged,
      Shared!Compare, W!Compare, Shared!InsertSources, W!InsertSources,
      Shared!CommitBegin, W!CommitBegin, Shared!ReadStored, W!ReadStored,
      Shared!PageSources, W!PageSources, Shared!Target, W!Target,
      Shared!Assigns, W!Assigns, Shared!OpenMatch, W!OpenMatch,
      Shared!AfterMatch, W!AfterMatch, Shared!UpdateMember, W!UpdateMember,
      Shared!CommitMatch, W!CommitMatch, Shared!OpenLoad, W!OpenLoad,
      Shared!CommitLoad, W!CommitLoad, Shared!OpenScan, W!OpenScan,
      Shared!Candidates, W!Candidates, Shared!Preflight, W!Preflight,
      Shared!CommitScan, W!CommitScan, Shared!OpenFinalize, W!OpenFinalize,
      Shared!SelectMembers, W!SelectMembers, Shared!Present, W!Present,
      Shared!CountMembers, W!CountMembers, Shared!CommitFinalize,
      W!CommitFinalize, Shared!OpenPromotion, W!OpenPromotion,
      Shared!SelectAssigned, W!SelectAssigned, Shared!ValidMembers,
      W!ValidMembers, Shared!Validate, W!Validate, Shared!Object, W!Object,
      Shared!Decide, W!Decide, Shared!CommitInvalid, W!CommitInvalid,
      Shared!CommitPromoted, W!CommitPromoted, Shared!Outside, W!Outside,
      Shared!StopRun, W!StopRun, Shared!OpenWrite, W!OpenWrite,
      Shared!CommitWrite, W!CommitWrite, Shared!RollBackWrite,
      W!RollBackWrite, Shared!Circle, W!Circle, Shared!DetectDeadlock,
      W!DetectDeadlock, Shared!WNext, W!WNext

LEMMA PropertiesAlike ==
    /\ W!NoDuplicatePromotion <=> Shared!NoDuplicatePromotion
    /\ W!MutationsSerialize <=> Shared!MutationsSerialize
    /\ W!SupersededStaysBuried <=> Shared!SupersededStaysBuried
  <1>1. W!NoDuplicatePromotion <=> Shared!NoDuplicatePromotion
    BY Zenon DEF
        Shared!Sources, W!Sources, Shared!Entities, W!Entities,
        Shared!NoDuplicatePromotion, W!NoDuplicatePromotion
  <1>2. W!MutationsSerialize <=> Shared!MutationsSerialize
    BY Zenon DEF
        Shared!Conns, W!Conns, Shared!Conflicts, W!Conflicts,
        Shared!HoldersOf, W!HoldersOf, Shared!WaitsFor, W!WaitsFor,
        Shared!Circle, W!Circle, Shared!MutationsSerialize,
        W!MutationsSerialize
  <1>3. W!SupersededStaysBuried <=> Shared!SupersededStaysBuried
    BY PTL DEF
        Shared!Sources, W!Sources, Shared!Entities, W!Entities,
        Shared!Current, W!Current, Shared!SupersededStaysBuried,
        W!SupersededStaysBuried, Shared!vars, W!vars
  <1> QED
    BY <1>1, <1>2, <1>3

\* Two processes on PostgreSQL take steps of WNext; the other parts leave the
\* transactions closed, and their processes take steps of Next or none.
LEMMA SharedOnPg == CSpec /\ part = "promotion on PostgreSQL" => W!WSpec
  <1>1. CInit => W!WInit
    BY StartsAlike DEF CInit
  <1>2. part = "promotion on PostgreSQL" /\ [CNext]_cvars
            => [W!WNext]_W!wvars /\ (part = "promotion on PostgreSQL")'
    <2>1. UNCHANGED wvars => UNCHANGED W!wvars
      BY Zenon DEF wvars, W!wvars, W!vars
    <2>2. UNCHANGED cvars => UNCHANGED wvars /\ UNCHANGED part
      BY Zenon DEF cvars
    <2> QED
      BY <2>1, <2>2, TransactionsAlike, Zenon DEF CNext
  <1> QED
    BY <1>1, <1>2, PTL DEF CSpec, W!WSpec

NoTransaction == tx = [c \in W!Conns |-> W!Closed]

LEMMA SharedOnSqlite ==
    CSpec /\ part # "promotion on PostgreSQL" => W!Spec /\ []NoTransaction
  <1>1. CInit => W!Init /\ NoTransaction
    BY StartsAlike, Zenon DEF CInit, W!WInit, NoTransaction
  <1>2. NoTransaction /\ part # "promotion on PostgreSQL" /\ [CNext]_cvars
            => /\ [W!Next]_W!vars /\ NoTransaction'
               /\ (part # "promotion on PostgreSQL")'
    <2>1. UNCHANGED wvars => UNCHANGED W!vars /\ UNCHANGED tx
      BY Zenon DEF wvars, W!vars
    <2>2. UNCHANGED cvars => UNCHANGED wvars /\ UNCHANGED part
      BY Zenon DEF cvars
    <2>3. UNCHANGED tx /\ NoTransaction => NoTransaction'
      BY Zenon DEF NoTransaction, W!Conns, W!Closed
    <2> QED
      BY <2>1, <2>2, <2>3, StepsAlike, Zenon DEF CNext
  <1> QED
    BY <1>1, <1>2, PTL DEF CSpec, W!Spec

\* On either backend, two processes do not promote one fact twice
\* (commit_promotion).
THEOREM PromotionsAreUnique == CSpec => []NoDuplicatePromotion
  <1>1. W!Spec => []W!NoDuplicatePromotion
    BY InstanceAssumption, W!FactsAreUnique
  <1>2. W!WSpec => []W!NoDuplicatePromotion
    BY InstanceAssumption, W!FactsAreUniqueOnPg
  <1>3. W!NoDuplicatePromotion <=> NoDuplicatePromotion
    BY PropertiesAlike DEF NoDuplicatePromotion
  <1>4. part = "promotion on PostgreSQL" \/ part # "promotion on PostgreSQL"
    OBVIOUS
  <1> QED
    BY <1>1, <1>2, <1>3, <1>4, SharedOnPg, SharedOnSqlite, PTL

\* Nor does what a user superseded come back on the evidence it had.
THEOREM SupersededFactsStay == CSpec => SupersededStaysBuried
  <1>1. W!Spec => W!SupersededStaysBuried
    BY InstanceAssumption, W!BuriedFactsStay
  <1>2. W!WSpec => W!SupersededStaysBuried
    BY InstanceAssumption, W!BuriedFactsStayOnPg
  <1>3. W!SupersededStaysBuried <=> SupersededStaysBuried
    BY PropertiesAlike DEF SupersededStaysBuried
  <1>4. part = "promotion on PostgreSQL" \/ part # "promotion on PostgreSQL"
    OBVIOUS
  <1> QED
    BY <1>1, <1>2, <1>3, <1>4, SharedOnPg, SharedOnSqlite, PTL

\* And the cluster mutations of PostgreSQL never wait for one another in a
\* circle.
THEOREM MutationsNeverInvert == CSpec => []MutationsSerialize
  <1>1. W!WSpec => []W!MutationsSerialize
    BY InstanceAssumption, W!NoInversion
  <1>2. NoTransaction => W!MutationsSerialize
    <2>1. SUFFICES ASSUME NoTransaction, NEW T \in SUBSET Procs, W!Circle(T)
                   PROVE  FALSE
      BY Zenon DEF W!MutationsSerialize
    <2>2. PICK c \in T : W!WaitsFor(c) # {}
      BY <2>1 DEF W!Circle
    <2>3. tx[c].wants = <<>>
      BY <2>1 DEF NoTransaction, W!Conns, W!Closed
    <2> QED
      BY <2>2, <2>3 DEF W!WaitsFor
  <1>3. W!MutationsSerialize <=> MutationsSerialize
    BY PropertiesAlike DEF MutationsSerialize
  <1>4. part = "promotion on PostgreSQL" \/ part # "promotion on PostgreSQL"
    OBVIOUS
  <1> QED
    BY <1>1, <1>2, <1>3, <1>4, SharedOnPg, SharedOnSqlite, PTL

=============================================================================
