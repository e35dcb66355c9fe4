----------------------------- MODULE FairPermit -----------------------------
(***************************************************************************)
(* The fair process-global consolidation permit of                         *)
(* pensyve-core/src/consolidation/mod.rs (PermitState, FairPermit,         *)
(* FairPermitGuard): a ticket lock whose waiters may give up.              *)
(*                                                                         *)
(* A caller takes the next ticket and is served when `serving' reaches it. *)
(* A caller that is cancelled, or out of time, abandons its ticket, and    *)
(* whoever moves `serving' skips the abandoned tickets.  The counters are  *)
(* u64 with wrapping_add, modelled modulo TicketSpan.                      *)
(***************************************************************************)
EXTENDS Integers

CONSTANTS
    Callers,     \* threads that may ask for the permit
    TicketSpan   \* number of ticket values (2^64 in the code)

ASSUME TicketSpanAssumption == TicketSpan \in Nat /\ TicketSpan >= 2

VARIABLES
    nextTicket,  \* PermitState.next_ticket
    serving,     \* PermitState.serving
    abandoned,   \* PermitState.abandoned
    ticket,      \* the local `ticket' of a caller inside acquire or holding a guard
    holders      \* the callers with a live FairPermitGuard

permitVars == <<nextTicket, serving, abandoned, ticket, holders>>

Tickets == 0 .. TicketSpan - 1

NoTicket == -1

\* u64::wrapping_add(1)
Succ(t) == IF t = TicketSpan - 1 THEN 0 ELSE t + 1

\* How many tickets are served before t when s is being served.
Dist(s, t) == IF t >= s THEN t - s ELSE t - s + TicketSpan

Live(p) == ticket[p] # NoTicket

PermitInit ==
    /\ nextTicket = 0
    /\ serving = 0
    /\ abandoned = {}
    /\ ticket = [p \in Callers |-> NoTicket]
    /\ holders = {}

\* A ticket value is reused only after TicketSpan - 1 further ones were taken.
\* The code relies on 2^64 never being outstanding at once; this is the bound.
SpanLeft == Dist(serving, nextTicket) < TicketSpan - 1

(***************************************************************************)
(* advance_abandoned: from `from', with the tickets of `gone' abandoned,   *)
(* the loop stops at the first ticket that was not abandoned and forgets   *)
(* the ones it passed.                                                     *)
(***************************************************************************)
AdvanceAbandoned(from, gone) ==
    \E s \in Tickets \ gone :
        /\ \A u \in Tickets : Dist(from, u) < Dist(from, s) => u \in gone
        /\ serving' = s
        /\ abandoned' = {u \in gone : Dist(from, u) >= Dist(from, s)}

(***************************************************************************)
(* One pass of the loop in acquire, for caller p with ticket t.  `stop' is *)
(* cancel.is_cancelled() or elapsed >= max_duration, tested before the     *)
(* ticket is compared with `serving'.                                      *)
(***************************************************************************)
\* Variant: the abandoned ticket is recorded but not skipped when it is the
\* one being served.
AbandonNoAdvance(p, t) ==
    /\ abandoned' = abandoned \cup {t}
    /\ ticket' = [ticket EXCEPT ![p] = NoTicket]
    /\ UNCHANGED <<serving, holders>>

Abandon(p, t) ==
    /\ AdvanceAbandoned(serving, abandoned \cup {t})
    /\ ticket' = [ticket EXCEPT ![p] = NoTicket]
    /\ UNCHANGED holders

\* Variant: whoever finds the permit free takes it, out of turn.
GrantUnlessHeld(p, t) ==
    /\ holders = {}
    /\ ticket' = [ticket EXCEPT ![p] = t]
    /\ holders' = holders \cup {p}
    /\ UNCHANGED <<serving, abandoned>>

\* Variant: the ticket is compared with the last one issued.
GrantNewest(p, t) ==
    /\ ticket' = [ticket EXCEPT ![p] = t]
    /\ nextTicket \in {t, Succ(t)}
    /\ holders' = holders \cup {p}
    /\ UNCHANGED <<serving, abandoned>>

Grant(p, t) ==
    /\ serving = t
    /\ ticket' = [ticket EXCEPT ![p] = t]
    /\ holders' = holders \cup {p}
    /\ UNCHANGED <<serving, abandoned>>

Wait(p, t) ==
    /\ serving # t
    /\ ticket' = [ticket EXCEPT ![p] = t]
    /\ UNCHANGED <<serving, abandoned, holders>>

\* acquire up to its first wait: the ticket is taken and the first pass of
\* the loop runs under the same lock.
Acquire(p, stop) ==
    /\ ~Live(p)
    /\ SpanLeft
    /\ nextTicket' = Succ(nextTicket)
    /\ \/ stop /\ Abandon(p, nextTicket)
       \/ ~stop /\ Grant(p, nextTicket)
       \/ ~stop /\ Wait(p, nextTicket)

\* The loop again, after notify_all or 50 ms.
Recheck(p, stop) ==
    /\ Live(p)
    /\ p \notin holders
    /\ \/ stop /\ Abandon(p, ticket[p])
       \/ ~stop /\ Grant(p, ticket[p])
    /\ UNCHANGED nextTicket

\* FairPermitGuard::drop
Release(p) ==
    /\ p \in holders
    /\ AdvanceAbandoned(Succ(serving), abandoned)
    /\ ticket' = [ticket EXCEPT ![p] = NoTicket]
    /\ holders' = holders \ {p}
    /\ UNCHANGED nextTicket

PermitNext ==
    \E p \in Callers :
        \/ \E stop \in BOOLEAN : Acquire(p, stop) \/ Recheck(p, stop)
        \/ Release(p)

PermitSpec == PermitInit /\ [][PermitNext]_permitVars

-----------------------------------------------------------------------------
PermitTypeOK ==
    /\ nextTicket \in Tickets
    /\ serving \in Tickets
    /\ abandoned \subseteq Tickets
    /\ ticket \in [Callers -> Tickets \cup {NoTicket}]
    /\ holders \subseteq Callers

\* At most one FairPermitGuard is alive: two consolidation passes never
\* execute at once, whatever callers gave up in between.
PermitExclusion == \A p, q \in holders : p = q

\* The permit is never lost: whenever tickets are outstanding, the one being
\* served belongs to a caller that is waiting for it or holds the guard, so
\* abandoned tickets and skips can never leave every waiter stuck.
PermitNotLost ==
    serving # nextTicket =>
        \E p \in Callers : ticket[p] = serving

\* The callers with a ticket, in the order of the tickets.
Line == {p \in Callers : Live(p)}
Order ==
    {pair \in Line \X Line :
        Dist(serving, ticket[pair[1]]) < Dist(serving, ticket[pair[2]])}

Fifo == INSTANCE FifoPermit WITH line <- Line, order <- Order, served <- holders

\* The ticket lock serves its callers one at a time in the order of their
\* tickets, abandoned tickets and the wrap-around of the counters included
\* (acquire, FairPermitGuard::drop).
ImplementsFifo == Fifo!Spec

-----------------------------------------------------------------------------
(* The inductive strengthening of the first two properties above.          *)

InWindow(t) == Dist(serving, t) < Dist(serving, nextTicket)

TicketsDistinct ==
    \A p, q \in Callers : (Live(p) /\ ticket[p] = ticket[q]) => p = q

WindowSound ==
    /\ \A p \in Callers : Live(p) => InWindow(ticket[p]) /\ ticket[p] \notin abandoned
    /\ \A t \in abandoned : InWindow(t)
    /\ serving \notin abandoned

WindowComplete ==
    \A t \in Tickets : InWindow(t) =>
        t \in abandoned \/ \E p \in Callers : ticket[p] = t

HolderServed == \A p \in holders : ticket[p] = serving

PermitInv ==
    /\ PermitTypeOK
    /\ TicketsDistinct
    /\ WindowSound
    /\ WindowComplete
    /\ HolderServed
=============================================================================
