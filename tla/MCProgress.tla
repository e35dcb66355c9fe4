----------------------------- MODULE MCProgress -----------------------------
(* Small instances of the three parts of a server process that make others *)
(* wait: dispatch with its permit, the admission of recalls, and the task  *)
(* that writes the usage counts.  The variable part chooses one, the       *)
(* others rest in their initial states.                                    *)
EXTENDS RecallAdmission, UsageCounter

CONSTANTS Triggers, TicketSpan, Namespaces, NoNamespace, MaxDuration

VARIABLES
    part,
    nextTicket, serving, abandoned, ticket, holders,
    registry, at, ns, cancelled, elapsed, owed

Gate == INSTANCE ConsolidationGate WITH Callers <- Triggers, pc <- at

gvars ==
    <<nextTicket, serving, abandoned, ticket, holders, registry, at, ns, cancelled, elapsed, owed>>
RestOfGate == UNCHANGED gvars
RestOfAdmission == UNCHANGED vars
RestOfUsage == UNCHANGED uvars
pvars == <<vars, uvars, gvars, part>>

PInit ==
    /\ part \in {"gate", "admission", "usage"}
    /\ Gate!GateInit /\ Init /\ UInit

Of(p, A) == part = p /\ A /\ UNCHANGED part

PNext ==
    \/ Of("gate", Gate!GateNext /\ RestOfAdmission /\ RestOfUsage)
    \/ Of("admission", Next /\ RestOfGate /\ RestOfUsage)
    \/ Of("usage", UNext /\ RestOfGate /\ RestOfAdmission)

\* Triggers take their steps, time passes, admitted callers end and the flush
\* loop runs; nothing else is owed.
PSpec ==
    /\ PInit /\ [][PNext]_pvars
    /\ \A p \in Triggers : WF_pvars(Of("gate", Gate!Step(p) /\ RestOfAdmission /\ RestOfUsage))
    /\ WF_pvars(Of("gate", Gate!Tick /\ RestOfAdmission /\ RestOfUsage))
    /\ \A c \in Callers : WF_pvars(Of("admission", Finish(c) /\ RestOfGate /\ RestOfUsage))
    /\ WF_pvars(Of("usage", FlushLoop /\ RestOfGate /\ RestOfAdmission))

\* Every call of the consolidation engine returns, reruns included
\* (gate::dispatch, run_bounded_internal).
CallerReturns == Gate!CallerReturns
=============================================================================
