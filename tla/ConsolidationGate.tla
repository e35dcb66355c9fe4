-------------------------- MODULE ConsolidationGate --------------------------
(***************************************************************************)
(* Dispatch of consolidation runs: gate.rs (the process-wide registry of   *)
(* claimed namespaces, coalescing, the lease) and run_bounded_internal of  *)
(* consolidation/mod.rs, which runs the gate's closure under the global    *)
(* permit (FairPermit).                                                    *)
(*                                                                         *)
(* A caller is a thread inside ConsolidationEngine::run: an episode_end    *)
(* spawn, the /consolidate endpoint or the periodic sweep.  A run is       *)
(* reduced to the source snapshot it takes (begin_or_resume) and its       *)
(* outcome; ConsolidationWorkspace has its inside.                         *)
(***************************************************************************)
EXTENDS FairPermit

CONSTANTS
    Namespaces,
    NoNamespace,
    MaxDuration    \* max_duration_secs, in clock ticks

ASSUME GateAssumption ==
    /\ NoNamespace \notin Namespaces
    /\ MaxDuration \in Nat \ {0}

VARIABLES
    registry,  \* REGISTRY: "free" is no entry, else the pending flag
    pc,        \* where a caller is in dispatch
    ns,        \* the namespace it runs for
    cancelled, \* callers whose cancellation token fired
    elapsed,   \* ticks since the caller's `start', at most MaxDuration
    owed       \* namespaces triggered since the last source snapshot

gateVars == <<registry, pc, ns, cancelled, elapsed, owed>>
allVars == <<permitVars, gateVars>>

\* "enter"     about to call the closure     "running"   holds the permit
\* "waiting"   inside acquire                "snapped"   has its source snapshot
\* "complete"  the run returned Complete     "finishing" decided to look for pending
\* "expired"   acquire ran out of time       "failed"    any other outcome or a panic
PCs == {"idle", "enter", "waiting", "running", "snapped", "complete",
        "finishing", "expired", "failed"}

Stop(p) == p \in cancelled \/ elapsed[p] >= MaxDuration

GateInit ==
    /\ PermitInit
    /\ registry = [n \in Namespaces |-> "free"]
    /\ pc = [p \in Callers |-> "idle"]
    /\ ns = [p \in Callers |-> NoNamespace]
    /\ cancelled = {}
    /\ elapsed = [p \in Callers |-> 0]
    /\ owed = {}

Goto(p, l) == pc' = [pc EXCEPT ![p] = l]

\* The caller's thread leaves dispatch.
Return(p) ==
    /\ pc' = [pc EXCEPT ![p] = "idle"]
    /\ ns' = [ns EXCEPT ![p] = NoNamespace]
    /\ cancelled' = cancelled \ {p}
    /\ elapsed' = [elapsed EXCEPT ![p] = 0]

\* claim finds the namespace owned: mark it pending and return Coalesced.
Coalesce(p, n) ==
    /\ pc[p] = "idle"
    /\ registry[n] # "free"
    /\ registry' = [registry EXCEPT ![n] = "pending"]
    /\ owed' = owed \cup {n}
    /\ UNCHANGED <<permitVars, pc, ns, cancelled, elapsed>>

\* claim finds no entry: the caller owns the namespace.
Claim(p, n) ==
    /\ pc[p] = "idle"
    /\ registry[n] = "free"
    /\ registry' = [registry EXCEPT ![n] = "running"]
    /\ owed' = owed \cup {n}
    /\ ns' = [ns EXCEPT ![p] = n]
    /\ Goto(p, "enter")
    /\ UNCHANGED <<permitVars, cancelled, elapsed>>

\* What acquire leaves the caller with.
AfterAcquire(p) ==
    \/ p \in holders' /\ Goto(p, "running")
    \/ p \notin holders' /\ ticket'[p] # NoTicket /\ Goto(p, "waiting")
    \/ p \notin holders' /\ ticket'[p] = NoTicket
         /\ Goto(p, IF p \in cancelled THEN "failed" ELSE "expired")

EnterRun(p) ==
    /\ pc[p] = "enter"
    /\ Acquire(p, Stop(p))
    /\ AfterAcquire(p)
    /\ UNCHANGED <<registry, ns, cancelled, elapsed, owed>>

WaitTurn(p) ==
    /\ pc[p] = "waiting"
    /\ Recheck(p, Stop(p))
    /\ AfterAcquire(p)
    /\ UNCHANGED <<registry, ns, cancelled, elapsed, owed>>

\* begin_or_resume: the run sees every source written so far.
Snapshot(p) ==
    /\ pc[p] = "running"
    /\ owed' = owed \ {ns[p]}
    /\ Goto(p, "snapped")
    /\ UNCHANGED <<permitVars, registry, ns, cancelled, elapsed>>

\* The run ends, the guard is dropped.  It may be complete only after its
\* snapshot; an error or a panic may end it at any point.
EndRun(p) ==
    /\ \/ pc[p] = "snapped" /\ Goto(p, "complete")
       \/ pc[p] \in {"running", "snapped"} /\ Goto(p, "failed")
    /\ Release(p)
    /\ UNCHANGED <<registry, ns, cancelled, elapsed, owed>>

\* should_rerun of a complete outcome.
DecideRerun(p) ==
    /\ pc[p] = "complete"
    /\ Goto(p, IF p \in cancelled THEN "failed" ELSE "finishing")
    /\ UNCHANGED <<permitVars, registry, ns, cancelled, elapsed, owed>>

\* finish_or_rerun sees the pending flag: clear it and run again, on what is
\* left of the caller's time.
Rerun(p) ==
    /\ pc[p] = "finishing"
    /\ registry[ns[p]] = "pending"
    /\ registry' = [registry EXCEPT ![ns[p]] = "running"]
    /\ Goto(p, "enter")
    /\ UNCHANGED <<permitVars, ns, cancelled, elapsed, owed>>

\* Variant: the entry is removed whatever the pending flag says.
FinishAnyway(p) ==
    /\ pc[p] = "finishing"
    /\ registry' = [registry EXCEPT ![ns[p]] = "free"]
    /\ Return(p)
    /\ UNCHANGED <<permitVars, owed>>

\* Variant: the lease is not disarmed, so it is dropped once more.
FinishStillArmed(p) ==
    /\ pc[p] = "finishing"
    /\ registry[ns[p]] # "pending"
    /\ registry' = [registry EXCEPT ![ns[p]] = "free"]
    /\ Goto(p, "failed")
    /\ UNCHANGED <<permitVars, ns, cancelled, elapsed, owed>>

\* finish_or_rerun sees no pending flag: the entry is removed under the same
\* lock and the lease disarmed.
Finish(p) ==
    /\ pc[p] = "finishing"
    /\ registry[ns[p]] # "pending"
    /\ registry' = [registry EXCEPT ![ns[p]] = "free"]
    /\ Return(p)
    /\ UNCHANGED <<permitVars, owed>>

\* Variant: the lease forgets the entry.
LeakLease(p) ==
    /\ pc[p] \in {"failed", "expired"}
    /\ Return(p)
    /\ UNCHANGED <<permitVars, registry, owed>>

\* Variant: should_rerun does not ask how the run ended.
KeepClaim(p) ==
    /\ pc[p] \in {"failed", "expired"}
    /\ Goto(p, "finishing")
    /\ UNCHANGED <<permitVars, registry, ns, cancelled, elapsed, owed>>

\* Lease::drop, still armed: the outcome was not complete, or the run panicked.
DropLease(p) ==
    /\ pc[p] \in {"failed", "expired"}
    /\ registry' = [registry EXCEPT ![ns[p]] = "free"]
    /\ Return(p)
    /\ UNCHANGED <<permitVars, owed>>

Cancel(p) ==
    /\ pc[p] # "idle" /\ p \notin cancelled
    /\ cancelled' = cancelled \cup {p}
    /\ UNCHANGED <<permitVars, registry, pc, ns, elapsed, owed>>

\* Time passes for every caller inside dispatch.
Tick ==
    /\ \E p \in Callers : pc[p] # "idle" /\ elapsed[p] < MaxDuration
    /\ elapsed' = [p \in Callers |->
          IF pc[p] # "idle" /\ elapsed[p] < MaxDuration THEN elapsed[p] + 1 ELSE elapsed[p]]
    /\ UNCHANGED <<permitVars, registry, pc, ns, cancelled, owed>>

Step(p) ==
    \/ EnterRun(p) \/ WaitTurn(p) \/ Snapshot(p) \/ EndRun(p)
    \/ DecideRerun(p) \/ Rerun(p) \/ Finish(p) \/ DropLease(p)

GateNext ==
    \/ \E p \in Callers : Step(p) \/ Cancel(p) \/ \E n \in Namespaces : Coalesce(p, n) \/ Claim(p, n)
    \/ Tick

GateSpec == GateInit /\ [][GateNext]_allVars

(***************************************************************************)
(* A thread inside dispatch keeps running (acquire wakes every 50 ms, a    *)
(* run is bounded), and time passes.  Nothing is assumed of triggers or    *)
(* cancellations.                                                          *)
(***************************************************************************)
-----------------------------------------------------------------------------
GateTypeOK ==
    /\ PermitTypeOK
    /\ registry \in [Namespaces -> {"free", "running", "pending"}]
    /\ pc \in [Callers -> PCs]
    /\ ns \in [Callers -> Namespaces \cup {NoNamespace}]
    /\ cancelled \subseteq Callers
    /\ elapsed \in [Callers -> 0 .. MaxDuration]
    /\ owed \subseteq Namespaces

\* At most one caller is inside dispatch for a namespace, reruns and releases
\* racing fresh claims included.
OneOwner ==
    \A p, q \in Callers : pc[p] # "idle" /\ pc[q] # "idle" /\ ns[p] = ns[q] => p = q

\* A namespace has a registry entry exactly while a caller owns it: a claim is
\* never leaked (the namespace would be wedged) nor taken from its owner.
ClaimHasOwner ==
    \A n \in Namespaces :
        registry[n] # "free" <=> \E p \in Callers : pc[p] # "idle" /\ ns[p] = n

\* One consolidation pass at a time in the whole process.
OnePass ==
    \A p, q \in Callers :
        pc[p] \in {"running", "snapped"} /\ pc[q] \in {"running", "snapped"} => p = q

\* Coalescing drops no work: an owner that completes and leaves through
\* finish_or_rerun leaves no trigger that its last snapshot did not cover.
NoWorkDropped ==
    [][\A p \in Callers :
          pc[p] = "finishing" /\ pc'[p] = "idle" => ns[p] \notin owed]_allVars

-----------------------------------------------------------------------------
(* The inductive strengthening of the properties above.                    *)

PermitAgrees ==
    \A p \in Callers :
        /\ p \in holders <=> pc[p] \in {"running", "snapped"}
        /\ Live(p) <=> pc[p] \in {"waiting", "running", "snapped"}

OwnerNamed == \A p \in Callers : pc[p] # "idle" => ns[p] \in Namespaces

\* A trigger that came after the owner's snapshot has left its mark.
OwedNoted ==
    \A p \in Callers :
        pc[p] \in {"snapped", "complete", "finishing"} /\ ns[p] \in owed
            => registry[ns[p]] = "pending"

GateInv ==
    GateTypeOK /\ PermitInv /\ OneOwner /\ ClaimHasOwner
    /\ PermitAgrees /\ OwnerNamed /\ OwedNoted

-----------------------------------------------------------------------------
\* Every call of the engine returns, whatever waits in line, coalesced triggers
\* and abandoned tickets do.  It takes both halves of dispatch: an owner that
\* ends incomplete releases its claim and does not look at the pending flag
\* (should_rerun), and the reruns of one that ends complete share the clock the
\* caller read once (`start' of run_bounded_internal).  The module comment of
\* gate.rs says the first; of the second it says the contrary, that an owner
\* spends its budget once per run, and then a call need not return.
CallerReturns == \A p \in Callers : pc[p] # "idle" ~> pc[p] = "idle"

=============================================================================
