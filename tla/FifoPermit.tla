----------------------------- MODULE FifoPermit -----------------------------
(***************************************************************************)
(* What the consolidation permit promises its callers: they are served one *)
(* at a time, in the order in which they asked; a caller may leave the     *)
(* line before it is served.                                               *)
(***************************************************************************)
CONSTANT Callers

VARIABLES
    line,   \* callers that asked and did not leave
    order,  \* pairs of callers in the line: the first asked before the second
    served  \* the callers in the line that have the permit

vars == <<line, order, served>>

Init == line = {} /\ order = {} /\ served = {}

First(p) == p \in line /\ \A q \in line \ {p} : <<p, q>> \in order

Without(p) == {pair \in order : p \notin {pair[1], pair[2]}}

\* A caller that finds the line empty is served at once.
Join(p) ==
    /\ p \notin line
    /\ line' = line \union {p}
    /\ order' = order \union (line \X {p})
    /\ served' = IF line = {} THEN {p} ELSE served

Serve(p) ==
    /\ First(p) /\ served = {}
    /\ served' = {p}
    /\ UNCHANGED <<line, order>>

Leave(p) ==
    /\ p \in line \ served
    /\ line' = line \ {p}
    /\ order' = Without(p)
    /\ UNCHANGED served

Finish(p) ==
    /\ p \in served
    /\ line' = line \ {p}
    /\ order' = Without(p)
    /\ served' = {}

Next == \E p \in Callers : Join(p) \/ Serve(p) \/ Leave(p) \/ Finish(p)

Spec == Init /\ [][Next]_vars
=============================================================================
