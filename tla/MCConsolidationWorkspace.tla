---------------------- MODULE MCConsolidationWorkspace ----------------------
(* Small instances of ConsolidationWorkspace.                              *)
EXTENDS ConsolidationWorkspace, TLC

CONSTANTS tA, tB, tC

OneEntity == [s \in 1 .. N |-> 1]
\* tB is similar to both others, which are not similar to one another.
Chain == {<<tA, tA>>, <<tB, tB>>, <<tC, tC>>, <<tA, tB>>, <<tB, tA>>, <<tB, tC>>, <<tC, tB>>}
Sym == Permutations(Runners)
=============================================================================
