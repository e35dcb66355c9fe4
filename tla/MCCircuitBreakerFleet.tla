------------------------ MODULE MCCircuitBreakerFleet ------------------------
(* Small deployments of CircuitBreaker.                                       *)
EXTENDS CircuitBreaker

CONSTANTS c1, c2, c3, p1, p2, p3

ThreeCallers == {c1, c2, c3}
TwoPods == {p1, p2}
ThreePods == {p1, p2, p3}

\* A pod whose three callers share its local state and no Redis.
Alone ==
    [podOf |-> [c \in {c1, c2, c3} |-> p1], shared |-> FALSE,
     threshold |-> 2, window |-> 2, cooldown |-> 2, probeTimeout |-> 3,
     callTimeout |-> 1, maxMishaps |-> 2, maxFailures |-> 4]

\* Two pods with a caller each that share the Redis keys.
Fleet ==
    [podOf |-> [c \in {c1, c2} |-> IF c = c1 THEN p1 ELSE p2], shared |-> TRUE,
     threshold |-> 1, window |-> 1, cooldown |-> 3, probeTimeout |-> 3,
     callTimeout |-> 1, maxMishaps |-> 1, maxFailures |-> 2]

AloneOrFleet == {Alone, Fleet}

\* Three pods with a caller each, nothing lost and nobody dropped.
Trio ==
    [podOf |-> [c \in {c1, c2, c3} |-> CASE c = c1 -> p1 [] c = c2 -> p2 [] c = c3 -> p3],
     shared |-> TRUE, threshold |-> 1, window |-> 1, cooldown |-> 2, probeTimeout |-> 3,
     callTimeout |-> 1, maxMishaps |-> 0, maxFailures |-> 1]

OnlyTrio == {Trio}
=============================================================================
