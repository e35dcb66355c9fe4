CONSTANTS
    c1 = c1
    c2 = c2
    c3 = c3
    p1 = p1
    p2 = p2
    p3 = p3
    Pods <- TwoPods
    Callers <- ThreeCallers
    Configs <- AloneOrFleet
SPECIFICATION FairSpec
INVARIANTS HalfOpenIsQuiet OneProbeUndisturbed
PROPERTY Recovers
