CONSTANTS
    c1 = c1
    c2 = c2
    c3 = c3
    p1 = p1
    p2 = p2
    p3 = p3
    Pods <- ThreePods
    Callers <- ThreeCallers
    Configs <- OnlyTrio
SPECIFICATION Spec
INVARIANT OneProbe
