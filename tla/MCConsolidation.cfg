CONSTANTS
    Callers = {p1, p2, p3}
    TicketSpan = 5
    Namespaces = {n1, n2}
    NoNamespace = NoNamespace
    MaxDuration = 1
    Procs = {r1, r2}
    Writers = {w1}
    tA = tA
    NoText = NoText
    Rows = {1, 2}
    Episodic = {1}
    Procedural = {2}
    Sweepers = {r1, r2}
    DecayPage = 1
    Horizon = 1
    MaxClock = 2
SPECIFICATION CSpec
SYMMETRY Sym
INVARIANTS
    PermitNotLost
    OneOwner
    ClaimHasOwner
    OnePass
    NoDuplicatePromotion
    MutationsSerialize
    CompletePassSawAll
    HalvingsArePaid
PROPERTIES
    ImplementsFifo
    NoWorkDropped
    SupersededStaysBuried
