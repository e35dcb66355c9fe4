CONSTANTS
    N = 3
    EntityOf <- OneEntity
    tA = tA
    tB = tB
    tC = tC
    Texts = {tA, tB, tC}
    NoText = NoText
    Similar <- Chain
    Runners = {r1}
    SourcePage = 2
    CandidatePage = 1
    MaxMembers = 3
    MaxWrites = 2
    MaxStops = 1
SPECIFICATION FairSpec
INVARIANTS
    CursorCoversDecided
    ClusteringIsGreedy
PROPERTIES
    EvidenceIsCurrent
    EventuallyConsolidated
