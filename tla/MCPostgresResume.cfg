CONSTANTS
    N = 2
    EntityOf <- OneEntity
    tA = tA
    Texts = {tA}
    NoText = NoText
    Similar <- Same
    Runners = {r1}
    Writers = {}
    SourcePage = 2
    CandidatePage = 2
    MaxMembers = 2
    MaxWrites = 0
    MaxStops = 1
SPECIFICATION WSpec
INVARIANT CursorCoversDecided
