CONSTANTS
    Triggers = {p1, p2}
    TicketSpan = 4
    Namespaces = {n1, n2}
    NoNamespace = NoNamespace
    MaxDuration = 1
    Callers = {c1, c2, c3, c4}
    Permits = 2
    MaxBytes = 2
    Sizes = {0, 1, 2, 3}
    Keys = {1, 2}
    Amounts = {1, 2}
    ChannelCap = 2
    BatchMax = 3
    Attempts = 2
    MaxCount = 4
    MaxRepeated = 8
SPECIFICATION PSpec
INVARIANTS
    CountsConserved
PROPERTIES
    FairShareAdmitted
    CallerReturns
    WaitEnds
    CountsSettle
CHECK_DEADLOCK FALSE
