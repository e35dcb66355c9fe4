CONSTANTS
    Keys = {1, 2}
    Amounts = {1}
    ChannelCap = 2
    BatchMax = 3
    Attempts = 2
    MaxCount = 3
    MaxRepeated = 6
SPECIFICATION USpec
INVARIANT ShutDownLosesNothing
CHECK_DEADLOCK FALSE
