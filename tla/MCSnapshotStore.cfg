CONSTANTS
    Rows = {1, 2, 3}
    Large = {1, 2}
    PageRows = 2
    PageBytes = 3
    Forgets = {1}
    Restores = {1}
    MaxAge = 1
    MaxFiles = 1
    Times = {0}
SPECIFICATION SSpec
INVARIANT EverySnapshotRestores
CHECK_DEADLOCK FALSE
