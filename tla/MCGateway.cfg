CONSTANTS
    Requests = {1, 2, 3, 4}
    Pods = {p1}
    Rpm = 2
    Daily = 3
    Window = 3
    Midnight = 2
    Lag = 1
    MaxTime = 4
    Procs = {g1, g2}
    Tenants = {a, b, c}
    MaxCached = 2
    None = None
    Rows = {1, 2, 3}
    Large = {1, 3}
    PageRows = 2
    PageBytes = 3
    Forgets = {1, 2}
    Restores = {1}
    MaxAge = 1
    MaxFiles = 1
    Times = {0, 2}
    Names = {alice, bob}
    Tasks = {a, b, c}
    Episodes = {e1}
SPECIFICATION GSpec
SYMMETRY Sym
INVARIANTS
    NamesAreStable
    LeftIsOfTheErased
    ObservationsGoWithMessages
    WindowHolds
    QuotaIsAdmissions
    OneNamespace
    NothingIsLost
    RetentionHolds
    RestoreIsComplete
PROPERTIES RetryFindsRoom ForgetTakesAll
CHECK_DEADLOCK FALSE
