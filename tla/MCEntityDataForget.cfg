CONSTANTS
    Names = {alice}
    Tasks = {t1, t2, t3}
    Episodes = {e1}
    Kinds = {"remember", "forget"}
    Postgres = FALSE
    Existing = {}
    None = None
SPECIFICATION Spec
INVARIANT ForgetIsEntityWide
CHECK_DEADLOCK FALSE
