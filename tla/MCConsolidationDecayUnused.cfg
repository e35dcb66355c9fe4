CONSTANTS
    Rows = {1}
    Episodic = {1}
    Procedural = {}
    Sweepers = {s1}
    DecayPage = 1
    Horizon = 2
    MaxClock = 4
SPECIFICATION DSpec
INVARIANT UnusedIsDecayed
