SPECIFICATION FairSpec
CONSTANTS
    Nodes = {n1}
    d = d
    Dir <- OwnDirs
    Junk = {j1, j2}
    NULL = NULL
    TORN = TORN
    SIGNALS = 3
    MAX_STARTS = 3
    MAX_SIGNALS = 2
    MAX_FAILURES = 2
INVARIANTS
    StableIdentity
PROPERTIES
    SavedStays
    SignalStops
CHECK_DEADLOCK FALSE
