SPECIFICATION Spec
CONSTANTS
    Nodes = {n1, n2}
    d = d
    Dir <- OneDir
    Junk = {j1}
    NULL = NULL
    TORN = TORN
    SIGNALS = 3
    MAX_STARTS = 2
    MAX_SIGNALS = 0
    MAX_FAILURES = 0
INVARIANTS
    UniqueIdentity
CHECK_DEADLOCK FALSE
