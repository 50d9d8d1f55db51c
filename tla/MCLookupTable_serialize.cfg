SPECIFICATION FairSpec
CONSTANTS
    h1 = h1
    h2 = h2
    Threads = {t1, t2}
    Cells = {n1}
    Hosts = {h1, h2}
    Ports = {1}
    Hashes = {x}
    Stored <- Short
    Kinds <- EveryKind
    NULL = NULL
PROPERTIES
    SerializeReturns
CHECK_DEADLOCK FALSE
