SPECIFICATION FairSpec
CONSTANTS
    h1 = h1
    h2 = h2
    Threads = {t1, t2}
    Cells = {n1, n2, n3}
    Hosts = {h1, h2}
    Ports = {1, 2}
    Hashes = {x}
    Stored <- Short
    Kinds <- EveryKind
    NULL = NULL
INVARIANTS
    TableSound
    AddressesUnique
PROPERTIES
    MutexReleased
CHECK_DEADLOCK FALSE
