SPECIFICATION Spec
CONSTANTS
    NULL = NULL
    Hash <- MCHash
    Workers = {w1}
    Clients = {a}
    Datagrams <- LiveDatagrams
    Reqs = {r1, r2}
    RCVBUF = 2
    MAX_ARRIVALS = 2
INVARIANTS
    ParseErrorGetsError
CHECK_DEADLOCK FALSE
