SPECIFICATION FairSpec
CONSTANTS
    NULL = NULL
    Hash <- MCHash
    Workers = {w1, w2}
    Clients = {a, b}
    Datagrams <- MCDatagrams
    Reqs = {r1, r2}
    RCVBUF = 2
    MAX_ARRIVALS = 3
INVARIANTS
    HandlerReady
    OneOwner
    AnsweredOnce
    RepliesMatch
    PingGetsPong
PROPERTIES
    BufferedIsAnswered
CHECK_DEADLOCK FALSE
