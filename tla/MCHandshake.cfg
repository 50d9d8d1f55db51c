SPECIFICATION FairSpec
CONSTANTS
    NULL = NULL
    n1 = n1
    n2 = n2
    n3 = n3
    name = name
    p1 = p1
    p2 = p2
    p3 = p3
    p4 = p4
    Nodes <- MCNodes
    Unparsable = {name}
    Seeds <- MCSeeds
    Ports = {p1, p2, p3, p4}
    Ephemeral <- FreshPorts
    Foreign <- MCForeign
    HashOf <- MCHashOf
    MaxSeeds = 2
    MaxLife = 2
    Lives <- MCLives
INVARIANTS
    SocketsClosed
    PeerServes
    PeersAcyclic
PROPERTIES
    StartedServes
CHECK_DEADLOCK FALSE
