SPECIFICATION FairSpec
CONSTANTS
    Producers = {p1, p2}
    Consumers = {c1, c2}
    Items = {d1, d2, d3}
    Cells = {n0, n1, n2, n3}
    Dummy = n0
    NULL = NULL
INVARIANTS
    ListShape
    HeapExact
    TakeFindsNode
    WorkConserving
PROPERTIES
    FifoFairSpec
