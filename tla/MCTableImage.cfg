SPECIFICATION ImageFairSpec
CONSTANTS
    NodeInfos = {x, y}
    MaxNodes = 3
INVARIANTS
    ReadsInside
    NothingLeaks
    ComesBackReversed
PROPERTIES
    Returns
CHECK_DEADLOCK FALSE
