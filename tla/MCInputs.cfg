SPECIFICATION MCSpec
CONSTANTS
    NULL = NULL
    Sent <- MCSent
    Padding <- MCPadding
    Digests <- MCDigests
    Messages <- MCMessages
    Leftovers <- MCLeftovers
    bucket_count = 1024
    SIZE = 131072
    INI_MAX_LINE = 13
    HOST_LEN = 3
    FileLines = 3
INVARIANTS
    NoMisparse
    Canonical
    LastSettingWins
    ContinuationRepeats
    SkippedLines
    OverlongKeepsFirst
    LastTwoDecide
    DigestIsStandard
    UpdateIsStream
CHECK_DEADLOCK FALSE
