SPECIFICATION FairSpec
CONSTANTS
    Threads = {t1, t2}
    Keys <- MCKeys
    Values <- MCValues
    Buckets <- MCBuckets
    BucketOf <- MCBucketOf
    NULL = NULL
INVARIANTS
    ChainsSound
    LengthFits
PROPERTIES
    ChainsOnlyGrow
    MapSpec
    LocksReleased
