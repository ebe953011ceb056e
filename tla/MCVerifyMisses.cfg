\* An index from outside that verify(full) confirms, and what an erase makes of it.
SPECIFICATION LoadSpec
CONSTANTS
    Key = {1, 2, 3, 4, 5}
    Value = {1}
    Hash <- PairsHash
    HashBits = 4
    InitialShifts = 3
    SlotsPerGroup = 2
    MaxBucketCount = 8
    FingerprintValues = 4
    Counters = 2
    MaxCounter = 3
    DefaultLoadFactor = 50
    LoadFactors = {100}
    Sizes = {0, 5}
    Containers = {}
    Bytes <- MCBytes
    Spots = 2
INVARIANT VerifiedStaysCorrect
\* Bytes may be rejected, and a view is never changed.
CHECK_DEADLOCK FALSE
