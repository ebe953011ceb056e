\* Two groups of one slot, growing to four; two values, so that an assignment shows.
SPECIFICATION FairSpec
CONSTANTS
    Key = {1, 2, 3}
    Value = {1, 2}
    Hash <- MapHash
    HashBits = 4
    InitialShifts = 3
    SlotsPerGroup = 1
    MaxBucketCount = 4
    FingerprintValues = 4
    Counters = 2
    MaxCounter = 2
    DefaultLoadFactor = 100
    LoadFactors = {50}
    Sizes = {0, 4}
    Containers <- MapContainers
PROPERTIES
    ImplementsMap
    LoopsEnd
