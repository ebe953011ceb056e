\* Two groups of one slot, growing to four; counters saturate at 2.
SPECIFICATION Spec
CONSTANTS
    Key = {1, 2, 3, 4, 5}
    Value = {1}
    Hash <- SinglesHash
    HashBits = 4
    InitialShifts = 3
    SlotsPerGroup = 1
    MaxBucketCount = 4
    FingerprintValues = 4
    Counters = 2
    MaxCounter = 2
    DefaultLoadFactor = 100
    LoadFactors = {160}
    Sizes = {0}
    Containers <- SinglesContainers
INVARIANTS
    LookupsAgree
    CountersExact
    RoomToPlace
PROPERTIES
    SaturatedStays
    EntriesOnlyMoveHome
