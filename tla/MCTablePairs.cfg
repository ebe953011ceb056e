\* Two groups of two slots, growing to four groups, the largest array, and a
\* look-ahead of two; the values tell where an element is from.  What is loaded is
\* in MCTablePairs.
SPECIFICATION MCSpec
CONSTANTS
    Key = {1, 2, 3, 4, 5}
    Value = {1, 2, 3}
    Hash <- PairsHash
    HashBits = 4
    InitialShifts = 3
    SlotsPerGroup = 2
    MaxBucketCount = 8
    FingerprintValues = 4
    Counters = 2
    MaxCounter = 3
    DefaultLoadFactor = 80
    LoadFactors = {40, 120}
    Sizes = {0, 6}
    Containers <- MCContainers
    Bytes <- MCBytes
    Spots = 16
    SourceHash <- MCSourceHash
    Depth = 2
    NoKey = NoKey
    Ranges <- MCRanges
    MaxElements <- MCMaxElements
INVARIANTS
    ShiftMatchesArray
    IndexExact
    KeysUnique
    BatchesIndex
    BatchesAreExact
    LoadedIndexHolds
\* Bytes may be rejected; that the table never stops is checked by the other runs of it.
CHECK_DEADLOCK FALSE
