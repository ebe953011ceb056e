\* Allocators that never propagate; those that follow, the vectors in blocks
\* and what a debugger shows are in MCTransfer.
SPECIFICATION MCSpec
CONSTANTS
    Table = {t1, t2}
    Elem = {e1, e2}
    Allocator = {a1, a2}
    Nobody = Nobody
    Array = {b1, b2, b3}
    NoArray = NoArray
    Pocca = FALSE
    Pocma = FALSE
    Pocs = FALSE
    HashBits = 2
    InitialShifts = 1
    SlotsPerGroup = 1
    MaxBucketCount = 4
    DefaultLoadFactor = 50
    LoadFactors = {100}
SYMMETRY Symmetry
INVARIANTS
    TablesUsable
    ArraysAccountedFor
    HalvesAgree
    SegmentsHold
    ChildrenLeadBack
