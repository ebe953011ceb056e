\* Allocators that never propagate; a move assignment that throws.
SPECIFICATION Spec
CONSTANTS
    Table = {t1, t2}
    Elem = {e1, e2, e3}
    Allocator = {a1, a2}
    Nobody = Nobody
    Array = {b1, b2, b3}
    NoArray = NoArray
    Pocca = FALSE
    Pocma = FALSE
    Pocs = FALSE
    HashBits = 2
    InitialShifts = 1
    SlotsPerGroup = 1
    MaxBucketCount = 4
    DefaultLoadFactor = 100
    LoadFactors = {50}
SYMMETRY Symmetry
INVARIANTS
    AssignmentGuarantee
