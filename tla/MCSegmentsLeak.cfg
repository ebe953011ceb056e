\* A copy or move construction that throws half way.
SPECIFICATION Spec
CONSTANTS
    Vec = {v1, v2}
    Elem = {e1, e2}
    Allocator = {a1, a2}
    Block = 2
    MaxSize = 3
    Pocca = FALSE
    Pocma = FALSE
    Pocs = FALSE
    ConstructorsThrow = TRUE
INVARIANT BlocksAccountedFor
