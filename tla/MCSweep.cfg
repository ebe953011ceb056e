\* Two mutants in every combination of fates, two lanes; see MCSweep for the
\* other two scenarios.
SPECIFICATION MCSpec
CONSTANTS
    N = 2
    L = 2
    BaselineRuns = 1
    Timeouts = 0
    Interrupts = 0
    Failures = 1
INVARIANTS
    VerdictsStand
    ScoredIsProven
    PrintedInOrder
    LanesGo
PROPERTY Ends
