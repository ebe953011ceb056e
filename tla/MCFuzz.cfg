\* An --idle of twenty seconds, so a look every two, and counts that are right;
\* the bounds of the other parts are in MCFuzz.
SPECIFICATION MCSpec
CONSTANTS
    Idle = 20
    Late = 1
    MaxFinds = 2
    ShortCounts = FALSE
    Raises = TRUE
INVARIANTS
    QuietIsQuiet
    QuietIsSeen
    FleetIsRun
    CorporaAreKept
PROPERTY ScriptEnds
