\* One lane over two runs, two edits of the tree in between; the bounds of the
\* other parts are in MCLanes.
SPECIFICATION MCSpec
CONSTANTS
    Target = h
    Units = {t, u}
    Including = {t}
    Dir <- MCDir
    Texts = {a, b}
    Runs = 2
    Edits = 2
    Mutants = 1
    Unsaid = Unsaid
INVARIANTS
    TestsRunTheLane
    LaneIsTheTree
    LanesAreAsAsked
    FilterChecksTheFile
    CompiledLinesStay
    KillsAreSeen
    LanesKeepToTheirShare
