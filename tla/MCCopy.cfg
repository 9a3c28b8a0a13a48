SPECIFICATION FairSpec
CONSTANTS
    Pages = {p1}
    NumBlocks = 3
    Settings <- MCBoth
    Elide = FALSE
    MayFill = {"pcm"}
    CalmRollback = TRUE
    CounterModulus = 16
    MaxAccesses = 3
    p1 = p1
INVARIANTS TypeOK Coherent CopyAgrees
PROPERTIES NobodyIsForgotten CopyEnds
CHECK_DEADLOCK FALSE
