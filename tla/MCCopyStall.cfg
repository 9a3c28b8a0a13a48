SPECIFICATION Spec
CONSTANTS
    Pages = {p1}
    NumBlocks = 2
    Settings <- MCDemotion
    Elide = FALSE
    MayFill = {"dram", "pcm"}
    CalmRollback = TRUE
    CounterModulus = 16
    MaxAccesses = 3
    p1 = p1
INVARIANT StalledReadsListed
CHECK_DEADLOCK FALSE
