SPECIFICATION Spec
CONSTANTS
    Pages = {p1}
    NumBlocks = 4
    Settings <- MCDemotionEarly
    Elide = FALSE
    MayFill = {}
    CalmRollback = TRUE
    CounterModulus = 16
    MaxAccesses = 3
    p1 = p1
INVARIANT AssertionsHold
CHECK_DEADLOCK FALSE
