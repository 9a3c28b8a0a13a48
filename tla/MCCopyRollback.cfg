SPECIFICATION Spec
CONSTANTS
    Pages = {p1}
    NumBlocks = 2
    Settings <- MCRollback
    Elide = FALSE
    MayFill = {"pcm"}
    CalmRollback = FALSE
    CounterModulus = 16
    MaxAccesses = 4
    p1 = p1
INVARIANT AnswersComeFromSource
CHECK_DEADLOCK FALSE
