SPECIFICATION Spec
CONSTANTS
    Pages <- MCOtherPages
    NumPids = 1
    NumQueues = 3
    ThresholdQueue = 1
    Lifetime = 1
    DramPages = 2
    MaxFree = 1
    Allocs = {"DRAM_FIRST", "PCM_ONLY"}
    FlagSets <- MCFlags
    DemotionAttempts = 1
    Counts = {3}
    Steps = {2}
    MaxTime = 6
    MaxMoves = 3
INVARIANT IndexInRange
CHECK_DEADLOCK FALSE
