SPECIFICATION Spec
CONSTANTS
    Pages <- MCPages
    NumPids = 2
    NumQueues = 3
    ThresholdQueue = 1
    Lifetime = 1
    DramPages = 2
    Policies = {"multi_queue", "first_touch", "double_clock", "two_lru", "offline"}
    Allocs = {"DRAM_FIRST", "PCM_ONLY"}
    FlagSets <- MCFlags
    HitLimit = 2
    Trace <- MCTrace
    Weights <- MCWeights
    MetricThreshold = 1
    MaxTime = 5
INVARIANTS PlacesAgree DefectsAreConfined
PROPERTY ImplementsPlacement
CHECK_DEADLOCK FALSE
