SPECIFICATION FairSpec
CONSTANTS
    v1 = v1  v2 = v2  d1 = d1  d2 = d2  q1 = q1  q2 = q2  c1 = c1  c2 = c2
    Pages = {v1, v2}
    DramFrames = {d1, d2}
    PcmFrames = {q1, q2}
    Cpus = {c1}
    NumBlocks = 2
    FlushPolicies = {"FLUSH_PCM_BEFORE", "REMAP"}
    SuppressWritebacks = FALSE
    MaxFlushQueueSize = 1
    MaxTableSize = 2
    UsedModulus = 1
PROPERTY Progress
CHECK_DEADLOCK FALSE
