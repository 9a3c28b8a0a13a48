SPECIFICATION Spec
CONSTANTS
    x = x  y = y
    Blocks = {x, y}
    L1s <- MCFirsts
    Ways <- MCWays
    Penalty <- MCPenalty
    MaxQueueSize <- MCQueues
    MemorySize = 2
    CurrentSize = 4
    MaxAccesses = 3
    MaxFlushes = 1
INVARIANT ReadsGoFirst
CHECK_DEADLOCK FALSE
