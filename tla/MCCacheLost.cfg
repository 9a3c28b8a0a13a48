SPECIFICATION Spec
CONSTANTS
    x = x  y = y
    Blocks = {x, y}
    L1s <- MCFirsts
    Ways <- MCWays
    Penalty <- MCPenalty
    MaxQueueSize <- MCQueues
    MemorySize = 1
    CurrentSize = 4
    MaxAccesses = 3
    MaxFlushes = 0
INVARIANT AccessFindsRequest
CHECK_DEADLOCK FALSE
