SPECIFICATION Spec
CONSTANTS
    x = x  y = y
    Blocks = {x, y}
    L1s <- MCFirsts
    Ways <- MCWays
    Penalty <- MCPenalty
    MaxQueueSize <- MCQueues
    MemorySize = 1
    CurrentSize = 4
    MaxAccesses = 3
    MaxFlushes = 1
INVARIANTS TypeOK AssertionsHold RequestsAgree StalledAreWoken WritesKept FlushedIsGone RestsWhenDone
CHECK_DEADLOCK FALSE
