SPECIFICATION Spec
CONSTANTS
    Latency = 2
    Delays <- MCDelays
    Start = 2
    MaxTransfers = 4
    MaxTime = 6
INVARIANTS
    TypeOK
    NoOverlap
PROPERTY
    CalledBackOnTime
CHECK_DEADLOCK FALSE
