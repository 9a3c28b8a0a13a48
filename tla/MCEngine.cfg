SPECIFICATION FairSpec
CONSTANTS
    NoEvent = NoEvent
    StatsPeriod = 3
    ProgressPeriod = 5
    Delays <- MCDelays
    MaxEvents = 4
INVARIANTS
    TypeOK
    WindowInv
PROPERTIES
    ImplementsEventQueue
    Terminates
CHECK_DEADLOCK FALSE
