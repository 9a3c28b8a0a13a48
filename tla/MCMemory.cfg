SPECIFICATION FairSpec
CONSTANTS
    b1 = b1  b2 = b2  c1 = c1
    Banks = {b1, b2}
    NoBank = NoBank
    Callers = {c1}
    Inputs <- MCInputs
    Settings <- MCSettings
    OpenLatency = 2
    CloseLatency = 1
    AccessLatency = 2
    BusLatency = 1
    MaxRequests = 3
    MaxTime = 1
INVARIANTS TypeOK BanksAgree ReadsSeeWrites
PROPERTIES UsesBus EveryoneServed
CHECK_DEADLOCK FALSE
