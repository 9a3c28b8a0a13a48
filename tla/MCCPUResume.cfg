SPECIFICATION Spec
CONSTANTS
    p1 = p1  p2 = p2
    Pages = {p1, p2}
    Trace <- MCTrace
    RobSize = 3
    IssueWidth = 2
    Accepts = {0, 1, 4}
    MaxHolds = 2
INVARIANT
    ResumedHasPausers
CHECK_DEADLOCK FALSE
