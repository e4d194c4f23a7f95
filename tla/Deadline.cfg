CONSTANTS
    h1 = h1
    Callers = {p1}
    Maps = {}
    Options <- NoOptions
    Calls <- DeadlineCalls
    Chans = {k1, k2}
    None = None
    MaxCalls = 1
SPECIFICATION FairSpec
PROPERTY DeadlineReturns
CHECK_DEADLOCK FALSE
