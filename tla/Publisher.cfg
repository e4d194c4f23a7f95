CONSTANTS
    h1 = h1
    Callers = {p1, p2}
    Maps = {h1}
    Options <- OptionLists
    Calls <- SomeCalls
    Chans = {k1, k2}
    None = None
    MaxCalls = 3
SPECIFICATION Spec
INVARIANTS TypeOK OwnTrace HonestResult CrashFree
CHECK_DEADLOCK FALSE
