CONSTANTS
    Conns = {c1, c2}
    Chans = {k1, k2, k3, k4}
    NoConn = NoConn
    NoChan = NoChan
    Limits <- ForEver
    InitialDelay = 1
    BackoffMax = 1
    CallbackReads = FALSE
    MaxFaults = 1
    MaxCancels = 0
SPECIFICATION Spec
INVARIANT CloseIsFinal
CHECK_DEADLOCK FALSE
