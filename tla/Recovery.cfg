CONSTANTS
    q1 = q1
    q2 = q2
    Queues = {q1, q2}
    Definitions <- WorkAndOther
    DurableExchanges = FALSE
    Chans = {k1, k2, k3, k4}
    NoChan = NoChan
    MaxFaults = 3
SPECIFICATION FairSpec
INVARIANTS TypeOK TargetsFirst DeclaredWhenIdle
PROPERTIES Redeclared Restored
CHECK_DEADLOCK FALSE
