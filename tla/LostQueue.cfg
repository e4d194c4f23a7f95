CONSTANTS
    q1 = q1
    q2 = q2
    Queues = {q1, q2}
    Definitions <- WorkAndTemporary
    DurableExchanges = FALSE
    Chans = {k1, k2, k3, k4}
    NoChan = NoChan
    MaxFaults = 1
SPECIFICATION FairSpec
PROPERTY EachRestored
CHECK_DEADLOCK FALSE
