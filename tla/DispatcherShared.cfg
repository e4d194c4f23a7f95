CONSTANTS
    q1 = q1
    q2 = q2
    m1 = m1
    m2 = m2
    Queues = {q1, q2}
    Msgs = {m1, m2}
    QueueOf <- OneEach
    Kinds = {"typed"}
    Configs <- RetryOrPlain
    Retries = 1
    Prefetch = 0
    Chans = {k1, k2, k3, k4}
    NoChan = NoChan
    MaxFaults = 1
    MaxDeaths = 1
SPECIFICATION FairSpec
INVARIANTS RetryBound
PROPERTIES Drains Resubscribes
CHECK_DEADLOCK FALSE
