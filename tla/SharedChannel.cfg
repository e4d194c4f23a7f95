CONSTANTS
    q1 = q1
    q2 = q2
    m1 = m1
    m2 = m2
    Queues = {q1, q2}
    Msgs = {m1, m2}
    QueueOf <- OneEach
    Kinds = {"typed"}
    Configs <- JustRetryDlq
    Retries = 1
    Prefetch = 0
    Chans = {k1, k2}
    NoChan = NoChan
    MaxFaults = 0
    MaxDeaths = 1
SPECIFICATION Spec
INVARIANT RetryableIsKept
CHECK_DEADLOCK FALSE
