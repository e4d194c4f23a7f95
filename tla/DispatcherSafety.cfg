CONSTANTS
    q1 = q1
    q2 = q2
    m1 = m1
    m2 = m2
    Queues = {q1}
    Msgs = {m1, m2}
    QueueOf <- AllInQ1
    Kinds = {"typed", "malformed", "unknown"}
    Configs <- AnyConfig
    Retries = 1
    Prefetch = 2
    Chans = {k1, k2, k3}
    NoChan = NoChan
    MaxFaults = 2
    MaxDeaths = 2
SPECIFICATION Spec
INVARIANTS TypeOK NoSilentLoss RetryBound OneFate TagsKnown
PROPERTY KeepsMessages
CHECK_DEADLOCK FALSE
