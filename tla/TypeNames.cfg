CONSTANTS
    Types = {t1, t2}
    Named = {t1}
    Exchanges = {e1, e2}
    Keys = {k1}
    Queues = {q1, q2}
    Defined = {q1}
    Nothing = Nothing
    MaxHandlers = 3
SPECIFICATION Spec
INVARIANT PublishedIsHandled
CHECK_DEADLOCK FALSE
