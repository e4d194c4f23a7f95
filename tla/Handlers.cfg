CONSTANTS
    Types = {t1, t2}
    Named = {t1, t2}
    Exchanges = {e1, e2}
    Keys = {k1}
    Queues = {q1, q2}
    Defined = {q1}
    Nothing = Nothing
    MaxHandlers = 3
SPECIFICATION Spec
SYMMETRY Values
INVARIANTS TypeOK TypesAreAddressed
PROPERTY LaterDoesNotSteal
CHECK_DEADLOCK FALSE
