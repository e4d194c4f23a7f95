----------------------------- MODULE MCRecovery -----------------------------
(* Recovery with the constants of the TLC configurations.                  *)
EXTENDS Recovery

CONSTANTS q1, q2

Flags(retry, dlq, durable, delete, exclusive) ==
    [retry |-> retry, dlq |-> dlq, durable |-> durable, delete |-> delete,
     exclusive |-> exclusive]

Pair(d1, d2) == [q \in Queues |-> IF q = q1 THEN d1 ELSE d2]

Work == Flags(TRUE, TRUE, TRUE, FALSE, FALSE)

\* A durable work queue with retries beside a queue of each other sort.
WorkAndOther == {Pair(Work, Flags(FALSE, dlq, FALSE, delete, exclusive)) :
                    dlq, delete, exclusive \in BOOLEAN}

\* The work queue beside a temporary one.
WorkAndTemporary == {Pair(Work, Flags(FALSE, FALSE, FALSE, TRUE, TRUE))}

=============================================================================
