---------------------------- MODULE MCDispatcher ----------------------------
(* Dispatcher with the constants of the TLC configurations.                *)
EXTENDS Dispatcher, TLC

CONSTANTS q1, q2, m1, m2

RetryDlq == [retry |-> TRUE, dlq |-> TRUE]
OnlyDlq == [retry |-> FALSE, dlq |-> TRUE]
OnlyRetry == [retry |-> TRUE, dlq |-> FALSE]
Plain == [retry |-> FALSE, dlq |-> FALSE]

\* Queue definitions of the runs.
JustRetryDlq == {RetryDlq}
RetryOrPlain == {RetryDlq, Plain}
AnyConfig == {RetryDlq, OnlyDlq, OnlyRetry, Plain}

\* All the messages in one queue, or one in each.
AllInQ1 == [m \in Msgs |-> q1]
OneEach == [m \in Msgs |-> IF m = m1 THEN q1 ELSE q2]

=============================================================================
