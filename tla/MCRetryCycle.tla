---------------------------- MODULE MCRetryCycle ----------------------------
(* RetryCycle with the constants of the TLC configurations.                *)
EXTENDS RetryCycle, TLC

\* Every definition, each limit unset or one message.
AnyDefinition == [retry : BOOLEAN, dlq : BOOLEAN, limit : {0, 1},
                  dlqLimit : {0, 1}, byExchange : BOOLEAN]

=============================================================================
