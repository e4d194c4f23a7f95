---------------------------- MODULE MCPublisher ----------------------------
(* Publisher with the constants of the TLC configuration.                  *)
EXTENDS Publisher

CONSTANT h1

\* No headers option, a nil map, and the shared map, which replaces a nil one
\* and stays when an option of another sort follows.
OptionLists == {<<>>, <<"nil">>, <<"nil", h1, "other">>}

\* Nil messages and PublishDeadline occur in their plainest form.
SomeCalls == {c \in CallType : c.nil \/ c.waits =>
                 c.options = <<>> /\ ~c.traced /\ c.nil # c.waits}

\* PublishDeadline alone, with a message and nothing that is shared.
DeadlineCalls == {c \in CallType : c.waits /\ ~c.traced /\ ~c.nil}
NoOptions == {<<>>}

=============================================================================
