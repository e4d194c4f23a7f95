------------------------ MODULE MCConnectionManager ------------------------
(* ConnectionManager with the constants of the TLC configurations.         *)
EXTENDS ConnectionManager

\* Retry for ever, which is the default, or give up after one attempt.
WithAndWithoutLimit == {0, 1}
ForEver == {0}

=============================================================================
