--------------------------- MODULE MCRegistration ---------------------------
(* Registration with the constants of the TLC configurations.              *)
EXTENDS Registration, TLC

\* The types, the exchanges and the keys are interchangeable.
Values ==
    Permutations(Types) \cup Permutations(Exchanges) \cup Permutations(Keys)

=============================================================================
