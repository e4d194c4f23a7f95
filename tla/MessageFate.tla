---------------------------- MODULE MessageFate ----------------------------
(***************************************************************************)
(* What the dispatcher promises for the messages of a queue with a DLQ     *)
(* that its handlers understand: the abstract specification that           *)
(* Dispatcher implements. A message is processed at least once; it stays   *)
(* in the hands of the broker and the dispatcher until a handler took it,  *)
(* it was published to the DLQ, or that publication failed; and it never   *)
(* comes back afterwards.                                                  *)
(***************************************************************************)
VARIABLES
    kept,     \* the messages this is about
    waiting,  \* those that are still to be processed, possibly once more
    handled,  \* those whose handler succeeded in its last run
    dead,     \* those with a copy in the DLQ
    lost      \* those whose publication to the DLQ failed

vars == <<kept, waiting, handled, dead, lost>>

Init == waiting = kept /\ handled = {} /\ dead = {} /\ lost = {}

\* m is done with, unless its settlement does not reach the broker.
Leave(m) == waiting' \in {waiting, waiting \ {m}}

Handle(m) ==
    /\ handled' = handled \cup {m} /\ Leave(m) /\ UNCHANGED <<kept, dead, lost>>

\* The handler failed: another try, or the DLQ.
Fail(m) ==
    /\ handled' = handled \ {m} /\ UNCHANGED <<kept, waiting, dead, lost>>

Bury(m) ==
    dead' = dead \cup {m} /\ Leave(m) /\ UNCHANGED <<kept, handled, lost>>

Lose(m) ==
    lost' = lost \cup {m} /\ Leave(m) /\ UNCHANGED <<kept, handled, dead>>

Next == \E m \in waiting : Handle(m) \/ Fail(m) \/ Bury(m) \/ Lose(m)

Spec == Init /\ [][Next]_vars

=============================================================================
