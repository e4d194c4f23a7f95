------------------------- MODULE ManagedConnection -------------------------
(***************************************************************************)
(* What a caller may rely on about the connection and the channel that a   *)
(* connection manager hands out: the abstract specification that           *)
(* ConnectionManager implements.                                           *)
(***************************************************************************)
CONSTANTS Conns, Chans

VARIABLES phase, conn, ch

vars == <<phase, conn, ch>>

Init == phase = "absent" /\ conn \in Conns /\ ch \in Chans

\* NewConnectionManager returns.
Connect ==
    /\ phase = "absent" /\ phase' = "open"
    /\ conn' \in Conns /\ ch' \in Chans

\* A failure was noticed: callers get an error from now on.
Suspend == phase = "open" /\ phase' = "suspended" /\ UNCHANGED <<conn, ch>>

\* A new connection, with its channel, is put in place meanwhile.
Replace ==
    /\ phase = "suspended" /\ conn' \in Conns /\ ch' \in Chans
    /\ UNCHANGED phase

Resume == phase = "suspended" /\ phase' = "open" /\ UNCHANGED <<conn, ch>>

\* Only the channel is replaced, without a pause for the callers.
Renew == phase = "open" /\ ch' \in Chans /\ UNCHANGED <<phase, conn>>

\* A close takes effect on an open manager, and is final.
Close == phase = "open" /\ phase' = "closed" /\ UNCHANGED <<conn, ch>>

Next == Connect \/ Suspend \/ Replace \/ Resume \/ Renew \/ Close

Spec == Init /\ [][Next]_vars

=============================================================================
