------------------------------ MODULE Registry ------------------------------
(***************************************************************************)
(* What DPSet promises about datapath ids, without threads and queues: a   *)
(* connection is registered under its id once; one that finds an earlier   *)
(* connection there takes its place and closes it; and an id is given up   *)
(* only after the connection that holds it was closed.                     *)
(***************************************************************************)
EXTENDS Naturals

CONSTANTS Conn, DpId, None, dpid

VARIABLES
    holder,     \* for each id, the connection registered under it
    used,       \* connections that have been registered
    dead        \* connections that were closed

vars == <<holder, used, dead>>

Init == holder = [d \in DpId |-> None] /\ used = {} /\ dead = {}

\* A connection takes its id, from nobody or from an earlier connection.
Enter(c) ==
    /\ c \notin used /\ used' = used \cup {c}
    /\ holder' = [holder EXCEPT ![dpid[c]] = c]
    /\ dead' = dead \cup ({holder[dpid[c]]} \ {None})

\* A connection is closed.
Die(c) == dead' = dead \cup {c} /\ UNCHANGED <<holder, used>>

\* A closed connection gives its id up, if it holds it.
Leave(c) ==
    /\ c \in dead /\ holder[dpid[c]] = c
    /\ holder' = [holder EXCEPT ![dpid[c]] = None]
    /\ UNCHANGED <<used, dead>>

Next == \E c \in Conn : Enter(c) \/ Die(c) \/ Leave(c)

Spec == Init /\ [][Next]_vars

=============================================================================
