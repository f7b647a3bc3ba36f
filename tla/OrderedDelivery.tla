-------------------------- MODULE OrderedDelivery --------------------------
(***************************************************************************)
(* What a push subscription promises, whatever is lost on the way: the     *)
(* application receives notifications the Gateway sent, in the order they  *)
(* were sent, none of them twice.  Notifications are numbered as they      *)
(* arrive at the read loop.                                                *)
(***************************************************************************)
EXTENDS Naturals

VARIABLES
    sent,   \* notifications read from the connection
    last    \* the number of the last one the application received

Init == sent = 0 /\ last = 0

Arrive == sent' = sent + 1 /\ UNCHANGED last

\* Any later one: those in between are lost.
Receive ==
    /\ \E n \in last + 1 .. sent : last' = n
    /\ UNCHANGED sent

Next == Arrive \/ Receive

Spec == Init /\ [][Next]_<<sent, last>>

=============================================================================
