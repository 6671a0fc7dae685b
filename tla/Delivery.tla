------------------------------- MODULE Delivery ------------------------------
(***************************************************************************)
(* What an event bus promises the parts it connects: an event that has     *)
(* been emitted is handed to its subscribers once, at the moment it is     *)
(* emitted or at a later one, which comes, and nothing else is handed over.*)
(***************************************************************************)
CONSTANT Event

VARIABLES
    undelivered,    \* events emitted and not yet handed over
    delivered       \* events handed over

vars == <<undelivered, delivered>>

Init == undelivered = {} /\ delivered = {}

Emit(e) ==
    /\ e \notin undelivered \cup delivered
    /\ undelivered' = undelivered \cup {e}
    /\ UNCHANGED delivered

Deliver(e) ==
    /\ e \in undelivered
    /\ undelivered' = undelivered \ {e}
    /\ delivered' = delivered \cup {e}

Next == \E e \in Event : Emit(e) \/ Deliver(e)

Spec == Init /\ [][Next]_vars /\ \A e \in Event : WF_vars(Deliver(e))
==============================================================================
