------------------------------ MODULE BoxOffice ------------------------------
(***************************************************************************)
(* What the registration for events promises, in terms of the places of    *)
(* each event alone: a place is sold only when there is one, one at a      *)
(* time, and nothing but a sale or the end of the event changes what was   *)
(* sold.  The count of the places left may be set anew at any time: that   *)
(* is what an import does.                                                 *)
(***************************************************************************)
EXTENDS Integers

CONSTANTS Events, Capacities

VARIABLES
    left,  \* places of each event that are on sale
    sold   \* places of each event that are sold

vars == <<left, sold>>

Init ==
    /\ left = [e \in Events |-> 0]
    /\ sold = [e \in Events |-> 0]

Sell(e) ==
    /\ left[e] > 0
    /\ left' = [left EXCEPT ![e] = @ - 1]
    /\ sold' = [sold EXCEPT ![e] = @ + 1]

\* The event opens, or is offered again with all its places.
Offer(e, capacity) ==
    /\ left' = [left EXCEPT ![e] = capacity]
    /\ UNCHANGED sold

\* The event is gone, with what was sold for it.
Close(e) ==
    /\ left' = [left EXCEPT ![e] = 0]
    /\ sold' = [sold EXCEPT ![e] = 0]

Next ==
    \E e \in Events :
        \/ Sell(e)
        \/ \E capacity \in Capacities : Offer(e, capacity)
        \/ Close(e)

Spec == Init /\ [][Next]_vars
=============================================================================
