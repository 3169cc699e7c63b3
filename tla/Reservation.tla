----------------------------- MODULE Reservation -----------------------------
(***************************************************************************)
(* What the reservation engine promises, without requests, locks, jobs or  *)
(* crashes: a claim on a property for some dates is granted in one step,   *)
(* and only while no live booking clashes with it.  A booking that was     *)
(* released may come back to life (Revive), which the service does not     *)
(* intend and its code does not exclude; the variable revived remembers    *)
(* for which bookings that happened, and they are no obstacle to a grant,  *)
(* since one may come back while the grant is under way.                   *)
(***************************************************************************)
EXTENDS Integers

CONSTANTS Bookings, Claims

VARIABLES claim,    \* what each booking asks for: property and dates
          status,   \* of each booking
          revived   \* bookings that were confirmed after their release

vars == <<claim, status, revived>>

Statuses == {"NONE", "PENDING_PAYMENT", "CONFIRMED", "CANCELLED"}
Live     == {"PENDING_PAYMENT", "CONFIRMED"}

Clash(a, b) ==
    /\ a.propertyId = b.propertyId
    /\ a.start < b.end
    /\ b.start < a.end

Init ==
    /\ claim \in [Bookings -> Claims]
    /\ status = [b \in Bookings |-> "NONE"]
    /\ revived = {}

NoObstacle(b) ==
    \A o \in Bookings :
        (status[o] \in Live /\ o \notin revived) => ~Clash(claim[o], claim[b])

Reserve(b) ==
    /\ status[b] = "NONE"
    /\ NoObstacle(b)
    /\ status' = [status EXCEPT ![b] = "PENDING_PAYMENT"]
    /\ UNCHANGED <<claim, revived>>

Confirm(b) ==
    /\ status[b] = "PENDING_PAYMENT"
    /\ status' = [status EXCEPT ![b] = "CONFIRMED"]
    /\ UNCHANGED <<claim, revived>>

Release(b) ==
    /\ status[b] \in Live
    /\ status' = [status EXCEPT ![b] = "CANCELLED"]
    /\ UNCHANGED <<claim, revived>>

Revive(b) ==
    /\ status[b] = "CANCELLED"
    /\ status' = [status EXCEPT ![b] = "CONFIRMED"]
    /\ revived' = revived \cup {b}
    /\ UNCHANGED claim

Next == \E b \in Bookings : Reserve(b) \/ Confirm(b) \/ Release(b) \/ Revive(b)

Spec == Init /\ [][Next]_vars

TypeOK ==
    /\ claim \in [Bookings -> Claims]
    /\ status \in [Bookings -> Statuses]
    /\ revived \subseteq Bookings

(***************************************************************************)
(* Two live bookings clash only if one of them was revived: granting       *)
(* claims is free of double booking, whatever the order of the steps.      *)
(***************************************************************************)
ClashNeedsRevival ==
    \A a, b \in Bookings :
        (a # b /\ status[a] \in Live /\ status[b] \in Live /\ Clash(claim[a], claim[b]))
            => (a \in revived \/ b \in revived)
=============================================================================
