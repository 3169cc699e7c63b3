------------------------------ MODULE MCPayments ------------------------------
(* Instances of Payments for TLC. *)
EXTENDS Payments

OnlyProperty == CHOOSE p \in Properties : TRUE

MCClaims == {[propertyId |-> OnlyProperty, start |-> 0, end |-> 2]}
NoOverrides == {}
TwoPrices == {10, 20}
=============================================================================
