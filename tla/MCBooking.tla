------------------------------ MODULE MCBooking ------------------------------
(***************************************************************************)
(* Instances of Booking for TLC: one property, because claims on different *)
(* properties never meet, and stays that overlap, that only touch, and one *)
(* whose end is before its start.                                          *)
(***************************************************************************)
EXTENDS Booking

Stay(p, s, e) == [propertyId |-> p, start |-> s, end |-> e]

OnlyProperty == CHOOSE p \in Properties : TRUE

MCClaims ==
    {Stay(OnlyProperty, 0, 2), Stay(OnlyProperty, 1, 3),
     Stay(OnlyProperty, 2, 3), Stay(OnlyProperty, 2, 1)}
OverlappingClaims == {Stay(OnlyProperty, 0, 2), Stay(OnlyProperty, 1, 3)}

MCOverrides ==
    {[status |-> "BLOCKED", start |-> 1, end |-> 2, price |-> NoPrice],
     [status |-> "PRICE_OVERRIDE", start |-> 0, end |-> 2, price |-> 0]}
NoOverrides == {}

FreeAndPaid == {0, 10}
Paid == {10}
=============================================================================
