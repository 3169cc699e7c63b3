--------------------------- MODULE MCAccommodation ---------------------------
(***************************************************************************)
(* An instance of Accommodation for TLC: stays and overrides begin and end *)
(* at six instants, two of which make a day.                               *)
(***************************************************************************)
EXTENDS Accommodation, TLC

CONSTANT Instants

Symmetry == Permutations(Requests)

OneProperty == [b \in Bookings |-> CHOOSE p \in Properties : TRUE]

Row(status, s, e, price) == [status |-> status, start |-> s, end |-> e, price |-> price]

\* Ranges at a price or free, some that block or have no price, one that ends before it starts.
MCOverrides ==
    {Row("PRICE_OVERRIDE", s, e, price) : s \in {0, 1, 4}, e \in {3, 5}, price \in {0, 3}}
    \cup {Row("PRICE_OVERRIDE", 1, 1, 3), Row("PRICE_OVERRIDE", 0, 1, 3),
          Row("PRICE_OVERRIDE", 2, 4, NoPrice), Row("BLOCKED", 1, 3, NoPrice),
          Row("BLOCKED", 3, 1, NoPrice)}

GuestStays == {s \in [start : Instants, end : Instants] : s.start < s.end}
=============================================================================
