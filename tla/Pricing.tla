------------------------------- MODULE Pricing -------------------------------
(***************************************************************************)
(* Dates, availability overrides and prices, as BookingService computes    *)
(* them.  Time is counted in units of which DayLength make a day, so that  *)
(* a stay may start at noon while an override starts at midnight.          *)
(***************************************************************************)
EXTENDS Integers, Sequences

CONSTANTS DayLength,   \* units of time in msPerDay
          NoPrice      \* overridePrice IS NULL

ASSUME DayLengthAssumption == DayLength \in Nat \ {0}

(***************************************************************************)
(* startDate < end AND endDate > start: the half-open overlap of create,   *)
(* used on override rows and on booking rows alike.                        *)
(***************************************************************************)
Overlaps(a, b) == a.start < b.end /\ b.start < a.end

\* startDate <= end AND endDate >= start: the closed overlap of setAvailability.
Touches(a, b) == a.start <= b.end /\ b.start <= a.end

Blocked(overrides, stay) ==
    \E i \in DOMAIN overrides :
        overrides[i].status = "BLOCKED" /\ Overlaps(overrides[i], stay)

\* Math.ceil of the length of the stay in days.
Nights(stay) == (stay.end - stay.start + DayLength - 1) \div DayLength

\* The overrides that price the night which begins at instant date.
Covering(overrides, date) ==
    {i \in DOMAIN overrides :
        /\ overrides[i].status = "PRICE_OVERRIDE"
        /\ overrides[i].start <= date
        /\ date < overrides[i].end}

\* Mutant: a free night counts as a night without a price.
NightPriceOrBase(basePrice, overrides, date) ==
    LET hits  == Covering(overrides, date)
        first == CHOOSE i \in hits : \A j \in hits : i <= j
    IN  IF hits # {} /\ overrides[first].price \notin {NoPrice, 0}
        THEN overrides[first].price
        ELSE basePrice

\* overrides.find(...), falling back on the base price when the price is null.
NightPrice(basePrice, overrides, date) ==
    LET hits  == Covering(overrides, date)
        first == CHOOSE i \in hits : \A j \in hits : i <= j
    IN  IF hits # {} /\ overrides[first].price # NoPrice
        THEN overrides[first].price
        ELSE basePrice

\* calculateTotalPrice: total[i] is the price of the first i nights.
CalculateTotalPrice(basePrice, overrides, stay) ==
    LET total[i \in 0 .. Nights(stay)] ==
            IF i = 0
            THEN 0
            ELSE total[i - 1]
                 + NightPrice(basePrice, overrides, stay.start + (i - 1) * DayLength)
    IN  total[Nights(stay)]
=============================================================================
