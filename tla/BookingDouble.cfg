SPECIFICATION Spec
CONSTANTS
  p1 = p1
  b1 = b1
  b2 = b2
  c1 = c1
  Properties = {p1}
  Bookings = {b1, b2}
  Calls = {c1}
  Claims <- OverlappingClaims
  Overrides <- NoOverrides
  BasePrices <- Paid
  NoOne = NoOne
  NoPrice = NoPrice
  DayLength = 1
  MaxOverrides = 0
  MaxFaults = 0
INVARIANT
  NoDoubleBooking
