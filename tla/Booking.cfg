SPECIFICATION Spec
CONSTANTS
  p1 = p1
  b1 = b1
  b2 = b2
  c1 = c1
  Properties = {p1}
  Bookings = {b1, b2}
  Calls = {c1}
  Claims <- MCClaims
  Overrides <- MCOverrides
  BasePrices <- FreeAndPaid
  NoOne = NoOne
  NoPrice = NoPrice
  DayLength = 1
  MaxOverrides = 1
  MaxFaults = 1
INVARIANTS
  TypeOK
  RecheckStaysValid
  LockIsHeldInTransaction
  OverlapNeedsRevival
  PendingHasTimer
PROPERTIES
  ImplementsReservation
