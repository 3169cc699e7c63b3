SPECIFICATION FairPaySpec
CONSTANTS
  p1 = p1
  b1 = b1
  t1 = t1
  c1 = c1
  c2 = c2
  Properties = {p1}
  Bookings = {b1}
  Transactions = {t1}
  Calls = {c1, c2}
  Claims <- MCClaims
  Overrides <- NoOverrides
  BasePrices <- TwoPrices
  NoOne = NoOne
  NoPrice = NoPrice
  DayLength = 1
  MaxOverrides = 0
  MaxFaults = 1
INVARIANTS
  PayTypeOK
  ConfirmedMeansPaidInFull
  AnnouncedUnlessExpired
PROPERTIES
  ImplementsBooking
  PaymentSettles
