SPECIFICATION Spec
CONSTANTS
  p1 = p1
  r1 = r1
  r2 = r2
  r3 = r3
  b1 = b1
  Properties = {p1}
  Requests = {r1, r2, r3}
  Bookings = {b1}
  PropertyOf <- OneProperty
  Overrides <- MCOverrides
  BasePrices = {7, 9}
  NoOne = NoOne
  NoPrice = NoPrice
  DayLength = 2
  Stays <- GuestStays
  Instants = {0, 1, 2, 3, 4, 5}
  MaxOverrides = 2
  MaxFaults = 1
SYMMETRY Symmetry
INVARIANTS
  TypeOK
  OverlapNeedsRace
  ModerationIsRecorded
  TotalIsSumOverOverrides
