SPECIFICATION Spec
CONSTANTS
  n1 = n1
  n2 = n2
  k1 = k1
  Notices = {n1, n2}
  Makers = {k1}
  Customer = Customer
  Host = Host
  NoNotice = NoNotice
  Preferences <- HostDigests
  Suspendable <- OnlyHost
  Writers <- OnlyCustomer
  Attendees <- OnlyCustomer
  MaxAttempts = 2
  MaxFaults = 2
INVARIANTS
  TypeOK
  ExtraMailsNeedFaults
  RowTellsOutcome
  NoNoticeIsForgotten
