SPECIFICATION FairSpec
CONSTANTS
  m1 = m1
  m2 = m2
  other = other
  customer = customer
  host = host
  stranger = stranger
  Messages <- Two
  Elsewhere = {other}
  Users = {customer, host, stranger}
  Members = {customer, host}
  SenderOf <- OneWriter
  Watchers = {customer}
  Rank <- InOrder
  NoMessage = NoMessage
  MaxRequests = 1
  MaxMarks = 1
  MaxFaults = 1
INVARIANTS
  TypeOK
  LossNeedsFault
  RowsTellReads
  NothingIsMissed
PROPERTIES
  QueuedMessagesSettle
CHECK_DEADLOCK FALSE
