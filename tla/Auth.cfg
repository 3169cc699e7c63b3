SPECIFICATION Spec
CONSTANTS
  Requests = {r1, r2, r3}
  Tokens = {t1, t2, t3}
  MaxAttempts = 3
  MaxCalls = 6
  MaxFaults = 1
SYMMETRY Symmetry
INVARIANTS
  TypeOK
  CodeIsCurrent
  CodeIsSpentOnce
  UnverifiedHasCode
  OneTokenPerSession
CHECK_DEADLOCK FALSE
