CONSTANTS
  Nil = Nil
  Subjects <- MCSubjects
  CertRole <- MCCertRole
  TicksPerSecond = 2
  AuditWindow = 2
  Calls <- MCCalls
  TxIds = {t1, t2, t3, t4}
  Revoked = {}
  StartTime = 4
  MaxTime = 7
  MaxInFlight = 2
SYMMETRY TxSymmetry
SPECIFICATION Spec
CHECK_DEADLOCK FALSE
INVARIANTS GrantsJustified NonceUsedOnce NonceIndexExact
