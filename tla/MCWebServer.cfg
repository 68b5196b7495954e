CONSTANTS
  Nil = Nil
  Threads = {t1, t2}
  Batches <- MCBatches
  Roles <- MCRoles
  Numbers = {"number"}
  ENROLL_LIMIT = 2
  ENROLL_WINDOW_SECONDS = 2
  MaxTime = 3
SPECIFICATION FairSpec
CHECK_DEADLOCK FALSE
INVARIANTS WebTypeOK AttemptsBounded LimitExactAlone ErrorsHaveCause AuditReplays
PROPERTY EveryRequestAnswered
