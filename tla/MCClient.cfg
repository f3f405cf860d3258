SPECIFICATION FairSpec
CONSTANTS
  Callers = {c1, c2}
  Lifetime = 3
  Timeout = 1
  MaxTime = 6
  MaxBadAnswers = 1
INVARIANTS
  TypeOK
  RejectedOnlyIfSlow
PROPERTIES
  NoNeedlessLogin
  ServedUnlessUnreadable
CHECK_DEADLOCK FALSE
