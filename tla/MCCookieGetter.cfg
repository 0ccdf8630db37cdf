SPECIFICATION RecoverySpec
CONSTANTS
  t1 = t1
  t2 = t2
  Callers <- MCTwo
  MaxEpoch = 2
INVARIANTS TypeOK OneSolver RetryPossible
PROPERTIES CallsReturn Recovers
CHECK_DEADLOCK FALSE
