SPECIFICATION Spec
CONSTANTS
  t1 = t1
  t2 = t2
  Callers <- MCTwo
  MaxEpoch = 2
INVARIANT MutexIntact
CHECK_DEADLOCK FALSE
