SPECIFICATION Spec
CONSTANTS
  t1 = t1
  t2 = t2
  Callers <- MCOne
  MaxEpoch = 2
INVARIANT RefusedIsReset
CHECK_DEADLOCK FALSE
