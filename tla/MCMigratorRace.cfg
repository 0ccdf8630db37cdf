SPECIFICATION Spec
CONSTANTS
  r1 = r1
  r2 = r2
  Runners <- MCRunners
  MaxVersion = 2
  Known <- MCSame
  None = None
INVARIANT Linear
