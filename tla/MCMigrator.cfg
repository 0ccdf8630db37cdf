SPECIFICATION FairSpec
CONSTANTS
  r1 = r1
  r2 = r2
  Runners <- MCRunners
  MaxVersion = 3
  Known <- MCTwoKinds
  None = None
INVARIANTS TypeOK RecordedIsApplied LinearUnlessRaced
PROPERTIES ExitTellsTruth LockReleased
