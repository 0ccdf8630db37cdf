SPECIFICATION FairSpec
CONSTANTS
  h1 = h1
  h2 = h2
  k1 = k1
  k2 = k2
  x = x
  Missing = Missing
  Bad = Bad
  DefaultSearch = 2
  DefaultAsk = 3
  Listings <- MCListings
  Handlers <- MCHandlers
  Askers <- MCAskers
  Rules <- MCRules
  Texts <- MCTexts
  MinJitter = 0
  MaxJitter = 1
  IntMax = 3
  MaxTime = 2
INVARIANTS TypeOK ConfigSound SearchLeavesTime
PROPERTIES RepliesSpaced Propagates RepliesAgain
