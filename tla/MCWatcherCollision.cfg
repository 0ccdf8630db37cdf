SPECIFICATION Spec
CONSTANTS
  p1 = p1
  p2 = p2
  Players <- MCPlayers
  Accounts <- MCPlayers
  Names <- MCPlayers
  AccountOf <- MCOneToOne
  NameOf <- MCSameName
  MaxConsecutiveFailures = 2
  MaxSyncAttempts = 2
  MaxMatch = 2
INVARIANT AtMostOnce
CHECK_DEADLOCK FALSE
