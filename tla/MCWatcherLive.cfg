SPECIFICATION ApiFairSpec
CONSTANTS
  p1 = p1
  p2 = p2
  Players <- MCPlayers
  Accounts <- MCPlayers
  Names <- MCPlayers
  AccountOf <- MCOneToOne
  NameOf <- MCOneToOne
  MaxConsecutiveFailures = 1
  MaxSyncAttempts = 1
  MaxMatch = 1
PROPERTIES RoundTerminates LatestAnnounced
CHECK_DEADLOCK FALSE
