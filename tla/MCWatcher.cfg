SPECIFICATION Spec
CONSTANTS
  p1 = p1
  p2 = p2
  Players <- MCPlayers
  Accounts <- MCPlayers
  Names <- MCPlayers
  AccountOf <- MCOneToOne
  NameOf <- MCOneToOne
  MaxConsecutiveFailures = 2
  MaxSyncAttempts = 2
  MaxMatch = 2
SYMMETRY MCSymmetry
INVARIANTS TypeOK AtMostOnce StoreImpliesSent NoSendAfterClose ErrorOncePerOutage
PROPERTY AnnouncedInOrder
CHECK_DEADLOCK FALSE
