SPECIFICATION FairSpec
CONSTANTS
  p1 = p1
  c1 = c1
  Players <- MCPlayers
  Accounts <- MCPlayers
  Names <- MCPlayers
  AccountOf <- MCOneToOne
  NameOf <- MCOneToOne
  MaxConsecutiveFailures = 1
  MaxSyncAttempts = 1
  MaxMatch = 2
  Channels <- MCChannels
  Home = c1
  MaxTrackers = 1
  Handlers = {}
  None = None
INVARIANTS JoinedExit OnlineWhileWatching
PROPERTIES KeepsPromise FeedsTracks WedgedForGood LatestFanned ExitsUnlessWedged
CHECK_DEADLOCK FALSE
