SPECIFICATION FairSpec
CONSTANTS
  c1 = c1
  c2 = c2
  h1 = h1
  h2 = h2
  m1 = m1
  e1 = e1
  Channels <- MCChannels
  Home = c1
  MaxTrackers = 2
  Handlers <- MCHandlers
  Matches <- MCMatches
  Signals <- MCSignals
  None = None
INVARIANTS TypeOK EntriesOpen EntriesOwn PostedOnce
PROPERTIES MutexReleased AllGoroutinesExit
CHECK_DEADLOCK FALSE
