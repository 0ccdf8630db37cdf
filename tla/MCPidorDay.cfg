SPECIFICATION Spec
CONSTANTS
  c1 = c1
  h1 = h1
  h2 = h2
  Channels <- MCChannels
  MaxUser = 3
  Handlers <- MCHandlers
  MaxDay = 2
  MaxImports = 1
  File <- MCFile
  NameOn <- MCNameOn
  StatsLen = 2
INVARIANTS TypeOK OneWinner Recoverable StatsTrue
