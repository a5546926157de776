CONSTANTS
  h1 = h1
  h2 = h2
  h3 = h3
  Host = {h1, h2, h3}
  NoHost = NoHost
  Want = 3
  HardProcs = 100
  HardFiles = 14
  ForkLimit = 3
  MaxChunks = 2
  PipeSize = 2
  ReadSize = 1
SPECIFICATION FairSpec
CHECK_DEADLOCK FALSE
INVARIANTS CountMatches WithinLimit OutputInOrder
PROPERTY Terminates
