SPECIFICATION FairSpec
CONSTANTS
  Block <- MCBlock
  Num <- MCNum
  Prev <- MCPrev
  Anc <- MCAnc
  GenesisCount = 2
  MaxNum = 6
  Hole = Hole
  HotDelta = 1
  Batch = 2
  Depth = 3
  CheckRun = 1
  CheckBack = 3
  CheckAgain = 1
  Rewind = 2
  Newest = 1
  LogRows <- MCLogRows
  CheckRows = 2
  MaxCrash = 1
  MaxEarly = 1
INVARIANTS
  MainLinked
  CallNeverFails
  ReaderLinked
  ReaderNoHole
PROPERTIES
  TxFollows
