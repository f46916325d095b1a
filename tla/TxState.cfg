SPECIFICATION FairSpec
CONSTANTS
  Block <- MCBlock
  Num <- MCNum
  Prev <- MCPrev
  Anc <- MCAnc
  GenesisCount = 2
  MaxNum = 5
  Changes <- MCChanges
  NewCount <- MCNewCount
  Smart <- MCSmart
  Period = 2
  Rollback = 1
  CheckRows = 3
  CheckLag = 1
  LogSizes = {3, 50}
  WholeLog = 50
  MaxUpset = 2
  Zero = Zero
INVARIANTS
  StateIsReplay
  HashesOfChain
  NeverStuck
PROPERTIES
  TxCatchesUp
