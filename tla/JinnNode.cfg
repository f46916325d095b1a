SPECIFICATION FairSpec
CONSTANTS
  Block <- MCBlock
  Num <- MCNum
  Prev <- MCPrev
  Anc <- MCAnc
  GenesisCount = 2
  MaxNum = 4
  Power <- MCPower
  SumPow <- MCSumPow
  Rank <- MCRank
  Miner <- MCMiner
  MaxLeader = 2
  Tree <- MCTree
  T = T
  NoTree = NoTree
  None = None
  Own <- MCOwn
  Mined <- MCMined
  Setups <- MCSetups
  TreesAt <- MCTreesAt
  StepNew = 2
  StepSave = 3
  StepLast = 4
  Depth = 2
  CheckNums = 2
  ClearMem = 4
  StartCur <- MCStart
  MaxCur = 6
  MaxUpset = 1
INVARIANTS
  MainHasBodies
  AskedInOrder
PROPERTIES
  MainNotAhead
  MainMoves
  MainGrows
