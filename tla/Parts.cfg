SPECIFICATION PartsSpec
CONSTANTS
  Block <- TreeBlock
  Num <- TreeNum
  Prev <- TreePrev
  Anc <- TreeAnc
  GenesisCount = 2
  MaxNum = 5
  Power <- TreePower
  SumPow <- TreePower
  Rank <- TreeRank
  Miner <- TreeMiner
  MaxLeader = 3
  LiderNum = 5
  Seed <- Seeds
  Bodyless <- Empties
  Base = 2
  HotDelta = 1
  NoJump = NoJump
  Position = {1, 2}
  Hole = 0
  MaxCacheSize = 2
  MaxRowNum = 3
  MaxBlockNum = 3
  MaxRows = 4
  Clock <- Clocks
  MaxLag = 1
  CORRECT_TIME_TRIGGER = 8
  CORRECT_TIME_VALUE = 7
  INFLATION_TIME_VALUE = 2
  Absurd = 60
  Lesser = Lesser
  Greater = Greater
  Conn = {1, 2, 3}
  MaxBreaks = 1
  RestScale = 2
  RestBase = 2
  RestLength = 10
  CountState = 5
  MaxRest = 12
INVARIANTS
  FindsFirst
  HeadIsBest
  HeadNotAbove
  EmptyAgrees
  Settled
  RestFound
PROPERTIES
  IsRowFile
  Converges
  KeepsOne
CHECK_DEADLOCK FALSE
