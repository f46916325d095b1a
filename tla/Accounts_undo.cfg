SPECIFICATION Spec
CONSTANTS
  a = a
  b = b
  Key <- MCKey
  NoKey = NoKey
  Cents = 3
  Tx <- MCTx
  GenesisRows <- MCGenesisRows
  GenesisSmarts <- MCGenesisSmarts
  FirstOwned = 1
  Developer = 1
  Share = 2
  Reward <- MCReward
  Price = 1
  TokenPrice = 2
  StartValue = 2
  StartHistory = 1
  MaxAhead = 2
  Sink = 2
  Miners = {0, 2}
  MaxNum = 2
  MaxTx = 2
  MaxUndo = 1
INVARIANTS
  HashAgrees
CHECK_DEADLOCK FALSE
