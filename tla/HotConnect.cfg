SPECIFICATION HotFairSpec
CONSTANTS
  a = a
  b = b
  c = c
  None = None
  Node <- MCNode
  Link <- MCLink
  MAX_LEVEL_CONNECTION = 2
  EXTRA_SLOTS_COUNT = 1
  NaturalOf <- MCSplit
  Setups <- MCSetups
  Asker <- MCLeaves
  Score <- MCScore
  MaxOut = 1
  MaxOpen = 1
CHECK_DEADLOCK FALSE
PROPERTIES
  MutualHot
  NormalFreed
INVARIANTS
  NormalSlots
