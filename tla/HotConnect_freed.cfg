SPECIFICATION HotSpec
CONSTANTS
  a = a
  b = b
  c = c
  None = None
  Node <- MCNode
  Link <- MCLink
  MAX_LEVEL_CONNECTION = 1
  EXTRA_SLOTS_COUNT = 1
  NaturalOf <- MCSame
  Setups <- MCLearner
  Asker <- MCLeaves
  Score <- MCScore
  MaxOut = 1
  MaxOpen = 0
CHECK_DEADLOCK FALSE
PROPERTIES
  CheckFreesSlots
