SPECIFICATION FairSpec
CONSTANTS
  a = a
  b = b
  c = c
  t1 = t1
  t2 = t2
  None = None
  Node = {a, b, c}
  Tx = {t1, t2}
  Order <- MCOrder
  Setups <- MCSetups
  MaxTT = 1
  MaxTX = 1
CHECK_DEADLOCK FALSE
INVARIANTS
  ArrOnce
  SentIsKnown
PROPERTIES
  Spreads
