SPECIFICATION FairSpec
CONSTANTS
  a = a
  b = b
  Ends <- MCEnds
  HotEnds <- MCHot
  Methods = {M1}
  Bodies = {1, 3}
  MaxPacketSize = 10
  AliveTicks = 0
  MaxCalls <- MC20
CHECK_DEADLOCK FALSE
INVARIANTS
  OwnAnswer
  NoBadNum
PROPERTIES
  IsChannel
  Delivered
  CallsEnd
