SPECIFICATION Spec
CONSTANTS
  NoTag = NoTag
  ack = ack
  a0 = a0
  b1 = b1
  c1 = c1
  d2 = d2
  e2 = e2
  f7 = f7
  Packet <- MCPacket
  Tag <- MCTag
  NQueues = 3
INVARIANTS
  EveryWeightCounts
CHECK_DEADLOCK FALSE
