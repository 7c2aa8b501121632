SPECIFICATION Spec
CONSTANTS
  NoTag = NoTag
  None = None
  a = a
  b = b
  ack = ack
  m1 = m1
  l1 = l1
  l2 = l2
  r1 = r1
  Dev <- MCDev
  Packet <- MCPacket
  From <- MCFrom
  Tag <- MCTag
  NQueues = 3
  LossRate <- LossAtA
  Draws = {0, 1}
  ErrorModel = {b}
INVARIANTS
  TypeOK
  NoLostWakeup
PROPERTIES
  AckNotOvertaken
  EventuallyOut
  ImplementsLink
CHECK_DEADLOCK FALSE
