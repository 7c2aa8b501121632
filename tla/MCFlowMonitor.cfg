CONSTANTS
  data = data
  acks = acks
  DataFlows <- MCDataFlows
  SinkFlow <- MCSinkFlow
  MaxPackets <- MCMaxPackets
  MaxDelay = 2
  Period = 2
  EndTime = 5
  MaxHops = 1
SPECIFICATION Spec
INVARIANTS
  TypeOK
  Conserved
  NeverBoth
  LossesFoundInTime
  DelaysWithinCompletion
CHECK_DEADLOCK FALSE
