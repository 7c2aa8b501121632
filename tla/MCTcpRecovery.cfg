SPECIFICATION Spec
CONSTANTS
  Data = 5
  SendSize = 1
  Sizes = {1, 2}
  DataRetries = 3
  DelAckMax = 2
  Unbounded = 100
  Scenarios <- MCScenarios
INVARIANTS
  TypeOK
  CountersMatch
  SackedIsReceived
  AssertionsHold
  LostFromTheHead
  NeverSilent
  BlockedNotDead
PROPERTIES
  FlowEnds
CHECK_DEADLOCK FALSE
