SPECIFICATION Spec
CONSTANTS
  N = 2
  SynRetries = 3
  DataRetries = 3
  DelAckMax = 2
  Capacity = 3
  Scenarios <- MCScenarios
CHECK_DEADLOCK FALSE
INVARIANTS
  TypeOK
  FinishedMeansDelivered
  DeliveredOnce
  OnlyFinWait2Hangs
  ResetOnlyAfterGivingUp
PROPERTIES
  DeliveredOrGivenUp
  DeliveredInTheEnd
