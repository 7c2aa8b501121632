SPECIFICATION Spec
CONSTANTS
  Data = 5
  SendSize = 1
  Sizes = {1, 2}
  DataRetries = 3
  DelAckMax = 2
  Unbounded = 100
  Scenarios <- MCReordering
INVARIANTS
  MergesAgree
CHECK_DEADLOCK FALSE
