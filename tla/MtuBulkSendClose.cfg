SPECIFICATION Spec
CONSTANTS
  FlowSizes = {6}
  SendSize = 2
  BufferSize = 4
  Window = 3
  DataRetries = 1
  Small = 3
  Large = 6
  IntBits = 4
  Sizes = {2, 3}
  Horizon = 1
INVARIANTS
  CloseHappens
