SPECIFICATION Spec
CONSTANTS
  FlowSizes = {0, 4, 7}
  SendSize = 2
  BufferSize = 4
  Window = 3
  DataRetries = 2
  Small = 3
  Large = 6
  IntBits = 4
  Sizes = {2, 3}
  Horizon = 6
INVARIANTS
  TypeOK
  NoTruncation
  OwnCloseHappens
  PriorityImproves
PROPERTIES
  FlowEnds
