SPECIFICATION Spec
CONSTANTS
  Servers = 2
  Dests = {1, 2}
  PortStart = 4
  PortEnd = 6
  PortBits = 3
  SimStart = 0
  LaunchEnd = 2
  SimEnd = 3
  StopTimes = {3, 4}
  Delay = 1
CHECK_DEADLOCK FALSE
INVARIANTS
  TypeOK
  PortsDistinct
  NoSynRefused
  StoppedByAge
