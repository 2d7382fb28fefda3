SPECIFICATION FairSpec
CONSTANTS
  MaxQueue = 2
INVARIANTS RegisteredIsAcked GoneWhenStopped
PROPERTIES StopEnds DeviceRegisters CallIsMade
CHECK_DEADLOCK FALSE
