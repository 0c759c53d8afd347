SPECIFICATION GateSpec
CONSTANTS
  MaxGens = 2
  MaxFrames = 3
  HoldPackets = 2
INVARIANTS
  Watchable
CHECK_DEADLOCK FALSE
