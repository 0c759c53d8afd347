SPECIFICATION Spec
CONSTANTS
  Sessions = {s1}
  NoSession = NoSession
  LevelTop = 2
  Ranges = {"normal"}
  FoundRange = "normal"
  DefaultSettings <- MCDefaultTop
  Offered <- MCOffered
  Targets = {0, 2, 3}
  Workers = {w1}
  Pickers = {"console"}
  Inputs = {"ack", "hello", "detach", "settings", "command", "status", "release", "gone", "lapse", "expiry", "stop"}
  Faults = TRUE
  MaxUnderWay = 3
VIEW MCView
CONSTRAINT MCUnderWay
INVARIANTS OneRiseAfterLatch NoDriveWithoutWindow StoppedHoldsNothing
PROPERTIES UnitSafe
