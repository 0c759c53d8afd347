SPECIFICATION Spec
CONSTANTS
  Sessions = {s1, s2}
  Origins = {o1, o2}
  Views = {"body", "face"}
  Inputs = {"clear", "switch", "source", "describe", "shutdown"}
  Runs = {r1, r2}
  None = None
  Streams = {x1, x2}
  MaxDials = 2
  MaxGraces = 2
  MaxOffers = 2
  MaxSwitches = 2
SYMMETRY MCSymmetry
VIEW MCView
CONSTRAINT MCScope
CHECK_DEADLOCK FALSE
INVARIANTS OneTunnel CaptureAccounted SwitchedOffIsOff WaitingIsWoken
PROPERTIES FullGrace EndedRunGoesDark
