SPECIFICATION Spec
CONSTANTS
  MaxStreams = 2
  MaxData <- MCData
  MaxInbound = 1
  AcceptBacklog = 1
  MaxWire = 1
  Inputs = {"cancel", "refuse", "local", "timeout", "close", "lose"}
VIEW MCView
CONSTRAINT MCScope
CHECK_DEADLOCK FALSE
INVARIANTS ReaderWoken NoneLeft
PROPERTIES Pipes
