SPECIFICATION FairSpec
CONSTANTS
  u1 = u1
  reader = reader
  Others = {reader, window}
  Procs = {1, 2}
  Units = {u1, u2}
  MaxSteps = 4
  MaxMishaps = 1
  None = None
ACTION_CONSTRAINT Selections
INVARIANTS
  AnswerIsOwn
  NothingLeftOpen
  SelectionServed
PROPERTIES
  EveryCallEnds
CHECK_DEADLOCK FALSE
