SPECIFICATION FairSpec
CONSTANTS
  Runs = {1, 2}
  None = None
  MaxStarts = 3
  MaxSays = 2
  MaxSteps = 4
INVARIANTS
  PageCatchesUp
PROPERTIES
  EndsWithWindow
  EndIsShown
CHECK_DEADLOCK FALSE
