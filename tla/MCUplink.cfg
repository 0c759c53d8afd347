SPECIFICATION FairSpec
CONSTANTS
  Sessions = {s1}
  None = None
  Nothing = Nothing
  Asks <- MCAsks
  MaxAsks = 2
  MaxStarts = 2
  MaxFaults = 1
  MaxOutbox = 2
  MaxEvents = 4
  MaxMixed = 3
INVARIANTS
  OutboxKept
  FileNamesCameras
PROPERTIES
  Unblocked
  ServiceLearns
  PendingTaken
CHECK_DEADLOCK FALSE
