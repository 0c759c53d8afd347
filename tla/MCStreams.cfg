SPECIFICATION MCSpec
CONSTANTS
  MaxRuns = 2
  MaxProcs = 3
  MaxReshapes = 2
  Rungs = 1
  Breaks = FALSE
  MaxServers = 2
  MaxVisits = 2
  Ports = {1, 2}
INVARIANTS
  ReachedRate
  OffMeansOff
PROPERTIES
  PublisherKept
CHECK_DEADLOCK FALSE
