SPECIFICATION FairSpec
CONSTANTS
  Sessions = {s1}
  NoSession = NoSession
  LevelTop = 1
  Ranges = {"normal"}
  FoundRange = "normal"
  DefaultSettings <- MCDefault
  Offered = {}
  Targets = {1}
  Workers = {}
  Pickers = {}
  Inputs = {"ack", "command", "release", "lapse"}
  Faults = FALSE
  MaxUnderWay = 8
VIEW MCView
PROPERTIES QuietServiceReleases ReleaseReachesUnit
