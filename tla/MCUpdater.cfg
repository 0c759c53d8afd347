SPECIFICATION UpdaterFairSpec
CONSTANTS
  Files = {exe, helper}
  Bundle = FALSE
  MaxTag = 3
  MaxFaults = 3
  MaxDays = 3
  Inputs = {"fault", "crash", "command", "unsaved"}
PROPERTIES
  ComesBack
  NewestInstalled
CHECK_DEADLOCK FALSE
