SPECIFICATION FairSpec
CONSTANTS
  Keys = {k1, k2}
  Targets = {t1}
  Own = own
  Conns = {c1, c2}
  Relays = {r1}
  None = none
  MaxExpect = 2
  MaxDrops = 1
INVARIANTS
  OneConnector
PROPERTIES
  TargetSurvives
  Attaches
CHECK_DEADLOCK FALSE
