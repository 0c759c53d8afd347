SPECIFICATION MCSpec
CONSTANTS
  Signers = {"ours", "theirs"}
  Digests = {"d1", "d2"}
  Sources = {"src", "fork"}
  Projects = {"prod", "test"}
  Hosts = {"tee", "example"}
  Issuers = {"google", "other"}
  MaxRelease = 2
  Policies <- MCPolicies
  Floors <- MCFloors
  Enclaves <- MCEnclaves
  Records <- MCRecords
  Host = "tee"
  Dials = {d1, d2}
  Absent = none
  Certs = {x, y}
  Builds = {1, 2}
  Pulls = {1, 2}
  MaxUpsets = 3
  Nobody = nobody
INVARIANTS
  MeetsBoth
  RecordsHold
  TrustedOnly
PROPERTIES
  ComesOn
CHECK_DEADLOCK FALSE
