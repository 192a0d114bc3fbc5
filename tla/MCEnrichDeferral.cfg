SPECIFICATION Spec
CONSTANTS
  otx = otx
  abuse = abuse
  vt = vt
  OneToken = TRUE
  Indicators = {i1}
  Providers = {otx, abuse}
  Rank <- MCRank
  Otx = otx
  VirusTotal = vt
  Supports <- MCSupports
  Daily <- MCDaily
  Limit <- MCLimit
  Forces = {TRUE, FALSE}
  Slots = {w1}
  Lookups = {}
  Scores = {0, 90}
  HandValues = {30}
  Default = 50
  MaxEnqueues = 1
  MaxEdits = 0
  MaxErrors = 1
  MaxRefusals = 1
  MaxCrashes = 0
  MaxExpiries = 0
  MaxLookups = 0
INVARIANTS NoBuriedDetection
CHECK_DEADLOCK FALSE
