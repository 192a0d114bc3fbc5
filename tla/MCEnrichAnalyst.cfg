SPECIFICATION Spec
CONSTANTS
  otx = otx
  abuse = abuse
  vt = vt
  OneToken = TRUE
  Indicators = {i1}
  Providers = {otx, vt}
  Rank <- MCRank
  Otx = otx
  VirusTotal = vt
  Supports <- MCSupports
  Daily <- MCDaily
  Limit <- MCLimit
  Forces = {TRUE, FALSE}
  Slots = {w1}
  Lookups = {u1}
  Scores = {0, 90}
  HandValues = {30}
  Default = 50
  MaxEnqueues = 1
  MaxEdits = 2
  MaxErrors = 1
  MaxRefusals = 1
  MaxCrashes = 0
  MaxExpiries = 1
  MaxLookups = 1
INVARIANTS WhitelistLeakBounded
CHECK_DEADLOCK FALSE
