SPECIFICATION Spec
CONSTANTS
  otx = otx
  abuse = abuse
  vt = vt
  OneToken = TRUE
  Indicators = {i1}
  Providers = {otx, abuse}
  Rank <- MCRank
  Otx = otx
  VirusTotal = vt
  Supports <- MCSupports
  Daily <- MCDaily
  Limit <- MCLimit
  Forces = {FALSE}
  Slots = {w1}
  Lookups = {}
  Scores = {0, 90}
  HandValues = {30}
  Default = 50
  MaxEnqueues = 1
  MaxEdits = 1
  MaxErrors = 0
  MaxRefusals = 0
  MaxCrashes = 0
  MaxExpiries = 0
  MaxLookups = 0
PROPERTIES LockIsRespected
CHECK_DEADLOCK FALSE
