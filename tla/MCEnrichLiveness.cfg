SPECIFICATION FairSpec
CONSTANTS
  otx = otx
  abuse = abuse
  vt = vt
  OneToken = TRUE
  Indicators = {i1, i2}
  Providers = {otx, abuse}
  Rank <- MCRank
  Otx = otx
  VirusTotal = vt
  Supports <- MCSupports
  Daily <- MCDaily
  Limit <- MCLimit
  Forces = {FALSE}
  Slots = {w1, w2}
  Lookups = {}
  Scores = {90}
  HandValues = {30}
  Default = 50
  MaxEnqueues = 2
  MaxEdits = 0
  MaxErrors = 0
  MaxRefusals = 0
  MaxCrashes = 1
  MaxExpiries = 0
  MaxLookups = 0
PROPERTIES JobsEnd
CHECK_DEADLOCK FALSE
