SPECIFICATION Spec
CONSTANTS
  kev1 = kev1
  nvd1 = nvd1
  nvd2 = nvd2
  epss1 = epss1
  rss1 = rss1
  rss2 = rss2
  manual1 = manual1
  Cves = {c1}
  Articles = {a1, a2}
  Jobs = {kev1, nvd1, epss1, rss1, rss2, manual1}
  Sources <- MCSources
  SourceOf <- MCSourceOf
  Handler <- MCHandler
  Batches <- MCPass
  Slots = {w1, w2}
  MaxErrors = 1
  MaxCrashes = 1
INVARIANTS TypeOK NothingErased CountedOnce FailuresShow
SYMMETRY MCSymmetry
CHECK_DEADLOCK FALSE
