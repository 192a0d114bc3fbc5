SPECIFICATION Spec
CONSTANTS
  kev1 = kev1
  nvd1 = nvd1
  nvd2 = nvd2
  epss1 = epss1
  rss1 = rss1
  rss2 = rss2
  manual1 = manual1
  Cves = {c1}
  Articles = {}
  Jobs = {kev1, nvd1, nvd2}
  Sources <- MCSources
  SourceOf <- MCSourceOf
  Handler <- MCHandler
  Batches <- MCHourly
  Slots = {w1, w2}
  MaxErrors = 0
  MaxCrashes = 0
PROPERTIES KevSticks
CHECK_DEADLOCK FALSE
