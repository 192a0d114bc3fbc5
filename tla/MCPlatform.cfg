SPECIFICATION PlatformSpec
CONSTANTS
  va = va
  vb = vb
  feed = feed
  in1 = in1
  in2 = in2
  s1 = s1
  s2 = s2
  q1 = q1
  q2 = q2
  c1 = c1
  c2 = c2
  app = app
  worker = worker
  l1 = l1
  w1 = w1
  w2 = w2
  k1 = k1
  k2 = k2
  ak1 = ak1
  r1 = r1
  r2 = r2
  r3 = r3
  a1 = a1
  a2 = a2
  sl1 = sl1
  sl2 = sl2
  t1 = t1
  t2 = t2
  e1 = e1
  e2 = e2
  MaxClock = 4
  MaxUpsets = 4
  Values = {va, vb}
  Allowlisted = {vb}
  Ingests = {in1, in2}
  HalfLife <- MCHalfLife
  NoSource = none
  Sightings <- MCSightings
  MaxBirths = 2
  HuntIds = {h1}
  Slots = {s1, s2}
  Take = 1
  MaxRuns = 2
  Schedules = {q1, q2}
  NameOf <- MCNameOf
  RepSlots = {s1, s2}
  News = {n1}
  RepDayLen = 2
  MaxReports = 3
  Plans = {p1, p2}
  Patterns = {hourly, daily}
  BadPatterns = {}
  Syncs = {y1, y2}
  Secrets = {c1, c2}
  Unreadable = bad
  NoSecret = nosecret
  KeysIn <- MCKeysIn
  EnvKeys = 3
  Loads = {l1, w1, w2}
  LoadIn <- MCLoadIn
  Application = app
  Lookups = {k1, k2}
  LookupIn <- MCLookupIn
  MaxTurns = 7
  Logins = {x1, x2, x3}
  Changes = {1, 2}
  SessionTtl = 1
  ApiKeys = {ak1}
  KeyExpires <- MCKeyExpires
  Requests = {r1, r2, r3}
  RequestKey <- MCRequestKey
  InScope = {r1, r2, r3}
  ApiLimit = 1
  ApiWindow = 2
  Records = {a1, a2}
  Slugs = {sl1, sl2}
  Edits = {e1, e2}
  Techniques = {t1, t2}
  MaxWrites = 3
  Imports = {m1, m2}
  ParentOf <- MCParentOf
  Grouped = {a1}
  GroupUses <- MCGroupUses
  tool = tool
  Software = {tool}
  SoftwareUses <- MCSoftwareUses
  i1 = i1
  i2 = i2
  i3 = i3
  i4 = i4
  x3 = x3
  m2 = m2
  Shelf = {i1, i2, i3, i4}
  KindOf <- MCKindOf
  Malformed = {i3}
  ExportCap = 3
  BatchSize = 2
  FirstSeen <- MCFirstSeen
  Catalogue <- MCCatalogue
  Offered = {"type", "confidence", "value", "source", "lastSeen"}
  HuntTemplates <- MCHuntTemplates
  MaxRows = 2
  Pastes <- MCPastes
  Entries <- MCEntries
  Queries = {"", "t", "T1", "bear"}
  ShortQueries = {"", "t"}
  PerTypeLimit = 2
  ValueOf <- MCValueOf
  TornLines = {"x;y"}
  Unrecognized = "no"
  Inputs <- MCInputs
  Panels <- MCPanels
  Supported <- MCSupported
  KnownGood = {"8"}
  BulkMax = 3
  EngineCounts <- MCEngineCounts
  PulseCounts = {0, 1, 2, 7, 40}
  CvssLists <- MCCvssLists
  AbuseScores = {0, 29, 30, 69, 70, 100}
  Cells <- MCCells
  TacticNames = {"execution", "persistence"}
  Adversaries = {"g1", "g2"}
  Strengths = {90}
  Artefacts <- MCArtefacts
  Retains = {1, 3}
  MaxBackups = 3
  FeedCatalog <- MCFeedCatalog
  SourceIds = {1, 2, 3}
  OwnNames = {"own"}
  Believed = {20, 80}
  FeedRuns = {f1, f2}
  FeedFiles <- MCFeedFiles
  Junk = "junk"
  Bundles <- MCBundles
  Followed = {"G1"}
  Scenes <- MCScenes
INVARIANTS
  SightingsKept NewMatchesAlerted NoRepeatedAlert NoWindowLost NoWindowTwice
  OldSessionsGone WindowHeld CountersEnd
  CurationKept AnalystLinksKept CatalogueHolds ReleaseLands SourcesHold
  BuiltHuntsWork PastesAddUp PaletteAnswers LookupsAddUp ExportsHold
  VerdictsAgree CoverageHolds BackupsHold
CHECK_DEADLOCK FALSE
