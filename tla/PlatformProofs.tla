---------------------------- MODULE PlatformProofs ----------------------------
(***************************************************************************)
(* The components together keep what each of them keeps.  Every theorem of *)
(* a component is about a specification in which the rest of the system    *)
(* is only the clock, the upsets and, where the component has them, the    *)
(* steps of the one it shares rows with; what is shown here is that the    *)
(* platform, with all its handlers interleaved, is such a system.          *)
(***************************************************************************)
EXTENDS Platform, AttackSyncProofs, HuntsProofs, AdministrationProofs, ConsoleProofs

(* A step of a component is calm or an upset: time only passes in Pass.    *)

Shares == Calm \/ Upset

LEMMA PagesShare ==
  ASSUME BuilderNext \/ ImportFormNext \/ PaletteNext \/ BulkNext
  PROVE  Shares
<1>1. CASE BuilderNext
  BY <1>1 DEF Shares, BuilderNext, OpenBuilder, AddRow, RemoveRow, PickField, PickOp,
     EnterValue, Toggle, PickMatch, ApplyTemplate, SubmitHunt, Rewritten, Editing
<1>2. CASE ImportFormNext
  BY <1>2 DEF Shares, ImportFormNext, Paste, Debounced, Submit, Ingested
<1>3. CASE PaletteNext
  BY <1>3 DEF Shares, PaletteNext, OpenPalette, ClosePalette, TypeQuery, SendSearch,
     SearchAnswered, SearchFailed
<1>4. CASE BulkNext
  BY <1>4 DEF Shares, BulkNext, SubmitLookup, NextLine, FindIndicator, AskProvider, ReadBack,
     EndLine, AnswerLookup, LookupBreaks, DeleteHeld, OtherAnswer, Disturbed
<1>. QED
  BY <1>1, <1>2, <1>3, <1>4

LEMMA RecordsShare ==
  ASSUME VerdictsNext \/ CoverageNext \/ BackupNext
  PROVE  Shares
<1>1. CASE VerdictsNext
  <2>1. ASSUME NEW p, NEW result, NEW shows, Store(p, result, shows) PROVE Shares
    BY <2>1 DEF Store, Shares
  <2>2. ASSUME NEW p \in Clients, Fails(p) PROVE Shares
    BY <2>2 DEF Fails, Shares
  <2>. QED
    BY <1>1, <2>1, <2>2 DEF VerdictsNext, VirusTotalAnswers, OtxAnswers, AbuseAnswers,
       GreyNoiseAnswers, ShodanAnswers, NotFound
<1>2. CASE CoverageNext
  BY <1>2 DEF Shares, CoverageNext, MapCell, UnmapCell, Deprecate, WhitelistArtefact,
     LinkArtefact, SheetBecomes, OpenBoard, ReadCells, ReadMappings, Reads2
<1>3. CASE BackupNext
  BY <1>3 DEF Shares, BackupNext, DatabaseChanges, StartBackup, DumpDone, Encrypt,
     NoPassphrase, UnlinkPlain, ListBackups, PruneNext, BackupComplete, BackupDies,
     StartRestore, Decrypt, ListContents, RestoreRuns, RestoreFails, Cleanup
<1>. QED
  BY <1>1, <1>2, <1>3

LEMMA OperatedShare ==
  ASSUME SourcesNext \/ ReleasesNext
  PROVE  Shares
<1>1. CASE SourcesNext
  BY <1>1 DEF Shares, SourcesNext, BeginInstall, InstallNext, InstallDies, SaveSource,
     ToggleSource, StartFeed, FetchFeed, NoOtxKey, SettleFeed, FeedBreaks, FeedDies
<1>2. CASE ReleasesNext
  BY <1>2 DEF Shares, ReleasesNext, Upgrade, BeginRelease, SaveTactic, SaveRelease,
     SaveParents, SaveMappings, SaveWares, ReleaseDies, Left
<1>. QED
  BY <1>1, <1>2

LEMMA OutsidersShare ==
  ASSUME ExportNext \/ ConsoleNext(scene.acts)
  PROVE  Shares
<1>1. CASE ExportNext
  BY <1>1 DEF Shares, ExportNext, OpenStream, SendBatch, CloseStream, BreakStream, SeeAgain,
     LeaveShelf
<1>2. CASE ConsoleNext(scene.acts)
  BY <1>2, PagesShare, RecordsShare, OperatedShare
     DEF ConsoleNext, PageNext, RecordNext, OperatedNext
<1>. QED
  BY <1>1, <1>2

LEMMA IndicatorsShare ==
  ASSUME IngestNext \/ HuntNext
  PROVE  Shares
<1>1. CASE IngestNext
  BY <1>1 DEF Shares, IngestNext, Begin, SelectExisting, Insert, Touch, Abandon, DeleteRow,
     Whitelist
<1>2. CASE HuntNext
  BY <1>2 DEF Shares, HuntNext, Load, Find, Date, WriteStamp, Alert, HuntDies, EditHunt,
     DeleteHunt, Drift
<1>. QED
  BY <1>1, <1>2

LEMMA LibraryShares ==
  ASSUME CurationNext \/ ImportNext
  PROVE  Shares
<1>1. CASE CurationNext
  BY <1>1 DEF Shares, CurationNext, CreateRecord, OpenRecord, SaveRecord, DeleteRecord,
     WriteAudit, EditDies, Link, Unlink
<1>2. CASE ImportNext
  <2>1. ASSUME NEW y \in Imports,
               BeginImport(y) \/ ReadActors(y) \/ MapTechniques(y) \/ SaveSoftware(y)
                 \/ ReadActorsAgain(y) \/ MapSoftware(y) \/ ImportDies(y)
        PROVE  Shares
    BY <2>1 DEF Shares, BeginImport, ReadActors, MapTechniques, SaveSoftware, ReadActorsAgain,
       MapSoftware, ImportDies
  <2>2. ASSUME NEW y \in Imports, NEW t \in Listed, SaveTechnique(y, t) \/ SetParent(y, t)
        PROVE  Shares
    BY <2>2 DEF Shares, SaveTechnique, SetParent
  <2>3. ASSUME NEW y \in Imports, NEW s \in Software, FindSoftware(y, s) PROVE Shares
    BY <2>3 DEF Shares, FindSoftware
  <2>. QED
    BY <1>2, <2>1, <2>2, <2>3 DEF ImportNext
<1>. QED
  BY <1>1, <1>2

LEMMA ServicesShare ==
  ASSUME ReportNext \/ ScheduleNext \/ CredentialNext \/ AccountNext \/ ApiNext
  PROVE  Shares
<1>1. CASE ReportNext
  <2>1. ASSUME NEW i \in News, SendRow(i) \/ CommitRow(i) PROVE Shares
    BY <2>1 DEF Shares, SendRow, CommitRow
  <2>2. ASSUME NEW s \in RepSlots, NEW q \in Schedules, LoadReport(s, q) PROVE Shares
    BY <2>2 DEF Shares, LoadReport
  <2>3. ASSUME NEW s \in RepSlots,
               Generate(s) \/ ChooseSlug(s) \/ File(s) \/ MarkRun(s) \/ ReportDies(s)
        PROVE  Shares
    BY <2>3 DEF Shares, Generate, ChooseSlug, File, MarkRun, ReportDies
  <2>4. ASSUME NEW q \in Schedules, DeleteSchedule(q) PROVE Shares
    BY <2>4 DEF Shares, DeleteSchedule
  <2>. QED
    BY <1>1, <2>1, <2>2, <2>3, <2>4 DEF ReportNext
<1>2. CASE ScheduleNext
  BY <1>2 DEF Shares, ScheduleNext, EditRow, ReadRows, List, RemoveUnwanted, Upsert,
     UpsertThrows, EndSync, SyncFails, StopWorker
<1>3. CASE CredentialNext
  BY <1>3 DEF Shares, CredentialNext, FindCredential, WriteCredential, ClearCredential,
     LoadStep, ReadCredentials, StoreCache, LoadFails, ProcessDies, StartLookup, KeySpent, KeyAnswers
<1>4. CASE AccountNext
  BY <1>4 DEF Shares, AccountNext, CheckPassword, CreateSession, Resolve, Logout, SetActive,
     BeginChange, VerifyCurrent, ResolveAgain, Revoke, WritePassword, ChangeDies
<1>5. CASE ApiNext
  BY <1>5 DEF Shares, ApiNext, Authenticate, Incr, PExpire, RedisFails, RequestDies,
     RevokeKey, DeactivateOwner
<1>. QED
  BY <1>1, <1>2, <1>3, <1>4, <1>5
-----------------------------------------------------------------------------
(* A step of the platform, as each component sees it.                      *)

LEMMA PlatformMoves ==
  ASSUME PlatformNext
  PROVE  /\ Shares \/ Pass
         /\ \/ IngestNext /\ UNCHANGED huntVars
            \/ HuntNext /\ UNCHANGED ingestVars
            \/ UNCHANGED <<ingestVars, huntVars>>
         /\ ReportNext \/ UNCHANGED reportVars
         /\ ScheduleNext \/ UNCHANGED scheduleVars
         /\ CredentialNext \/ UNCHANGED credentialVars
         /\ AccountNext \/ UNCHANGED accountVars
         /\ ImportNext \/ CurationStep \/ UNCHANGED <<importVars, curationVars>>
<1>1. PlatformStep
  BY DEF PlatformNext
<1>2. CASE PlatformPass
  BY <1>2 DEF PlatformPass, ApiPass, indicatorVars, libraryVars
<1>3. CASE IngestNext /\ UNCHANGED <<huntVars, reportVars, scheduleVars, credentialVars,
                                     accountVars, libraryVars>>
  BY <1>3, IndicatorsShare DEF libraryVars
<1>4. CASE HuntNext /\ UNCHANGED <<ingestVars, reportVars, scheduleVars, credentialVars,
                                   accountVars, libraryVars>>
  BY <1>4, IndicatorsShare DEF libraryVars
<1>5. CASE ReportNext /\ UNCHANGED <<indicatorVars, scheduleVars, credentialVars,
                                     accountVars, libraryVars>>
  BY <1>5, ServicesShare DEF indicatorVars, libraryVars
<1>6. CASE ScheduleNext /\ UNCHANGED <<indicatorVars, reportVars, credentialVars,
                                       accountVars, libraryVars>>
  BY <1>6, ServicesShare DEF indicatorVars, libraryVars
<1>7. CASE CredentialNext /\ UNCHANGED <<indicatorVars, reportVars, scheduleVars,
                                         accountVars, libraryVars>>
  BY <1>7, ServicesShare DEF indicatorVars, libraryVars
<1>8. CASE AccountNext /\ UNCHANGED <<indicatorVars, reportVars, scheduleVars,
                                      credentialVars, libraryVars>>
  BY <1>8, ServicesShare DEF indicatorVars, libraryVars
<1>9. CASE (ImportNext \/ CurationStep)
           /\ UNCHANGED <<indicatorVars, reportVars, scheduleVars, credentialVars, accountVars>>
  BY <1>9, LibraryShares DEF indicatorVars, CurationStep
<1>10. CASE (ApiNext \/ ExportNext \/ ConsoleNext(scene.acts))
            /\ UNCHANGED <<indicatorVars, reportVars, scheduleVars, credentialVars, accountVars,
                           libraryVars>>
  BY <1>10, ServicesShare, OutsidersShare DEF indicatorVars, libraryVars
<1>. QED
  BY <1>1, <1>2, <1>3, <1>4, <1>5, <1>6, <1>7, <1>8, <1>9, <1>10 DEF PlatformStep

\* An import writes techniques and links, and no row an analyst edits.
LEMMA ImportsSpareRows ==
  ASSUME ImportNext
  PROVE  UNCHANGED rowVars
<1>1. CASE \E y \in Imports : BeginImport(y) \/ ReadActors(y) \/ SaveSoftware(y)
             \/ ReadActorsAgain(y) \/ MapSoftware(y) \/ ImportDies(y)
             \/ \E s \in Software : FindSoftware(y, s)
  BY <1>1 DEF BeginImport, ReadActors, SaveSoftware, ReadActorsAgain, MapSoftware, ImportDies,
     FindSoftware, rowVars, curationVars
<1>2. CASE \E y \in Imports : MapTechniques(y)
             \/ \E t \in Listed : SaveTechnique(y, t) \/ SetParent(y, t)
  BY <1>2 DEF MapTechniques, SaveTechnique, SetParent, rowVars
<1>. QED
  BY <1>1, <1>2 DEF ImportNext

\* Where the API is not in the scene it has counted nothing, and Redis has
\* nothing to drop as time passes.
ApiIdle == Acts("api") \/ counters = [k \in ApiKeys |-> [b \in Buckets |-> NoCounter]]

LEMMA PlatformMovesApi ==
  ASSUME ApiIdle, PlatformNext
  PROVE  /\ ApiIdle'
         /\ ApiNext \/ ApiPass \/ (Shares /\ UNCHANGED apiVars)
<1>1. PlatformStep /\ scene' = scene
  BY DEF PlatformNext
<1>2. CASE PlatformPass /\ Acts("api")
  BY <1>1, <1>2 DEF PlatformPass, ApiIdle, Acts
<1>3. CASE PlatformPass /\ ~Acts("api")
  <2>1. Pass /\ UNCHANGED apiVars /\ counters = [k \in ApiKeys |-> [b \in Buckets |-> NoCounter]]
    BY <1>3 DEF PlatformPass, ApiIdle
  <2>2. \A k \in ApiKeys, b \in Buckets : counters[k][b] = NoCounter
    BY <2>1
  <2>3. [k \in ApiKeys |-> [b \in Buckets |->
           IF counters[k][b].dies <= clock + 1 THEN NoCounter ELSE counters[k][b]]]
        = [k \in ApiKeys |-> [b \in Buckets |-> NoCounter]]
    BY <2>2
  <2>4. ApiPass
    BY <2>1, <2>3 DEF ApiPass, apiVars
  <2>. QED
    BY <1>1, <2>1, <2>4 DEF ApiIdle, Acts, apiVars
<1>4. CASE ~PlatformPass /\ ~(Acts("api") /\ ApiNext)
  <2>1. Shares /\ UNCHANGED apiVars
    BY <1>1, <1>4, IndicatorsShare, ServicesShare, LibraryShares, OutsidersShare
       DEF PlatformStep, CurationStep
  <2>. QED
    BY <1>1, <2>1 DEF ApiIdle, Acts, apiVars
<1>5. CASE Acts("api") /\ ApiNext
  BY <1>1, <1>5 DEF ApiIdle, Acts
<1>. QED
  BY <1>2, <1>3, <1>4, <1>5

\* A part of the console moves by its own steps or stands still.
ConsoleMoves ==
  /\ BuilderNext \/ UNCHANGED builderVars
  /\ ImportFormNext \/ UNCHANGED importFormVars
  /\ PaletteNext \/ UNCHANGED paletteVars
  /\ BulkNext \/ UNCHANGED bulkVars
  /\ VerdictsNext \/ UNCHANGED verdictVars
  /\ CoverageNext \/ UNCHANGED coverageVars
  /\ BackupNext \/ UNCHANGED backupVars
  /\ SourcesNext \/ UNCHANGED sourceVars
  /\ ReleasesNext \/ UNCHANGED releaseVars

LEMMA ConsoleStill ==
  /\ UNCHANGED pageVars => /\ UNCHANGED builderVars /\ UNCHANGED importFormVars
                            /\ UNCHANGED paletteVars /\ UNCHANGED bulkVars
  /\ UNCHANGED recordVars =>
       UNCHANGED verdictVars /\ UNCHANGED coverageVars /\ UNCHANGED backupVars
  /\ UNCHANGED operatedVars => UNCHANGED sourceVars /\ UNCHANGED releaseVars
  /\ UNCHANGED consoleVars => ConsoleMoves
BY DEF pageVars, recordVars, operatedVars, consoleVars, ConsoleMoves

LEMMA PlatformMovesConsole ==
  ASSUME PlatformNext
  PROVE  ConsoleMoves
<1>1. UNCHANGED consoleVars \/ ConsoleNext(scene.acts)
  BY DEF PlatformNext, PlatformStep, PlatformPass, outerVars
<1>2. CASE PageNext(scene.acts) /\ UNCHANGED <<recordVars, operatedVars>>
  <2>1. UNCHANGED recordVars /\ UNCHANGED operatedVars
    BY <1>2
  <2>2. /\ BuilderNext \/ UNCHANGED builderVars
        /\ ImportFormNext \/ UNCHANGED importFormVars
        /\ PaletteNext \/ UNCHANGED paletteVars
        /\ BulkNext \/ UNCHANGED bulkVars
    BY <1>2 DEF PageNext
  <2>. QED
    BY <2>1, <2>2, ConsoleStill DEF ConsoleMoves
<1>3. CASE RecordNext(scene.acts) /\ UNCHANGED <<pageVars, operatedVars>>
  <2>1. UNCHANGED pageVars /\ UNCHANGED operatedVars
    BY <1>3
  <2>2. /\ VerdictsNext \/ UNCHANGED verdictVars
        /\ CoverageNext \/ UNCHANGED coverageVars
        /\ BackupNext \/ UNCHANGED backupVars
    BY <1>3 DEF RecordNext
  <2>. QED
    BY <2>1, <2>2, ConsoleStill DEF ConsoleMoves
<1>4. CASE OperatedNext(scene.acts) /\ UNCHANGED <<pageVars, recordVars>>
  <2>1. UNCHANGED pageVars /\ UNCHANGED recordVars
    BY <1>4
  <2>2. /\ SourcesNext \/ UNCHANGED sourceVars
        /\ ReleasesNext \/ UNCHANGED releaseVars
    BY <1>4 DEF OperatedNext
  <2>. QED
    BY <2>1, <2>2, ConsoleStill DEF ConsoleMoves
<1>. QED
  BY <1>1, <1>2, <1>3, <1>4, ConsoleStill DEF ConsoleNext
-----------------------------------------------------------------------------
(* The platform is the system every component was proved in.               *)

LEMMA PlatformIsIngest == PlatformSpec => IngestSpec
<1>1. PlatformInit => EnvironmentInit /\ IngestInit
  BY DEF PlatformInit
<1>2. [PlatformNext]_platformVars
        => [IngestNext \/ IngestElsewhere]_<<environment, ingestVars>>
  BY PlatformMoves DEF IngestElsewhere, Shares, Calm, platformVars
<1>. QED
  BY <1>1, <1>2, PTL DEF PlatformSpec, IngestSpec

LEMMA PlatformIsHunts == PlatformSpec => HuntSpec
<1>1. PlatformInit => EnvironmentInit /\ IngestInit /\ HuntInit
  BY DEF PlatformInit
<1>2. [PlatformNext]_platformVars => [HuntingNext]_<<environment, ingestVars, huntVars>>
  BY PlatformMoves DEF HuntingNext, HuntingElsewhere, Shares, Calm, platformVars
<1>. QED
  BY <1>1, <1>2, PTL DEF PlatformSpec, HuntSpec

LEMMA PlatformIsReports == PlatformSpec => ReportSpec
<1>1. PlatformInit => EnvironmentInit /\ ReportInit
  BY DEF PlatformInit
<1>2. [PlatformNext]_platformVars => [ReportNext \/ Elsewhere]_reports
  BY PlatformMoves DEF Elsewhere, reports, Shares, Calm, platformVars
<1>. QED
  BY <1>1, <1>2, PTL DEF PlatformSpec, ReportSpec

LEMMA PlatformIsSchedules == PlatformSpec => ScheduleSpec
<1>1. PlatformInit => ScheduleInit
  BY DEF PlatformInit
<1>2. [PlatformNext]_platformVars => [ScheduleNext]_scheduleVars
  BY PlatformMoves DEF platformVars
<1>. QED
  BY <1>1, <1>2, PTL DEF PlatformSpec, ScheduleSpec

LEMMA PlatformIsCredentials == PlatformSpec => CredentialSpec
<1>1. PlatformInit => CredentialInit
  BY DEF PlatformInit
<1>2. [PlatformNext]_platformVars => [CredentialNext]_credentialVars
  BY PlatformMoves DEF platformVars
<1>. QED
  BY <1>1, <1>2, PTL DEF PlatformSpec, CredentialSpec

LEMMA PlatformIsAccounts == PlatformSpec => AccountSpec
<1>1. PlatformInit => EnvironmentInit /\ AccountInit
  BY DEF PlatformInit
<1>2. [PlatformNext]_platformVars
        => [AccountNext \/ AccountsElsewhere]_<<environment, accountVars>>
  BY PlatformMoves DEF AccountsElsewhere, Shares, Calm, platformVars
<1>. QED
  BY <1>1, <1>2, PTL DEF PlatformSpec, AccountSpec

LEMMA PlatformIsApi == PlatformSpec => ApiSpec
<1>1. PlatformInit => EnvironmentInit /\ ApiInit /\ ApiIdle
  BY DEF PlatformInit, ApiInit, ApiIdle
<1>2. ApiIdle /\ [PlatformNext]_platformVars
        => ApiIdle' /\ [ApiNext \/ ApiPass \/ ApiElsewhere]_apis
  BY PlatformMovesApi
     DEF ApiElsewhere, apis, Shares, Calm, platformVars, ApiIdle, Acts, apiVars
<1>. QED
  BY <1>1, <1>2, PTL DEF PlatformSpec, ApiSpec

LEMMA PlatformIsCuration == PlatformSpec => CurationSpec
<1>1. PlatformInit => CurationInit
  BY DEF PlatformInit
<1>2. [PlatformNext]_platformVars => [CurationNext]_rowVars
  BY PlatformMoves, ImportsSpareRows DEF CurationStep, platformVars, curationVars, rowVars
<1>. QED
  BY <1>1, <1>2, PTL DEF PlatformSpec, CurationSpec

LEMMA PlatformIsImports == PlatformSpec => ImportSpec
<1>1. PlatformInit => CurationInit /\ ImportInit
  BY DEF PlatformInit
<1>2. [PlatformNext]_platformVars => [ImportNext \/ CurationStep]_allVars
  BY PlatformMoves DEF allVars, platformVars
<1>. QED
  BY <1>1, <1>2, PTL DEF PlatformSpec, ImportSpec

LEMMA PlatformIsConsole ==
  PlatformSpec => /\ BuilderSpec /\ PasteSpec /\ PaletteSpec /\ LookupsSpec
                  /\ VerdictsSpec /\ CoverageSpec /\ BackupsSpec /\ SourcesSpec
                  /\ ReleasesSpec
<1>1. PlatformInit => /\ BuilderInit /\ ImportFormInit /\ PaletteInit /\ BulkInit
                      /\ VerdictsInit /\ CoverageInit /\ BackupInit /\ SourcesInit
                      /\ ReleasesInit
  BY DEF PlatformInit, ConsoleInit
<1>2. [PlatformNext]_platformVars => ConsoleMoves
  <2>1. UNCHANGED platformVars => UNCHANGED consoleVars
    BY DEF platformVars
  <2>. QED
    BY <2>1, PlatformMovesConsole, ConsoleStill
<1>3. ConsoleMoves => /\ [BuilderNext]_builderVars /\ [ImportFormNext]_importFormVars
                      /\ [PaletteNext]_paletteVars
                      /\ [BulkNext]_bulkVars /\ [VerdictsNext]_verdictVars
                      /\ [CoverageNext]_coverageVars /\ [BackupNext]_backupVars
                      /\ [SourcesNext]_sourceVars /\ [ReleasesNext]_releaseVars
  BY DEF ConsoleMoves
<1>. QED
  BY <1>1, <1>2, <1>3, PTL
     DEF PlatformSpec, BuilderSpec, PasteSpec, PaletteSpec, LookupsSpec, VerdictsSpec,
         CoverageSpec, BackupsSpec, SourcesSpec, ReleasesSpec
-----------------------------------------------------------------------------
(* The exports share the clock and the rows of indicators.                 *)

LEMMA PlatformMovesExports ==
  ASSUME PlatformNext
  PROVE  ExportNext \/ ExportElsewhere
<1>1. PlatformStep
  BY DEF PlatformNext
<1>2. CASE PlatformPass
  BY <1>2 DEF PlatformPass, ApiPass, outerVars, ExportElsewhere
<1>3. CASE IngestNext /\ UNCHANGED outerVars
  BY <1>3, IndicatorsShare DEF outerVars, ExportElsewhere, Shares
<1>4. CASE HuntNext /\ UNCHANGED outerVars
  BY <1>4, IndicatorsShare DEF outerVars, ExportElsewhere, Shares
<1>5. CASE /\ ReportNext \/ ScheduleNext \/ CredentialNext \/ AccountNext \/ ApiNext
           /\ UNCHANGED outerVars
  BY <1>5, ServicesShare DEF outerVars, ExportElsewhere, Shares
<1>6. CASE (CurationStep \/ ImportNext) /\ UNCHANGED outerVars
  BY <1>6, LibraryShares DEF CurationStep, outerVars, ExportElsewhere, Shares
<1>7. CASE ConsoleNext(scene.acts) /\ UNCHANGED exportVars
  BY <1>7, OutsidersShare DEF ExportElsewhere, Shares
<1>. QED
  BY <1>1, <1>2, <1>3, <1>4, <1>5, <1>6, <1>7 DEF PlatformStep

LEMMA PlatformIsExports == PlatformSpec => ExportSpec
<1>1. PlatformInit => EnvironmentInit /\ ExportInit
  BY DEF PlatformInit
<1>2. [PlatformNext]_platformVars
        => [ExportNext \/ ExportElsewhere]_<<environment, exportVars>>
  BY PlatformMovesExports DEF platformVars
<1>. QED
  BY <1>1, <1>2, PTL DEF PlatformSpec, ExportSpec
-----------------------------------------------------------------------------
(* What the components promise, of the platform.                           *)

\* While everything else goes on, no sighting of an indicator is lost by the
\* ingests that race over it, and a hunt alerts its new matches, each once
\* (src/lib/ioc/ingest.ts, src/lib/hunting/run.ts).
THEOREM IndicatorsAreSafe ==
  PlatformSpec => [](SightingsKept /\ NewMatchesAlerted /\ NoRepeatedAlert)
BY PlatformIsIngest, PlatformIsHunts, SightingsAreKept, MatchesAreAlerted, AlertsAreNew, PTL

\* While everything else goes on, what analysts wrote of actors, software and
\* reports stands as they left it, and an import of a closed bundle that ends
\* leaves it complete and takes no link an analyst made
\* (src/lib/actions.ts, src/lib/attack/sync.ts).
THEOREM LibraryIsSafe ==
  ASSUME BundleClosed
  PROVE  PlatformSpec =>
           [](CurationKept /\ AnalystLinksKept /\ CatalogueHolds)
BY PlatformIsCuration, PlatformIsImports, CurationIsKept, AnalystsKeepLinks, CatalogueStays, PTL

\* While everything else goes on, the worker's schedulers settle on the rows,
\* no window of a schedule is lost or needlessly filed twice, no stale
\* credential stays cached, keys take turns, a changed password ends the
\* sessions opened with the old one, and the public API keeps to its limits.
THEOREM AdministrationIsSafe ==
  PlatformSpec =>
    []( /\ SettledSchedules /\ NoWindowLost /\ NoWindowTwice
        /\ FreshCache /\ KeysRotate /\ OldSessionsGone
        /\ WindowHeld /\ CountersEnd )
BY PlatformIsSchedules, PlatformIsReports, PlatformIsCredentials, PlatformIsAccounts,
   PlatformIsApi, SchedulesSettle, NoWindowIsLost, NoWindowIsFiledTwice, CacheStaysFresh,
   RotationIsEven, OldSessionsAreGone, WindowsHold, CountersDoEnd, PTL

\* While everything else goes on, the hunts that are built work, a paste adds
\* up, the palette answers what was typed, lookups answer every line, verdicts
\* and counts agree with what is stored, a backup is always there, sources
\* keep their counters, an export is one file of the rows it paged through, and
\* a release of ATT&CK that has landed is there as a whole.
THEOREM ConsoleIsSafe ==
  PlatformSpec =>
    []( /\ BuiltHuntsWork /\ PastesAddUp /\ PaletteAnswers /\ LookupsAddUp
        /\ VerdictsAgree /\ CoverageHolds /\ BackupsHold /\ SourcesHold
        /\ ExportsHold /\ ReleaseLands )
BY PlatformIsConsole, PlatformIsExports, ExportsDoHold, HuntsDoWork, PastesDoAddUp,
   ReleasesDoLand, PaletteDoesAnswer, LookupsStayRight, VerdictsAreOne, CoverageStays, BackupsStay,
   SourcesStayTrue, PTL
=============================================================================
