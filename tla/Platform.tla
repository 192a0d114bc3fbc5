------------------------------ MODULE Platform ------------------------------
(***************************************************************************)
(* The components side by side: the application and the worker are two     *)
(* processes over one database, one Redis and one clock, and every handler *)
(* takes its steps between those of all the others.  A behaviour plays in  *)
(* a scene, which names the components that act in it and its bounds; the  *)
(* others stand still.  Hunts find what ingests bring; imports and         *)
(* analysts write the same links.                                          *)
(***************************************************************************)
EXTENDS Hunts, ScheduledReports, Schedules, Credentials, Accounts, ApiAccess,
        AttackSync, Exports, Console

CONSTANTS
  Scenes  \* [acts, clock, upsets, writes, absent]: the components that act,
          \* bounds of the behaviour, callers and rows that take no part in it

ASSUME PlatformAssumption ==
  \A s \in Scenes : s.clock \in 1 .. MaxClock /\ s.upsets \in 0 .. MaxUpsets

VARIABLES scene

platformVars ==
  <<environment, scene, ingestVars, huntVars, reportVars, scheduleVars,
    credentialVars, accountVars, apiVars, curationVars, importVars,
    exportVars, consoleVars>>

Acts(part) == part \in scene.acts

PlatformInit ==
  /\ scene \in Scenes
  /\ EnvironmentInit
  /\ IngestInit /\ HuntInit
  /\ ReportInit
  /\ ScheduleInit /\ (Acts("schedules") \/ (rows = schedulers /\ \A x \in Plans : rows[x] = Off))
  /\ CredentialInit /\ (Acts("credentials") \/ stored = NoSecret)
  /\ AccountInit
  /\ ApiInit
  /\ CurationInit /\ ImportInit
  /\ ExportInit
  /\ ConsoleInit

indicatorVars == <<ingestVars, huntVars>>
libraryVars == <<curationVars, importVars>>
outerVars == <<exportVars, consoleVars>>

PlatformPass ==
  /\ \/ Acts("api") /\ ApiPass
     \/ ~Acts("api") /\ Pass /\ UNCHANGED apiVars
  /\ UNCHANGED <<indicatorVars, reportVars, scheduleVars, credentialVars, accountVars,
                 libraryVars, outerVars>>

PlatformStep ==
  \/ PlatformPass
  \/ /\ Acts("ingest") /\ IngestNext
     /\ UNCHANGED <<huntVars, reportVars, scheduleVars, credentialVars, accountVars,
                    apiVars, libraryVars, outerVars>>
  \/ /\ Acts("hunts") /\ HuntNext
     /\ UNCHANGED <<ingestVars, reportVars, scheduleVars, credentialVars, accountVars,
                    apiVars, libraryVars, outerVars>>
  \/ /\ Acts("reports") /\ ReportNext
     /\ UNCHANGED <<indicatorVars, scheduleVars, credentialVars, accountVars, apiVars,
                    libraryVars, outerVars>>
  \/ /\ Acts("schedules") /\ ScheduleNext
     /\ UNCHANGED <<indicatorVars, reportVars, credentialVars, accountVars, apiVars,
                    libraryVars, outerVars>>
  \/ /\ Acts("credentials") /\ CredentialNext
     /\ UNCHANGED <<indicatorVars, reportVars, scheduleVars, accountVars, apiVars,
                    libraryVars, outerVars>>
  \/ /\ Acts("accounts") /\ AccountNext
     /\ UNCHANGED <<indicatorVars, reportVars, scheduleVars, credentialVars, apiVars,
                    libraryVars, outerVars>>
  \/ /\ Acts("api") /\ ApiNext
     /\ UNCHANGED <<indicatorVars, reportVars, scheduleVars, credentialVars,
                    accountVars, libraryVars, outerVars>>
  \/ /\ Acts("curation") /\ CurationStep
     /\ UNCHANGED <<indicatorVars, reportVars, scheduleVars, credentialVars,
                    accountVars, apiVars, outerVars>>
  \/ /\ Acts("imports") /\ ImportNext
     /\ UNCHANGED <<indicatorVars, reportVars, scheduleVars, credentialVars,
                    accountVars, apiVars, outerVars>>
  \/ /\ Acts("exports") /\ ExportNext
     /\ UNCHANGED <<indicatorVars, reportVars, scheduleVars, credentialVars,
                    accountVars, apiVars, libraryVars, consoleVars>>
  \/ /\ ConsoleNext(scene.acts)
     /\ UNCHANGED <<indicatorVars, reportVars, scheduleVars, credentialVars,
                    accountVars, apiVars, libraryVars, exportVars>>

PlatformNext ==
  /\ PlatformStep
  /\ clock' <= scene.clock /\ upsets' <= scene.upsets /\ writes' <= scene.writes
  /\ \A r \in Ingests \cap scene.absent : ingests'[r] = Resting
  /\ \A s \in RepSlots : repRuns'[s] # NoRep => repRuns'[s].sched \notin scene.absent
  /\ \A r \in Records \cap scene.absent : records'[r] = Unborn
  /\ \A r \in Records : records'[r].ver > 0 => records'[r].slug \notin scene.absent
  /\ \A e \in Edits \cap scene.absent : edits'[e] = NoEdit
  /\ \A k \in Lookups \cap scene.absent : lookups'[k] = Idle
  /\ \A l \in Loads \cap scene.absent : loads'[l] = Idle
  /\ \A y \in Imports \cap scene.absent : imports'[y] = NoImport
  /\ \A x \in Logins \cap scene.absent : logins'[x] = Asked
  /\ UNCHANGED scene

PlatformSpec == PlatformInit /\ [][PlatformNext]_platformVars

\* setInterval in main: syncs and loads start again and again, and a command
\* in progress is answered or fails.
TimedSync(y) ==
  /\ Acts("schedules") /\ SyncStep(y)
  /\ UNCHANGED <<scene, indicatorVars, reportVars, credentialVars, accountVars,
                 apiVars, libraryVars, outerVars>>
TimedLoad(l) ==
  /\ Acts("credentials") /\ LoadIn[l] # Application /\ l \notin scene.absent
  /\ LoadStep(l)
  /\ UNCHANGED <<scene, indicatorVars, reportVars, scheduleVars, accountVars,
                 apiVars, libraryVars, outerVars>>

FairPlatform ==
  /\ PlatformSpec
  /\ \A y \in Syncs : WF_platformVars(TimedSync(y))
  /\ \A l \in Loads : WF_platformVars(TimedLoad(l))
-----------------------------------------------------------------------------
=============================================================================
