------------------------------- MODULE Console -------------------------------
(***************************************************************************)
(* What an analyst or an operator works at, each part with the code it     *)
(* calls: the hunt builder, the import form, the search palette, the       *)
(* lookups, the cards of an indicator, the matrix and the rules made of    *)
(* it, backup and restore, the sources of the feeds, the releases of       *)
(* ATT&CK.  They share no state, so a part moves only in the scenes it is  *)
(* named in.                                                               *)
(***************************************************************************)
EXTENDS HuntBuilder, ImportForm, SearchPalette, BulkLookup, Verdicts, Coverage, Backups,
        FeedSources, Releases

pageVars == <<builderVars, importFormVars, paletteVars, bulkVars>>
recordVars == <<verdictVars, coverageVars, backupVars>>
operatedVars == <<sourceVars, releaseVars>>
consoleVars == <<pageVars, recordVars, operatedVars>>

ConsoleInit ==
  /\ BuilderInit /\ ImportFormInit /\ PaletteInit /\ BulkInit
  /\ VerdictsInit /\ CoverageInit /\ BackupInit
  /\ SourcesInit /\ ReleasesInit

PageNext(acts) ==
  \/ /\ "builder" \in acts /\ BuilderNext
     /\ UNCHANGED <<importFormVars, paletteVars, bulkVars>>
  \/ /\ "paste" \in acts /\ ImportFormNext
     /\ UNCHANGED <<builderVars, paletteVars, bulkVars>>
  \/ /\ "search" \in acts /\ PaletteNext
     /\ UNCHANGED <<builderVars, importFormVars, bulkVars>>
  \/ /\ "bulk" \in acts /\ BulkNext
     /\ UNCHANGED <<builderVars, importFormVars, paletteVars>>

RecordNext(acts) ==
  \/ /\ "verdicts" \in acts /\ VerdictsNext
     /\ UNCHANGED <<coverageVars, backupVars>>
  \/ /\ "coverage" \in acts /\ CoverageNext
     /\ UNCHANGED <<verdictVars, backupVars>>
  \/ /\ "backups" \in acts /\ BackupNext
     /\ UNCHANGED <<verdictVars, coverageVars>>

OperatedNext(acts) ==
  \/ "sources" \in acts /\ SourcesNext /\ UNCHANGED releaseVars
  \/ "releases" \in acts /\ ReleasesNext /\ UNCHANGED sourceVars

ConsoleNext(acts) ==
  \/ PageNext(acts) /\ UNCHANGED <<recordVars, operatedVars>>
  \/ RecordNext(acts) /\ UNCHANGED <<pageVars, operatedVars>>
  \/ OperatedNext(acts) /\ UNCHANGED <<pageVars, recordVars>>
=============================================================================
