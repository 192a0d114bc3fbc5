----------------------------- MODULE FeedSources -----------------------------
(***************************************************************************)
(* The sources behind the feeds: the catalogue that is installed again and *)
(* again (installCatalog of src/lib/feeds/run.ts), the administrators who  *)
(* rename, edit and switch sources (src/app/(app)/feeds/actions.ts), and   *)
(* the runs of the feeds that bring indicators or articles, with what      *)
(* their files are read as (parsers.ts) and what a source's counters say   *)
(* of them.  Within a run, ingestParsed is module Ingest's; the CVE feeds  *)
(* and the queue are module Feeds'.                                        *)
(***************************************************************************)
EXTENDS Environment, FiniteSets, SequencesExt

CONSTANTS
  FeedCatalog, \* FEED_CATALOG: [name, handler, conf], in its order
  SourceIds,   \* rows of Source
  OwnNames,    \* names administrators give
  Believed,    \* confidences they give
  FeedRuns,    \* concurrent runs of the feed worker
  FeedFiles,   \* what is downloaded: [handler, bom, lines]; a line is [is, value]
  Junk         \* a value parseIndicator does not recognize

ASSUME CatalogAssumption ==
  /\ Len(FeedCatalog) \in Nat \ {0}
  /\ \A k \in 1 .. Len(FeedCatalog) :
       FeedCatalog[k].conf \in Nat /\ FeedCatalog[k].name \notin OwnNames \cup {"none"}
  /\ "none" \notin OwnNames /\ Believed \subseteq Nat

\* What the lines of a file are: a CSV file has one header, after comments only;
\* every item of a news feed has a web address or is marked.
ASSUME FilesAssumption ==
  \A f \in FeedFiles :
    /\ Len(f.lines) \in Nat
    /\ \A k \in 1 .. Len(f.lines) :
         LET is == f.lines[k].is
             first == \A j \in 1 .. k - 1 : f.lines[j].is = "comment"
         IN  IF f.handler = "urlhaus" THEN is \in {"comment", IF first THEN "header" ELSE "row"}
             ELSE IF f.handler = "rss-news"
             THEN is \in {"row", "untitled", "no address"} /\ f.lines[k].value # Junk
             ELSE is \in {"row", "empty"}

VARIABLES
  feedRows,    \* the Source table
  installing,  \* the entry installCatalog comes to next, 0 between installs
  feedRuns,    \* the runs in progress
  intel,       \* indicators and articles that are stored
  yields,      \* history: recognizable entries of the files each source brought
  installedAs, \* history: the handler a row was last installed with
  off          \* history: sources switched off, and neither saved nor on since

sourceVars == <<feedRows, installing, feedRuns, intel, yields, installedAs, off>>
kept == <<intel, yields>>
seenOf == <<installedAs, off>>

NoFeed == [name |-> "none"]
NoFeedRun == [st |-> "none"]
Installed(i) == feedRows[i] # NoFeed
CatalogNames == {FeedCatalog[k].name : k \in 1 .. Len(FeedCatalog)}
NewSource(name, conf, handler) ==
  [name |-> name, conf |-> conf, enabled |-> TRUE, handler |-> handler, status |-> "never",
   ingested |-> 0, duped |-> 0, errors |-> 0]

SourcesInit ==
  /\ feedRows = [i \in SourceIds |-> NoFeed]
  /\ installing = 0
  /\ feedRuns = [r \in FeedRuns |-> NoFeedRun]
  /\ intel = {}
  /\ yields = [i \in SourceIds |-> 0]
  /\ installedAs = [i \in SourceIds |-> "none"]
  /\ off = {}
-----------------------------------------------------------------------------
(* The catalogue and the administrators.                                   *)

BeginInstall ==
  /\ installing = 0
  /\ installing' = 1
  /\ Upset
  /\ UNCHANGED <<feedRows, feedRuns>> /\ UNCHANGED kept /\ UNCHANGED seenOf

\* The update of the upsert, by name: all but the name, `enabled` and what the
\* runs record.  (SwitchedOn enables it, as the create does.)
SwitchedOn(row, entry) ==
  [row EXCEPT !.conf = entry.conf, !.handler = entry.handler, !.enabled = TRUE]
Reinstalled(row, entry) == [row EXCEPT !.conf = entry.conf, !.handler = entry.handler]

InstallNext ==
  /\ installing # 0
  /\ LET entry == FeedCatalog[installing]
         named == {i \in SourceIds : feedRows[i].name = entry.name}
     IN  \E i \in SourceIds :
           /\ IF named # {} THEN i \in named ELSE ~Installed(i)
           /\ feedRows' = [feedRows EXCEPT ![i] =
                IF named # {} THEN Reinstalled(@, entry)
                ELSE NewSource(entry.name, entry.conf, entry.handler)]
           /\ installedAs' = [installedAs EXCEPT ![i] = entry.handler]
  /\ installing' = IF installing = Len(FeedCatalog) THEN 0 ELSE installing + 1
  /\ Calm
  /\ UNCHANGED <<feedRuns, off>> /\ UNCHANGED kept

InstallDies ==
  /\ installing # 0
  /\ installing' = 0
  /\ Upset
  /\ UNCHANGED <<feedRows, feedRuns>> /\ UNCHANGED kept /\ UNCHANGED seenOf

\* saveSource: a taken name is a unique violation and changes nothing.  The
\* box of a form is left out when it is not ticked, and absent means true.
\* (Recreated writes the form's idea of a whole row.)
Recreated(row, name, conf) == [row EXCEPT !.name = name, !.conf = conf, !.handler = "none"]
Edited(row, name, conf) == [row EXCEPT !.name = name, !.conf = conf]

SaveSource(i, name, conf) ==
  /\ \A j \in SourceIds \ {i} : feedRows[j].name # name
  /\ feedRows' = [feedRows EXCEPT ![i] =
       IF Installed(i) THEN [Edited(@, name, conf) EXCEPT !.enabled = TRUE]
       ELSE NewSource(name, conf, "none")]
  /\ off' = off \ {i}
  /\ Upset
  /\ UNCHANGED <<installing, feedRuns, installedAs>> /\ UNCHANGED kept

\* What the page showed the administrator may be out of date.
ToggleSource(i, enabled) ==
  /\ Installed(i)
  /\ feedRows' = [feedRows EXCEPT ![i].enabled = enabled]
  /\ off' = IF enabled THEN off \ {i} ELSE off \cup {i}
  /\ Upset
  /\ UNCHANGED <<installing, feedRuns, installedAs>> /\ UNCHANGED kept
-----------------------------------------------------------------------------
(* What a file is read as.                                                 *)

Places(file) == 1 .. Len(file.lines)
ValuesAt(file, places) == {file.lines[k].value : k \in places}

\* parseCsv: comments are dropped, what is left begins with the header, and a
\* byte order mark does not hide its first cell.  (WithMark leaves it.)
WithMark(file) == file.bom
Hidden(file) == FALSE
CsvRows(file) ==
  LET body == {k \in Places(file) : file.lines[k].is # "comment"}
  IN  IF Hidden(file) THEN {} ELSE {k \in body : \E j \in body : j < k}

\* parseRss: items without a title, or with no web address, are passed over.
RssItems(file) ==
  {k \in Places(file) : file.lines[k].is \notin {"untitled", "no address"}}

\* The lists of ThreatFox, Feodo and OTX; entries without a value are dropped.
JsonEntries(file) == {k \in Places(file) : file.lines[k].is # "empty"}

\* parseIndicator drops what it does not recognize.
Recognized(file, places) == {k \in places : file.lines[k].value # Junk}
Delivered(file) ==
  IF file.handler = "rss-news" THEN RssItems(file)
  ELSE Recognized(file, IF file.handler = "urlhaus" THEN CsvRows(file) ELSE JsonEntries(file))
-----------------------------------------------------------------------------
(* The runs.                                                               *)

\* By the name in the catalogue, or as the row was installed.
HandlerOf(row) ==
  IF row.name \in CatalogNames
  THEN (CHOOSE entry \in ToSet(FeedCatalog) : entry.name = row.name).handler
  ELSE row.handler

\* "Run now" of an administrator, or the schedule.
StartFeed(r, i) ==
  /\ feedRuns[r] = NoFeedRun /\ Installed(i)
  /\ IF HandlerOf(feedRows[i]) = "none"
     THEN feedRows' = [feedRows EXCEPT ![i].status = "skipped"] /\ UNCHANGED feedRuns
     ELSE /\ feedRuns' = [feedRuns EXCEPT ![r] =
               [st |-> "fetch", src |-> i, read |-> feedRows[i], created |-> 0, duped |-> 0,
                told |-> 0]]
          /\ UNCHANGED feedRows
  /\ Upset
  /\ UNCHANGED installing /\ UNCHANGED kept /\ UNCHANGED seenOf

\* What a reader of the file finds in it.
ToldBy(file) ==
  Cardinality({k \in Places(file) : file.lines[k].is = "row" /\ file.lines[k].value # Junk})

\* What is new is created; the rest, repeats within the file included, are
\* duplicates.
FetchFeed(r, file) ==
  /\ feedRuns[r].st = "fetch" /\ file.handler = HandlerOf(feedRuns[r].read)
  /\ LET entries == Delivered(file)
         fresh == ValuesAt(file, entries) \ intel
     IN  /\ intel' = intel \cup fresh
         /\ feedRuns' = [feedRuns EXCEPT
              ![r].st = "settle", ![r].created = Cardinality(fresh),
              ![r].duped = Cardinality(entries) - Cardinality(fresh), ![r].told = ToldBy(file)]
  /\ Calm
  /\ UNCHANGED <<feedRows, installing, yields>> /\ UNCHANGED seenOf

\* OTX without a key is asked nothing, and that is "ok".
NoOtxKey(r) ==
  /\ feedRuns[r].st = "fetch" /\ HandlerOf(feedRuns[r].read) = "otx-pulses"
  /\ feedRuns' = [feedRuns EXCEPT ![r].st = "settle"]
  /\ Calm
  /\ UNCHANGED <<feedRows, installing>> /\ UNCHANGED kept /\ UNCHANGED seenOf

\* The counters are incremented in the database.  (FromRead adds to what the
\* run read at its start.)
FromRead(row, run) ==
  [row EXCEPT !.ingested = run.read.ingested + run.created,
              !.duped = run.read.duped + run.duped]
Tallied(row, run) == [row EXCEPT !.ingested = @ + run.created, !.duped = @ + run.duped]

SettleFeed(r) ==
  /\ feedRuns[r].st = "settle"
  /\ LET run == feedRuns[r]
     IN  /\ feedRows' = [feedRows EXCEPT ![run.src] = [Tallied(@, run) EXCEPT !.status = "ok"]]
         /\ yields' = [yields EXCEPT ![run.src] = @ + run.told]
  /\ feedRuns' = [feedRuns EXCEPT ![r] = NoFeedRun]
  /\ Calm
  /\ UNCHANGED <<installing, intel>> /\ UNCHANGED seenOf

Erred(row) == [row EXCEPT !.status = "error", !.errors = @ + 1]

\* The download fails, what came is no document, or the ingest fails half way.
FeedBreaks(r) ==
  /\ feedRuns[r].st = "fetch"
  /\ LET files == {f \in FeedFiles : f.handler = HandlerOf(feedRuns[r].read)}
     IN  \E part \in {{}} \cup UNION {SUBSET ValuesAt(f, Delivered(f)) : f \in files} :
           intel' = intel \cup part
  /\ feedRows' = [feedRows EXCEPT ![feedRuns[r].src] = Erred(@)]
  /\ feedRuns' = [feedRuns EXCEPT ![r] = NoFeedRun]
  /\ Calm
  /\ UNCHANGED <<installing, yields>> /\ UNCHANGED seenOf

\* The worker stops; what was stored stays.
FeedDies(r) ==
  /\ feedRuns[r] # NoFeedRun
  /\ feedRuns' = [feedRuns EXCEPT ![r] = NoFeedRun]
  /\ Upset
  /\ UNCHANGED <<feedRows, installing>> /\ UNCHANGED kept /\ UNCHANGED seenOf

SourcesNext ==
  \/ BeginInstall \/ InstallNext \/ InstallDies
  \/ \E i \in SourceIds :
       \/ \E name \in OwnNames \cup CatalogNames, conf \in Believed : SaveSource(i, name, conf)
       \/ \E enabled \in BOOLEAN : ToggleSource(i, enabled)
       \/ \E r \in FeedRuns : StartFeed(r, i)
  \/ \E r \in FeedRuns :
       \/ \E file \in FeedFiles : FetchFeed(r, file)
       \/ NoOtxKey(r) \/ SettleFeed(r) \/ FeedBreaks(r) \/ FeedDies(r)
-----------------------------------------------------------------------------
\* "A feed that silently stops returning data is worse than no feed at all":
\* whatever runs overlap or stop, whoever edits the source meanwhile and however its
\* file is dressed, the counters of a source add up to the entries of the
\* files its finished runs brought; a source that was installed keeps its handler under any
\* name of an administrator's; and no install switches a source on again.
SourcesHold ==
  \A i \in SourceIds :
    Installed(i) =>
      /\ feedRows[i].ingested + feedRows[i].duped = yields[i]
      /\ installedAs[i] # "none" /\ feedRows[i].name \in OwnNames =>
           HandlerOf(feedRows[i]) = installedAs[i]
      /\ i \in off => ~feedRows[i].enabled
=============================================================================
