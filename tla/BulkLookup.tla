----------------------------- MODULE BulkLookup -----------------------------
(***************************************************************************)
(* Lookups an analyst waits for: src/app/(app)/enrichment/bulk/actions.ts  *)
(* takes lines one after the other and asks the chosen providers of each,  *)
(* ../lookup/actions.ts does so for one value and fails where the other    *)
(* lists an error.  Each line is ingested, read back, asked about and read *)
(* back again, while others delete indicators and store answers.  What     *)
(* enrichOne does within a call is module Enrichment's.                    *)
(***************************************************************************)
EXTENDS Environment, FiniteSets, SequencesExt, Places

CONSTANTS
  ValueOf,     \* line -> the value parseIndicator makes of it, or Unrecognized
  TornLines,   \* lines parseBulk takes apart: a URL with a semicolon
  Unrecognized,
  Inputs,      \* sequences of lines that are submitted
  Panels,      \* sequences of providers that are chosen
  Supported,   \* <<provider, value>>: what a provider is configured for
  KnownGood,   \* whitelisted values
  BulkMax      \* lines of a submission (200)

LookupValues == {ValueOf[l] : l \in DOMAIN ValueOf} \ {Unrecognized}
Panel == UNION {ToSet(ps) : ps \in Panels}

\* The schema of a submission: a line and a provider at least.
ASSUME BulkAssumption ==
  /\ \A lines \in Inputs : lines \in Seq(DOMAIN ValueOf) /\ lines # <<>>
  /\ \A panel \in Panels : panel \in Seq(Panel) /\ panel # <<>>
  /\ BulkMax \in Nat \ {0}

VARIABLES
  lookup,   \* the action in progress and the result it is building
  held,     \* indicators that are stored
  answers   \* Enrichment rows: [st, verdict]

bulkVars == <<lookup, held, answers>>

NoAnswerYet == [st |-> "none", verdict |-> "null"]
NoLookup == [st |-> "idle", single |-> FALSE, lines |-> <<>>, panel |-> <<>>, k |-> 1,
             outcomes |-> <<>>, status |-> "none", told |-> "null", rows |-> <<>>, truncated |-> FALSE,
             calm |-> TRUE]

BulkInit ==
  /\ lookup = NoLookup
  /\ held = {}
  /\ answers = [v \in LookupValues |-> [p \in Panel |-> NoAnswerYet]]

Line == lookup.lines[lookup.k]
Value == ValueOf[Line]
Provider == lookup.panel[Len(lookup.outcomes) + 1]
AllAsked == Len(lookup.outcomes) = Len(lookup.panel)

\* Array.from(new Set(...)): the first of equal lines.
Distinct(lines) ==
  Picked(lines, {k \in 1 .. Len(lines) : \A j \in 1 .. k - 1 : lines[j] # lines[k]})
Capped(lines) == SubSeq(lines, 1, IF Len(lines) > BulkMax THEN BulkMax ELSE Len(lines))
-----------------------------------------------------------------------------
SubmitLookup(lines, panel, single) ==
  /\ lookup.st \in {"idle", "done", "failed"}
  /\ single => Len(lines) = 1
  /\ lookup' = [NoLookup EXCEPT !.st = "line", !.single = single,
                !.lines = Capped(Distinct(lines)), !.panel = panel,
                !.truncated = Len(Distinct(lines)) > BulkMax]
  /\ Upset
  /\ UNCHANGED <<held, answers>>

\* What a line comes to is added to the rows; a single lookup fails instead of
\* listing an error.  (KeepingOutcomes starts no list for the next line.)
KeepingOutcomes(status, outcomes) ==
  IF lookup.single /\ status # "ok" THEN [lookup EXCEPT !.st = "failed"]
  ELSE [lookup EXCEPT
         !.rows = Append(@, [line |-> Line, status |-> status, outcomes |-> outcomes]),
         !.k = @ + 1, !.st = "line"]
RowAdded(status, outcomes) ==
  IF lookup.single /\ status # "ok" THEN [lookup EXCEPT !.st = "failed"]
  ELSE [lookup EXCEPT
         !.rows = Append(@, [line |-> Line, status |-> status, outcomes |-> outcomes]),
         !.k = @ + 1, !.outcomes = <<>>, !.st = "line"]

NextLine ==
  /\ lookup.st = "line" /\ lookup.k <= Len(lookup.lines)
  /\ IF Value = Unrecognized
     THEN lookup' = RowAdded("unrecognized", <<>>) /\ UNCHANGED held
     ELSE /\ lookup' = [lookup EXCEPT !.st = "find"]
          /\ held' = IF Line \in TornLines THEN held ELSE held \cup {Value}
  /\ Calm
  /\ UNCHANGED answers

FindIndicator ==
  /\ lookup.st = "find"
  /\ lookup' = IF Value \in held THEN [lookup EXCEPT !.st = "ask"]
               ELSE RowAdded("not_stored", <<>>)
  /\ Calm
  /\ UNCHANGED <<held, answers>>

\* enrichOne.  (AlwaysCalls skips the cache.)
AlwaysCalls(v, p) ==
  IF v \notin held \/ <<p, v>> \notin Supported \/ v \in KnownGood THEN {"skipped"}
  ELSE {"rate_limited", "error", "fetched"}
StatusesOf(v, p) ==
  IF v \notin held \/ <<p, v>> \notin Supported \/ v \in KnownGood THEN {"skipped"}
  ELSE IF answers[v][p].st = "fresh" THEN {"cached"}
  ELSE {"rate_limited", "error", "fetched"}

\* A failure is stored too, for an hour, and leaves the verdict there was.
StoredAs(v, p, status, verdict) ==
  IF status \in {"fetched", "error"}
  THEN [answers EXCEPT ![v][p] =
          [st |-> "fresh", verdict |-> IF status = "fetched" THEN verdict ELSE @.verdict]]
  ELSE answers

AskProvider ==
  /\ lookup.st = "ask" /\ ~AllAsked
  /\ \E status \in StatusesOf(Value, Provider), verdict \in {"MALICIOUS", "BENIGN"} :
       /\ answers' = StoredAs(Value, Provider, status, verdict)
       /\ lookup' =
            IF status \in {"fetched", "cached"}
            THEN [lookup EXCEPT !.st = "read", !.status = status,
                                !.told = IF status = "fetched" THEN verdict ELSE "null"]
            ELSE [lookup EXCEPT
                   !.outcomes = Append(@, [status |-> status, verdict |-> "null"])]
  /\ Calm
  /\ UNCHANGED held

\* The row is read again: it has the verdict, and the raw answer for the
\* details.  A single lookup falls back on the verdict it was told.
ShownVerdict(row) == IF lookup.single /\ row.verdict = "null" THEN lookup.told ELSE row.verdict
ReadBack ==
  /\ lookup.st = "read"
  /\ lookup' = [lookup EXCEPT
       !.st = "ask", !.told = "null",
       !.outcomes = Append(@, [status |-> lookup.status,
                               verdict |-> ShownVerdict(answers[Value][Provider])])]
  /\ Calm
  /\ UNCHANGED <<held, answers>>

EndLine ==
  /\ lookup.st = "ask" /\ AllAsked
  /\ lookup' = RowAdded("ok", lookup.outcomes)
  /\ Calm
  /\ UNCHANGED <<held, answers>>

\* The audit entry, and the result.
AnswerLookup ==
  /\ lookup.st = "line" /\ lookup.k > Len(lookup.lines)
  /\ lookup' = [lookup EXCEPT !.st = "done"]
  /\ Calm
  /\ UNCHANGED <<held, answers>>

\* A statement is rejected: withAction says that something went wrong.
LookupBreaks ==
  /\ lookup.st \in {"line", "find", "ask", "read"}
  /\ lookup' = [lookup EXCEPT !.st = "failed"]
  /\ Upset
  /\ UNCHANGED <<held, answers>>

\* Others: an indicator is deleted with its rows; a row expires or is written.
Disturbed == lookup' = [lookup EXCEPT !.calm = FALSE] /\ Upset
DeleteHeld(v) ==
  /\ v \in held
  /\ held' = held \ {v}
  /\ answers' = [answers EXCEPT ![v] = [p \in Panel |-> NoAnswerYet]]
  /\ Disturbed
OtherAnswer(v, p, row) ==
  /\ v \in held /\ row # answers[v][p]
  /\ answers' = [answers EXCEPT ![v][p] = row]
  /\ Disturbed
  /\ UNCHANGED held

BulkNext ==
  \/ \E lines \in Inputs, panel \in Panels, single \in BOOLEAN :
       SubmitLookup(lines, panel, single)
  \/ NextLine \/ FindIndicator \/ AskProvider \/ ReadBack \/ EndLine \/ AnswerLookup
  \/ LookupBreaks
  \/ \E v \in LookupValues :
       \/ DeleteHeld(v)
       \/ \E p \in Panel : \E row \in {NoAnswerYet, [st |-> "expired", verdict |-> "BENIGN"]} :
            OtherAnswer(v, p, row)
-----------------------------------------------------------------------------
(* The tables of bulk-form.tsx: a provider has columns when some row has   *)
(* an outcome of it; a status stands where there is no verdict.            *)

UsedProviders ==
  {k \in 1 .. Len(lookup.panel) :
     \E n \in 1 .. Len(lookup.rows) : Len(lookup.rows[n].outcomes) >= k}
Cell(row, k) ==
  IF Len(row.outcomes) < k THEN "blank"
  ELSE IF row.outcomes[k].status \in {"fetched", "cached"} THEN row.outcomes[k].verdict
  ELSE row.outcomes[k].status

\* A lookup that ended has a row for each line it took, in their order: an
\* error, or an outcome of each provider in theirs; a whitelisted value was
\* asked of nobody.
LookupAnswered ==
  lookup.st = "done" =>
    /\ Len(lookup.rows) = Len(lookup.lines)
    /\ \A n \in 1 .. Len(lookup.rows) :
         LET row == lookup.rows[n] IN
         /\ row.line = lookup.lines[n]
         /\ row.status = "ok" <=> Len(row.outcomes) = Len(lookup.panel)
         /\ row.status = "ok" /\ ValueOf[row.line] \in KnownGood =>
              \A k \in 1 .. Len(row.outcomes) : Cell(row, k) = "skipped"
    /\ lookup.calm => UsedProviders = 1 .. Len(lookup.panel)
         \/ \A n \in 1 .. Len(lookup.rows) : lookup.rows[n].status # "ok"

\* However a submission spells a value and however often, a provider is paid
\* for it once, and its lines then show the one verdict, unless somebody
\* disturbs the rows meanwhile.
PaidOnce ==
  lookup.calm =>
    \A m, n \in 1 .. Len(lookup.rows) :
      m < n /\ ValueOf[lookup.rows[m].line] = ValueOf[lookup.rows[n].line] =>
        \A k \in 1 .. Len(lookup.panel) :
          Cell(lookup.rows[m], k) \in {"MALICIOUS", "BENIGN"} =>
            /\ lookup.rows[n].outcomes # <<>> => lookup.rows[n].outcomes[k].status = "cached"
            /\ Cell(lookup.rows[n], k) \in {Cell(lookup.rows[m], k), "blank"}

\* A lookup answers for every line, and pays for every value once.
LookupsAddUp == LookupAnswered /\ PaidOnce
=============================================================================
