------------------------------ MODULE Exports ------------------------------
(***************************************************************************)
(* Indicator exports: the formats of src/lib/export/formats.ts, written at *)
(* once (the export routes of the indicators and the hunts) or streamed in *)
(* batches (GET /api/v1/indicators).  A stream counts the rows, then pages *)
(* through them by offset, newest lastSeen first, one query per batch,     *)
(* while feeds touch, insert and remove rows.                              *)
(***************************************************************************)
EXTENDS Environment, FiniteSets, SequencesExt, Places

CONSTANTS
  Shelf,      \* indicators
  KindOf,     \* their types
  Malformed,  \* those whose value holds a tab or a line break
  ExportCap,  \* rows of an export at most (50,000)
  BatchSize,  \* rows of a batch (1,000)
  FirstSeen   \* lastSeen of the rows at first; Gone is not there

ASSUME ExportAssumption ==
  /\ IsFiniteSet(Shelf) /\ FirstSeen \in [Shelf -> Int]
  /\ ExportCap \in Nat \ {0} /\ BatchSize \in Nat \ {0}

VARIABLES
  shelf,    \* lastSeen of the rows the export's filters select, or Gone
  stream,   \* the streamed export
  stirred   \* history: rows came, moved or left since the stream's count

exportVars == <<shelf, stream, stirred>>

Formats == {"csv", "stix", "misp", "snort", "zeek"}
Json == {"stix", "misp"}
Omitted == "omitted"
Hashes == {"MD5", "SHA1", "SHA256"}
Addresses == {"IPV4", "IPV6"}

\* stixPattern: CVEs, user agents and addresses of coins have no observable.
StixObject(kind) ==
  CASE kind \in Addresses -> "addr"
    [] kind \in Hashes \cup {"FILENAME"} -> "file"
    [] kind \in {"CVE", "USER_AGENT", "BTC_ADDRESS"} -> Omitted
    [] OTHER -> kind

\* MISP_ATTRIBUTE_TYPE: every type has one.
MispAttribute(kind) == IF kind \in Addresses THEN "ip-dst" ELSE kind

\* snortRule: network observables only.
SnortRule(kind) ==
  CASE kind \in Addresses -> "ip" [] kind = "DOMAIN" -> "dns"
    [] kind = "URL" -> "http"     [] OTHER -> Omitted

\* zeekIntelType.
ZeekIntel(kind) ==
  CASE kind \in Addresses -> "ADDR" [] kind \in Hashes -> "FILE_HASH"
    [] kind \in {"DOMAIN", "URL", "EMAIL"} -> kind
    [] kind = "FILENAME" -> "FILE_NAME" [] OTHER -> Omitted

Becomes(f, i) ==
  CASE f = "csv" -> KindOf[i]
    [] f = "stix" -> StixObject(KindOf[i])
    [] f = "misp" -> MispAttribute(KindOf[i])
    [] f = "snort" -> SnortRule(KindOf[i])
    [] f = "zeek" -> IF i \in Malformed THEN Omitted ELSE ZeekIntel(KindOf[i])
-----------------------------------------------------------------------------
(* A file is a sequence of elements and what stands around and between.    *)

Element(f, i, sid) ==
  [row |-> i, as |-> Becomes(f, i), sid |-> IF f = "snort" THEN sid ELSE 0]

\* exportHeader: the snort, STIX and MISP headers say or hash the count.
Header(f, n) == <<[head |-> f, n |-> IF f \in {"csv", "zeek"} THEN 0 ELSE n]>>

\* exportFooter: what snort left out, or the brackets.
Footer(f, skipped) ==
  IF f \in Json THEN <<"close">>
  ELSE IF f = "snort" /\ skipped # <<>> THEN <<[left |-> skipped]>> ELSE <<>>

\* The rows that become something, and the others.
Becoming(f, rows) == {k \in DOMAIN rows : Becomes(f, rows[k]) # Omitted}
Written(f, rows) ==
  LET kept == Picked(rows, Becoming(f, rows))
  IN  [k \in 1 .. Len(kept) |-> Element(f, kept[k], k)]
LeftOut(f, rows) == Picked(rows, DOMAIN rows \ Becoming(f, rows))

\* Elements of an array.
Comma == ","
InArray(elements) ==
  IF elements = <<>> THEN <<>>
  ELSE [k \in 1 .. 2 * Len(elements) - 1 |->
          IF k % 2 = 1 THEN elements[(k + 1) \div 2] ELSE Comma]

\* The whole file at once: n is the number of rows (indicators.length), unless
\* it is compared with a stream, whose header states the count of before.
ToCsv(rows, n) == Header("csv", n) \o Written("csv", rows)
ToStixBundle(rows, n) ==
  Header("stix", n) \o InArray(Written("stix", rows)) \o Footer("stix", <<>>)
ToMispEvent(rows, n) ==
  Header("misp", n) \o InArray(Written("misp", rows)) \o Footer("misp", <<>>)
ToSnortRules(rows, n) ==
  Header("snort", n) \o Written("snort", rows) \o Footer("snort", LeftOut("snort", rows))
ToZeekIntel(rows, n) == Header("zeek", n) \o Written("zeek", rows)

FormatExport(f, rows, n) ==
  IF f = "csv" THEN ToCsv(rows, n)
  ELSE IF f = "stix" THEN ToStixBundle(rows, n)
  ELSE IF f = "misp" THEN ToMispEvent(rows, n)
  ELSE IF f = "snort" THEN ToSnortRules(rows, n) ELSE ToZeekIntel(rows, n)

\* createExportState.
ExportState == [hasEmitted |-> FALSE, snortSid |-> 1, snortSkipped |-> <<>>]

\* Whether a comma goes before the next element: after an element, not after
\* a row.  (AfterRow forgets that a batch may emit nothing.)
AfterRow(f, i) == f \in Json
Emits(f, i) == f \in Json /\ Becomes(f, i) # Omitted

\* exportBatch, row by row, with the state it threads through.
ExportRow(f, so, i) ==
  LET s == so.state
      omitted == Becomes(f, i) = Omitted
      next == [hasEmitted |-> s.hasEmitted \/ Emits(f, i),
               snortSid |-> IF omitted THEN s.snortSid ELSE s.snortSid + 1,
               snortSkipped |-> IF omitted THEN Append(s.snortSkipped, i)
                                ELSE s.snortSkipped]
      comma == IF s.hasEmitted /\ ~omitted THEN <<Comma>> ELSE <<>>
      element == IF omitted THEN <<>> ELSE <<Element(f, i, s.snortSid)>>
  IN  [state |-> next, text |-> so.text \o comma \o element]

ExportBatch(f, rows, state) ==
  LET so[n \in 0 .. Len(rows)] ==
        IF n = 0 THEN [state |-> state, text |-> <<>>] ELSE ExportRow(f, so[n - 1], rows[n])
  IN  so[Len(rows)]
-----------------------------------------------------------------------------
(* The streamed export.                                                    *)

NoStream == [st |-> "none"]
Gone == -1000
Selected == {i \in Shelf : shelf[i] # Gone}
Least(n, m) == IF n < m THEN n ELSE m

\* The orders a query by lastSeen may return: equal ones as they come.
Orders == {s \in SetToSeqs(Selected) :
             \A j, k \in 1 .. Len(s) : j < k => shelf[s[j]] >= shelf[s[k]]}

ExportInit ==
  /\ shelf = FirstSeen
  /\ stream = NoStream
  /\ stirred = FALSE

\* The count, and the header.
OpenStream(f) ==
  /\ stream = NoStream
  /\ LET capped == Least(Cardinality(Selected), ExportCap)
     IN  stream' = [st |-> "open", f |-> f, capped |-> capped, skip |-> 0,
                    state |-> ExportState, file |-> Header(f, capped), sent |-> <<>>,
                    first |-> shelf]
  /\ stirred' = FALSE
  /\ Calm
  /\ UNCHANGED shelf

\* How many rows the next query takes.  (FullBatch forgets the cap.)
FullBatch(s) == BatchSize
TakeOf(s) == Least(BatchSize, s.capped - s.skip)

\* findMany with skip and take, and its rows' text; an empty page ends it.
SendBatch ==
  /\ stream.st = "open" /\ stream.skip < stream.capped
  /\ \E order \in Orders :
       LET rows == SubSeq(order, stream.skip + 1,
                          Least(Len(order), stream.skip + TakeOf(stream)))
           out == ExportBatch(stream.f, rows, stream.state)
       IN  stream' = IF rows = <<>> THEN [stream EXCEPT !.st = "closing"]
                     ELSE [stream EXCEPT !.skip = @ + Len(rows), !.state = out.state,
                             !.file = @ \o out.text, !.sent = @ \o rows]
  /\ Calm
  /\ UNCHANGED <<shelf, stirred>>

\* The footer.
CloseStream ==
  /\ \/ stream.st = "closing"
     \/ stream.st = "open" /\ stream.skip >= stream.capped
  /\ stream' = [stream EXCEPT !.st = "done",
                  !.file = @ \o Footer(stream.f, stream.state.snortSkipped)]
  /\ Calm
  /\ UNCHANGED <<shelf, stirred>>

\* A query fails: the reader sees the stream break off.
BreakStream ==
  /\ stream.st \in {"open", "closing"}
  /\ stream' = [st |-> "broken"]
  /\ Upset
  /\ UNCHANGED <<shelf, stirred>>

\* An ingest inserts or touches a row.
SeeAgain(i) ==
  /\ shelf' = [shelf EXCEPT ![i] = clock]
  /\ shelf' # shelf
  /\ stirred' = TRUE
  /\ Upset
  /\ UNCHANGED stream

\* A row is deleted or whitelisted, or the filters select it no more.
LeaveShelf(i) ==
  /\ shelf[i] # Gone
  /\ shelf' = [shelf EXCEPT ![i] = Gone]
  /\ stirred' = TRUE
  /\ Upset
  /\ UNCHANGED stream

ExportNext ==
  \/ \E f \in Formats : OpenStream(f)
  \/ SendBatch
  \/ CloseStream
  \/ BreakStream
  \/ \E i \in Shelf : SeeAgain(i) \/ LeaveShelf(i)
-----------------------------------------------------------------------------
\* A streamed file is what formatting its rows at once gives, however they
\* fell into batches and whatever came in between: commas, SIDs and the list
\* of what was left out ("hasEmitted ... must not leave a dangling comma").
StreamedAsWhole ==
  stream.st = "done" =>
    stream.file = FormatExport(stream.f, stream.sent, stream.capped)

\* Paging by offset sends the newest rows up to the cap, each once and in
\* order, if no row came, moved or left between the count and the last batch
\* and no two were seen at the same instant.  (Otherwise it may repeat rows
\* and miss others.)
PagedOnce ==
  LET first == stream.first
      rows == {i \in Shelf : first[i] # Gone}
      newer(i) == {j \in rows : first[j] > first[i]}
  IN  /\ stream.st = "done" /\ ~stirred
      /\ \A i, j \in rows : i # j => first[i] # first[j]
      => /\ ToSet(stream.sent) = {i \in rows : Cardinality(newer(i)) < ExportCap}
         /\ \A k \in 1 .. Len(stream.sent) : Cardinality(newer(stream.sent[k])) = k - 1

\* What leaves by a streamed export: one file, and the rows that were there.
ExportsHold == StreamedAsWhole /\ PagedOnce
=============================================================================
