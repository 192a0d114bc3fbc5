----------------------------- MODULE ImportForm -----------------------------
(***************************************************************************)
(* Pasting indicators: the form of src/app/(app)/indicators/import/        *)
(* import-form.tsx, whose preview is extracted in the browser              *)
(* (src/lib/ioc/extract.ts) a moment after the text changes, and the       *)
(* server's own reading of the same text (src/lib/ioc/normalize.ts,        *)
(* ingest.ts, whitelist.ts).  A paste is [lines, long], long when its      *)
(* lines average over 120 characters, a line [comment, sep, values], and a *)
(* value as written [type, id, class, host, marks].  A "WORD" is told by   *)
(* neither reading.  The marks say how the spelling differs from the plain *)
(* one: "defanged"; upper "case", which is "path" in a URL's path; a final *)
(* "dot"; a "fragment"; a "slash" as only one reading folds it (a bare one *)
(* or a default port of a URL, a forward one in a registry key); another   *)
(* "form" that both keep apart (IPv6 written out, mail to an IDN host);    *)
(* "unseen", which the browser's patterns miss (HKCU\, HKCR\, HKCC\ and    *)
(* hives in lower case, numbers of more than ten digits after AS);         *)
(* "untold", which the server's miss (HKL\, bc1 in upper case, or shorter  *)
(* or longer than it expects).                                             *)
(***************************************************************************)
EXTENDS Environment, FiniteSets, SequencesExt, Places

CONSTANT Pastes  \* texts an analyst pastes

VARIABLES
  paste,      \* the text area
  previewOf,  \* the debounced text the preview is extracted from
  inFlight,   \* [text, seen, announced]: what was submitted, or Unsent
  answer,     \* the report last returned, or NoAnswer
  observables \* rows of indicators: [key, white]

importFormVars == <<paste, previewOf, inFlight, answer, observables>>

Empty == [lines |-> <<>>, long |-> FALSE]
Unsent == [text |-> Empty, seen |-> Empty, announced |-> 0]
NoAnswer == [text |-> Empty, seen |-> Empty, announced |-> 0, created |-> 0, updated |-> 0,
             duplicates |-> 0, whitelisted |-> 0, unparsed |-> <<>>, total |-> 0]

Elements(s) == ToSet(s)
Found(text) == UNION {Elements(text.lines[k].values) : k \in 1 .. Len(text.lines)}

\* What is told of a line by its first value, or by one anywhere in it.
ReadWhole(line) ==
  \/ line.values[1].type \in {"URL", "REGISTRY_KEY", "USER_AGENT"}
  \/ \E w \in Elements(line.values) : w.type = "MUTEX"

\* A line has a value, and what a value is says its class and host.  A line
\* that is not split is not told as a whole.
ASSUME PasteAssumption ==
  /\ \A text \in Pastes : /\ text.lines \in Seq(Elements(text.lines))
                         /\ \A w \in Found(text) : w.type # "none"
  /\ \A text \in Pastes : \A line \in Elements(text.lines) :
       /\ line.values \in Seq(Elements(line.values)) /\ line.values # <<>>
       /\ Len(line.values) > 1 /\ ReadWhole(line) => line.sep \in {"tab", "comma"}
  /\ \A text, other \in Pastes : \A w \in Found(text), v \in Found(other) :
       w.type = v.type /\ w.id = v.id => w.class = v.class /\ w.host = v.host

Wordless == {"MUTEX", "USER_AGENT", "FILENAME", "WORD"}
-----------------------------------------------------------------------------
(* The server's reading.                                                   *)

Refanged(w) == w.marks \ {"defanged"}

\* detectType knows no type for mutexes, agents and file names, and none for
\* a final dot except after a domain, a URL's host or a registry key.
DetectType(w) ==
  IF \/ w.type \in Wordless
     \/ "untold" \in w.marks
     \/ "dot" \in w.marks /\ w.type \notin {"DOMAIN", "URL", "REGISTRY_KEY"}
  THEN "none" ELSE w.type

\* What normalize does not fold: the case of a path, of an address of coins and
\* of a registry key, whose hive and final dot stay as they are too; and the
\* forms of one IPv6 address, of one mail host and of one AS number.
\* (CaseKept lowers no domain.)
Significant(type) ==
  CASE type = "URL" -> {"path"}
    [] type = "BTC_ADDRESS" -> {"case"}
    [] type = "REGISTRY_KEY" -> {"case", "unseen", "dot"}
    [] type \in {"IPV6", "EMAIL"} -> {"form"}
    [] type = "ASN" -> {"unseen"}
    [] OTHER -> {}
CaseKept(w) ==
  [type |-> w.type, id |-> w.id, class |-> w.class, host |-> w.host,
   marks |-> Refanged(w) \cap (Significant(w.type) \cup {"case"})]
Normalize(w) ==
  [type |-> w.type, id |-> w.id, class |-> w.class, host |-> w.host,
   marks |-> Refanged(w) \cap Significant(w.type)]

\* What is not split reads as one value that is no indicator.
Unsplit(line) ==
  [type |-> "WORD", id |-> line.values[1].id, class |-> "line", host |-> "", marks |-> {}]

\* Tabs, semicolons, two spaces and a comma before a space separate values;
\* a single space does not.
SplitAt(line, separators) ==
  IF Len(line.values) = 1 \/ line.sep \in separators THEN line.values ELSE <<Unsplit(line)>>
Tokens(text, separators) ==
  FlattenSeq([k \in 1 .. Len(text.lines) |->
    IF text.lines[k].comment THEN <<>> ELSE SplitAt(text.lines[k], separators)])
Pieces(text) == Tokens(text, {"tab", "semicolon", "spaces", "comma"})

ParsedKeys(text) ==
  {Normalize(w) : w \in {v \in Elements(Pieces(text)) : DetectType(v) # "none"}}
Unparsed(text) ==
  LET pieces == Pieces(text)
  IN  Picked(pieces, {k \in DOMAIN pieces : DetectType(pieces[k]) = "none"})

\* whitelistReason, by what the value is: reserved space, a public resolver, a
\* domain of the infrastructure or below one, an internal name, an empty file.
WhitelistReason(key) ==
  CASE key.type = "IPV4" -> key.class \in {"reserved", "resolver"}
    [] key.type = "IPV6" -> key.class = "reserved"
    [] key.type = "DOMAIN" -> key.class \in {"infrastructure", "internal"}
    [] key.type = "URL" -> key.class = "infrastructure"
    [] key.type \in {"MD5", "SHA1", "SHA256"} -> key.class = "empty"
    [] OTHER -> FALSE

\* parseBulk counts a piece whose key it has seen.
DuplicatesIn(text) ==
  LET pieces == Pieces(text)
      told == {k \in DOMAIN pieces : DetectType(pieces[k]) # "none"}
  IN  Cardinality({k \in told : \E j \in told :
                     j < k /\ Normalize(pieces[j]) = Normalize(pieces[k])})

\* ingestText: parse, look up, insert what is missing.

Report(sent) ==
  LET text == sent.text
      keys == ParsedKeys(text)
      fresh == {k \in keys : \A r \in observables : r.key # k}
  IN  [text |-> text, seen |-> sent.seen, announced |-> sent.announced,
       created |-> Cardinality(fresh), updated |-> Cardinality(keys \ fresh),
       duplicates |-> DuplicatesIn(text), whitelisted |-> Cardinality({k \in fresh : WhitelistReason(k)}),
       unparsed |-> Unparsed(text), total |-> Cardinality(keys)]
-----------------------------------------------------------------------------
(* The browser's reading.                                                  *)

\* classifyLine: a final dot is dropped with the brackets, mutexes and agents
\* are told, but for those of a tool such as curl, and a URL is lowered as a
\* whole.
Verbatim == {"REGISTRY_KEY", "MUTEX", "USER_AGENT"}
Patterned(w) == w.type \notin {"FILENAME", "WORD"} /\ "unseen" \notin w.marks

ShownMarks(type) ==
  CASE type = "URL" -> {"fragment", "slash"}
    [] type = "BTC_ADDRESS" -> {"case", "untold"}
    [] type \in Verbatim -> {"case", "slash", "untold"}
    [] type \in {"IPV6", "EMAIL"} -> {"form"}
    [] OTHER -> {}
ShownWith(w, marks) ==
  [type |-> w.type, id |-> w.id, class |-> w.class, host |-> w.host,
   marks |-> w.marks \cap marks]

ClassifyLine(w) == ShownWith(w, ShownMarks(w.type))
InLines(text) ==
  {ClassifyLine(w) : w \in {v \in Elements(Tokens(text, {"tab", "comma"})) :
                              Patterned(v) /\ ~(v.type = "USER_AGENT" /\ v.class = "tool")}}

\* extractFromProse looks in comments too; it skips reserved addresses, an
\* address of mail with brackets, and domains found within something else.  It
\* folds a URL's bare slash and leaves keys, mutexes and agents as they stand.
ProseMarks(type) ==
  CASE type = "URL" -> {"fragment"}
    [] type \in Verbatim -> ShownMarks(type) \cup {"dot", "defanged"}
    [] OTHER -> ShownMarks(type)
InProse(text) ==
  LET told == {w \in Found(text) :
                 /\ Patterned(w) /\ w.type \notin {"IPV6", "DOMAIN"}
                 /\ w.type = "EMAIL" => "defanged" \notin w.marks
                 /\ w.type = "IPV4" => w.class # "reserved"}
      domains == {w \in Found(text) : /\ w.type = "DOMAIN" /\ w.class # "noise"
                                      /\ \A t \in told : t.host # w.id}
  IN  {ShownWith(w, ProseMarks(w.type)) : w \in told \cup domains}

IsProse(text) ==
  text.long \/ Cardinality({k \in 1 .. Len(text.lines) : ~text.lines[k].comment}) < 5
ExtractIocs(text) == IF IsProse(text) THEN InProse(text) ELSE InLines(text)
-----------------------------------------------------------------------------
ImportFormInit ==
  /\ paste = Empty /\ previewOf = Empty
  /\ inFlight = Unsent /\ answer = NoAnswer
  /\ observables = {}

\* Bound: the text is replaced a few times.
Paste(text) ==
  /\ text # paste
  /\ paste' = text
  /\ Upset
  /\ UNCHANGED <<previewOf, inFlight, answer, observables>>

\* useDebounce: 300 ms without a change.
Debounced ==
  /\ previewOf # paste
  /\ previewOf' = paste
  /\ Calm
  /\ UNCHANGED <<paste, inFlight, answer, observables>>

\* The button names the number of the preview; what is sent is the text.
Submit ==
  /\ inFlight = Unsent /\ paste # Empty
  /\ inFlight' = [text |-> paste, seen |-> previewOf,
                  announced |-> Cardinality(ExtractIocs(previewOf))]
  /\ Calm
  /\ UNCHANGED <<paste, previewOf, answer, observables>>

\* bulkIngest.
Ingested ==
  /\ inFlight # Unsent
  /\ answer' = Report(inFlight)
  /\ observables' = observables \cup
       {[key |-> k, white |-> WhitelistReason(k)] :
          k \in {n \in ParsedKeys(inFlight.text) : \A r \in observables : r.key # n}}
  /\ inFlight' = Unsent
  /\ Calm
  /\ UNCHANGED <<paste, previewOf>>

ImportFormNext ==
  \/ \E text \in Pastes : Paste(text)
  \/ Debounced
  \/ Submit
  \/ Ingested

\* ImportReport is shown when something was parsed.
ReportShown == answer.total > 0
-----------------------------------------------------------------------------
SameObservable(w, v) ==
  /\ w.type = v.type /\ w.id = v.id
  /\ w.marks \cap Significant(w.type) = v.marks \cap Significant(w.type)

\* Whatever is pasted after whatever, with the preview behind or not: each
\* value of the text that was sent is a row or is returned as unparsed, the
\* counts of the report add up to the pieces of the text, and an observable
\* has one row for all the spellings normalize means to fold ("Getting this
\* wrong silently splits one indicator into several rows"); those it says it
\* leaves apart are Significant.
EveryValueAccounted ==
  /\ \A w \in Elements(Pieces(answer.text)) :
       \/ \E r \in observables : SameObservable(r.key, w)
       \/ w \in Elements(answer.unparsed)
  /\ answer.created + answer.updated + answer.duplicates + Len(answer.unparsed) =
       Len(Pieces(answer.text))
  /\ \A r, s \in observables : SameObservable(r.key, s.key) => r = s

\* A list both readings split, of values both can tell and spell alike: no
\* hive or address that only one of them knows, no dot, path or slash.
Plain(text) ==
  /\ ~IsProse(text)
  /\ \A k \in 1 .. Len(text.lines) : text.lines[k].sep \notin {"semicolon", "spaces"}
  /\ \A w \in Elements(Pieces(text)) :
       w.type \notin Wordless /\ w.marks \subseteq {"defanged", "case", "form"}

\* The number on the button is the number of indicators then stored, for a
\* list that is submitted once its preview has caught up.
AnnouncedAsStored ==
  answer.seen = answer.text /\ Plain(answer.text) => answer.announced = answer.total

\* A paste comes out as it went in: nothing in it is lost or stored twice, and
\* the preview did not promise otherwise.
PastesAddUp == EveryValueAccounted /\ AnnouncedAsStored
=============================================================================
