----------------------------- MODULE HuntBuilder -----------------------------
(***************************************************************************)
(* How a hunt comes to be: the rows of src/app/(app)/hunting/              *)
(* hunt-builder.tsx, the validation saveHunt and every later reader of the *)
(* stored query go through (src/lib/hunting/schema.ts), the where clause   *)
(* it compiles to (compile.ts) and the detection queries shown beside it   *)
(* (detections.ts).  The module says what each of them selects among the   *)
(* indicators of a catalogue.                                              *)
(***************************************************************************)
EXTENDS Environment, SequencesExt, FiniteSets

CONSTANTS
  Catalogue,  \* indicators: [type, severity, tlp, confidence, words, tags,
              \* source, techs, tactics, firstSeen, lastSeen, white]
  Offered,    \* the fields this builder's user picks from
  HuntTemplates, \* queries to start from
  MaxRows     \* bound: rows of a builder

VARIABLES
  draft,      \* the builder: [match, rows], or Closed
  savedHunt   \* HuntQuery.query, or None

builderVars == <<draft, savedHunt>>

Closed == [match |-> "closed", rows |-> <<>>]
None == [match |-> "none", rows |-> <<>>]

\* HUNT_FIELDS: the type and the operators of each field.
FieldDef ==
  [type     |-> [is |-> "enum", ops |-> <<"eq", "neq", "in">>],
   severity |-> [is |-> "enum", ops |-> <<"eq", "neq", "in">>],
   tlp      |-> [is |-> "enum", ops |-> <<"eq", "neq", "in">>],
   confidence |-> [is |-> "number", ops |-> <<"gte", "lte", "eq">>],
   value    |-> [is |-> "text", ops |-> <<"contains">>],
   tag      |-> [is |-> "tag", ops |-> <<"has">>],
   source   |-> [is |-> "source", ops |-> <<"eq", "neq">>],
   attackTechnique |-> [is |-> "text", ops |-> <<"eq", "contains">>],
   attackTactic |-> [is |-> "tag", ops |-> <<"has">>],
   firstSeen |-> [is |-> "date", ops |-> <<"after", "before">>],
   lastSeen |-> [is |-> "date", ops |-> <<"after", "before">>]]
HuntFields == DOMAIN FieldDef
HuntOps == {"eq", "neq", "in", "gte", "lte", "contains", "has", "after", "before"}
Ops(f) == {FieldDef[f].ops[k] : k \in 1 .. Len(FieldDef[f].ops)}

\* Two options of each enum stand for all.
EnumOptions == [type |-> <<"DOMAIN", "CVE">>, severity |-> <<"HIGH", "LOW">>,
                tlp |-> <<"RED", "CLEAR">>]
Options(f) == IF f \in DOMAIN EnumOptions THEN EnumOptions[f] ELSE <<>>
OptionSet(f) == {Options(f)[k] : k \in 1 .. Len(Options(f))}

\* What can be typed: a padded word, a word, one in capitals, spaces, nothing.
Texts == {"", "spaces", "x", "padded", "X"}
Trimmed(v) == IF v = "spaces" THEN "" ELSE IF v = "padded" THEN "x" ELSE v
Lower(v) == IF v = "X" THEN "x" ELSE v

\* Number(): nothing counts as zero.  101 is out of range, "half" is not whole.
Numbers == {"", "80", "101", "half"}
NumberOf(v) == IF v = "80" THEN 80 ELSE IF v = "101" THEN 101 ELSE 0
Whole(v) == v # "half"

\* Days have two halves: day d begins at 2 * d.
Days == {"day1", "day2"}
StartOf(v) == IF v = "day1" THEN 2 ELSE 4

\* ValueControl: an option, a source, a number, a day or a text.
Enterable(row) ==
  LET is == FieldDef[row.field].is
  IN  IF is = "enum" THEN OptionSet(row.field) ELSE IF is = "source" THEN {"", "feed"}
      ELSE IF is = "number" THEN Numbers ELSE IF is = "date" THEN Days \cup {""} ELSE Texts

\* A row the controls can make: an operator of its field, and a list of options
\* or one value.
HuntValues == Texts \cup Numbers \cup Days \cup {"feed"} \cup UNION {OptionSet(f) : f \in HuntFields}
RowMade(row) ==
  /\ row.op \in Ops(row.field) /\ (row.many <=> row.op = "in")
  /\ row.many => \A k \in 1 .. Len(row.value) : row.value[k] \in OptionSet(row.field)
  /\ ~row.many => Len(row.value) = 1 /\ row.value[1] \in Enterable(row)
HuntRow ==
  {row \in [field : HuntFields, op : HuntOps, many : BOOLEAN, value : Seq(HuntValues)] :
     RowMade(row)}

\* The templates are made of such rows.
ASSUME BuilderAssumption ==
  /\ Offered \subseteq HuntFields
  /\ \A q \in HuntTemplates : q \in [match : {"all", "any"}, rows : Seq(HuntRow)] /\ q.rows # <<>>
  /\ \A i \in Catalogue : i.firstSeen \in Nat /\ i.lastSeen \in Nat
-----------------------------------------------------------------------------
(* validateHuntQuery.                                                      *)

BadValue(c) ==
  LET is == FieldDef[c.field].is
      v == Trimmed(c.value[1])
  IN  IF c.op = "in"
      THEN c.value = <<>> \/ \E k \in 1 .. Len(c.value) : c.value[k] \notin OptionSet(c.field)
      ELSE \/ is = "enum" /\ v \notin OptionSet(c.field)
           \/ is = "number" /\ (~Whole(v) \/ NumberOf(v) \notin 0 .. 100)
           \/ is = "date" /\ v \notin Days
           \/ is \notin {"enum", "number", "date"} /\ v = ""

BadCondition(c) ==
  c.field \notin HuntFields \/ c.op \notin Ops(c.field) \/ c.many # (c.op = "in") \/ BadValue(c)

\* An array stays as it is, a scalar is trimmed.
Normalized(c) == IF c.many THEN c ELSE [c EXCEPT !.value = <<Trimmed(@[1])>>]

Valid(q) == q.rows # <<>> /\ \A k \in 1 .. Len(q.rows) : ~BadCondition(q.rows[k])
Validated(q) == [q EXCEPT !.rows = [k \in 1 .. Len(q.rows) |-> Normalized(q.rows[k])]]
-----------------------------------------------------------------------------
(* compileWhere.                                                           *)

\* "after" begins with the next day.  (AfterStart begins with the day.)
AfterStart(t, v) == t >= StartOf(v)
AfterDay(t, v) == t >= StartOf(v) + 2

InsensitiveIn(v, names) == \E n \in names : Lower(n) = Lower(v)

\* `not` selects no row whose column is null.
Compiled(c, i) ==
  LET is == FieldDef[c.field].is
      v == c.value[1]
  IN  \/ c.op = "in" /\ \E k \in 1 .. Len(c.value) : i[c.field] = c.value[k]
      \/ is = "enum" /\ c.op = "neq" /\ i[c.field] # v
      \/ is = "enum" /\ c.op = "eq" /\ i[c.field] = v
      \/ is = "number" /\ c.op = "gte" /\ i[c.field] >= NumberOf(v)
      \/ is = "number" /\ c.op = "lte" /\ i[c.field] <= NumberOf(v)
      \/ is = "number" /\ c.op = "eq" /\ i[c.field] = NumberOf(v)
      \/ c.field = "value" /\ Lower(v) \in i.words
      \/ c.field = "tag" /\ v \in i.tags
      \/ c.field = "source" /\ c.op = "neq" /\ i.source \notin {"", v}
      \/ c.field = "source" /\ c.op = "eq" /\ i.source = v
      \/ c.field = "attackTechnique" /\ InsensitiveIn(v, i.techs)
      \/ c.field = "attackTactic" /\ v \in i.tactics
      \/ c.op = "before" /\ i[c.field] < StartOf(v)
      \/ c.op = "after" /\ AfterDay(i[c.field], v)

Combined(q, met) ==
  IF q.match = "any" THEN ToSet(q.rows) \cap met # {} ELSE ToSet(q.rows) \subseteq met

\* No whitelisted row, and nothing at all without a condition.
SelectedBy(q) ==
  {i \in Catalogue : ~i.white /\ q.rows # <<>> /\ Combined(q, {c \in ToSet(q.rows) : Compiled(c, i)})}

\* compileDetectionQuery: whole days from their start, both ends included in
\* Lucene, which does not leave whitelisted rows out either.
Detects(lang, c, i) ==
  \/ c.op = "after" /\ i[c.field] >= StartOf(c.value[1])
  \/ c.op = "before" /\ lang = "lucene" /\ i[c.field] <= StartOf(c.value[1])
  \/ c.op # "after" /\ Compiled(c, i)
DetectedBy(lang, q) ==
  {i \in Catalogue : /\ lang = "lucene" \/ ~i.white
                     /\ q.rows # <<>> /\ Combined(q, {c \in ToSet(q.rows) : Detects(lang, c, i)})}
-----------------------------------------------------------------------------
(* The builder.                                                            *)

DefaultValue(f, o) ==
  IF o = "in" THEN <<>> ELSE IF FieldDef[f].is = "enum" THEN <<Options(f)[1]>> ELSE <<"">>
RowOf(f, o) == [field |-> f, op |-> o, many |-> o = "in", value |-> DefaultValue(f, o)]
BlankRow == RowOf("type", "eq")
Opened(q) == IF q = None THEN [match |-> "all", rows |-> <<BlankRow>>] ELSE q

BuilderInit == draft = Closed /\ savedHunt = None

\* Bound: a hunt that is stored is changed again a few times only.
Editing == IF savedHunt = None THEN Calm ELSE Upset

Rewritten(rows) == draft' = [draft EXCEPT !.rows = rows] /\ Editing /\ UNCHANGED savedHunt

\* The pages to create and to edit; a query that no longer validates opens as
\* one blank row.
OpenBuilder ==
  /\ draft = Closed
  /\ draft' = IF Valid(savedHunt) THEN Validated(savedHunt) ELSE Opened(None)
  /\ Calm
  /\ UNCHANGED savedHunt

AddRow ==
  /\ draft # Closed /\ Len(draft.rows) < MaxRows
  /\ Rewritten(Append(draft.rows, BlankRow))

Without(s, k) == SubSeq(s, 1, k - 1) \o SubSeq(s, k + 1, Len(s))
RemoveRow(k) ==
  /\ Len(draft.rows) > 1
  /\ Rewritten(Without(draft.rows, k))

\* Another field: its first operator and that one's default value.
\* (KeepingOp snaps only the value.)
KeepingOp(row, f) == [RowOf(f, FieldDef[f].ops[1]) EXCEPT !.op = row.op]
Snapped(row, f) == RowOf(f, FieldDef[f].ops[1])

PickField(k, f) ==
  /\ draft.rows[k].field # f
  /\ Rewritten([draft.rows EXCEPT ![k] = Snapped(draft.rows[k], f)])

PickOp(k, o) ==
  /\ o \in Ops(draft.rows[k].field) \ {draft.rows[k].op}
  /\ Rewritten([draft.rows EXCEPT ![k] = RowOf(draft.rows[k].field, o)])

EnterValue(k, v) ==
  /\ ~draft.rows[k].many /\ v \in Enterable(draft.rows[k])
  /\ Rewritten([draft.rows EXCEPT ![k].value = <<v>>])

\* An option stands in the list once.
Toggle(k, v) ==
  /\ draft.rows[k].many /\ v \in OptionSet(draft.rows[k].field)
  /\ LET on == draft.rows[k].value
         at == {j \in 1 .. Len(on) : on[j] = v}
     IN  Rewritten([draft.rows EXCEPT ![k].value =
           IF at = {} THEN Append(on, v) ELSE Without(on, CHOOSE j \in at : TRUE)])

PickMatch(m) ==
  /\ draft # Closed
  /\ draft' = [draft EXCEPT !.match = m]
  /\ Editing
  /\ UNCHANGED savedHunt

\* Only for a new hunt.
ApplyTemplate(q) ==
  /\ draft # Closed /\ savedHunt = None
  /\ draft' = q
  /\ Calm
  /\ UNCHANGED savedHunt

\* saveHunt: errors leave the builder as it is; else the normalized query is
\* stored and the page left.
SubmitHunt ==
  /\ draft # Closed /\ Valid(draft)
  /\ savedHunt' = Validated(draft)
  /\ draft' = Closed
  /\ Calm

BuilderNext ==
  \/ OpenBuilder
  \/ AddRow
  \/ \E k \in 1 .. Len(draft.rows) :
       \/ RemoveRow(k)
       \/ \E f \in Offered : PickField(k, f)
       \/ \E o \in HuntOps : PickOp(k, o)
       \/ \E v \in Enterable(draft.rows[k]) : EnterValue(k, v)
       \/ \E v \in OptionSet(draft.rows[k].field) : Toggle(k, v)
  \/ \E m \in {"all", "any"} : PickMatch(m)
  \/ \E q \in HuntTemplates : ApplyTemplate(q)
  \/ SubmitHunt
-----------------------------------------------------------------------------
Filled(c) ==
  /\ c.value # <<>>
  /\ c.many \/ Trimmed(c.value[1]) # ""
  /\ c.value[1] \notin {"101", "half"}

\* However fields, operators, options and templates were picked, a draft whose
\* rows all have a value in range is one the server accepts: no sequence of
\* picks leaves a row with an operator or a shape its field does not support.
DraftsSubmit ==
  (\A k \in 1 .. Len(draft.rows) : Filled(draft.rows[k])) =>
    draft = Closed \/ Valid(draft)

\* What a row says, of an indicator with a source.
Reads(c, i) ==
  LET v == c.value[1]
      of == i[c.field]
  IN  \/ c.op = "in" /\ of \in ToSet(c.value)
      \/ c.op = "neq" /\ of # v
      \/ c.op = "eq" /\ c.field \notin {"confidence", "attackTechnique"} /\ of = v
      \/ c.op = "before" /\ of \div 2 < StartOf(v) \div 2
      \/ c.op = "after" /\ of \div 2 > StartOf(v) \div 2
      \/ /\ c.op \notin {"in", "neq", "before", "after"}
         /\ c.op = "eq" => c.field \in {"confidence", "attackTechnique"}
         /\ Compiled(c, i)

\* A stored query is what every later reader - the run, the preview, the
\* export and the edit page - validates it to; it selects the indicators its
\* rows say, never a whitelisted one, and each detection query shown beside it
\* finds them too.
SavedHuntsRun ==
  savedHunt # None =>
    /\ Valid(savedHunt) /\ Validated(savedHunt) = savedHunt
    /\ \A i \in Catalogue :
         i.source # "" =>
           ((i \in SelectedBy(savedHunt)) <=>
              (~i.white /\ Combined(savedHunt, {c \in ToSet(savedHunt.rows) : Reads(c, i)})))
    /\ \A lang \in {"kql", "spl", "lucene"} :
         SelectedBy(savedHunt) \subseteq DetectedBy(lang, savedHunt)

\* From the first pick to every later reader of the row: a draft with values
\* is accepted, and what is stored selects what its rows say.
BuiltHuntsWork == DraftsSubmit /\ SavedHuntsRun
=============================================================================
