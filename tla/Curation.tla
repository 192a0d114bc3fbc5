------------------------------ MODULE Curation ------------------------------
(***************************************************************************)
(* The analysts' edits of actors, campaigns and reports: the actions of    *)
(* src/app/(app)/{actors,campaigns,reports}/actions.ts under withAction    *)
(* (src/lib/actions.ts).  A save reads the row, updates all of its columns *)
(* and records the difference in the audit log; a deletion reads and then  *)
(* deletes; a link is one upsert.  Nothing keeps two actions apart, and a  *)
(* rejected statement ends the action with an error message.               *)
(***************************************************************************)
EXTENDS Environment, FiniteSets

CONSTANTS
  Records,     \* rows: actors, campaigns or reports
  Slugs,       \* what slugify makes of their names; unique
  Edits,       \* actions in progress
  Techniques,  \* ATT&CK techniques a record may be linked to
  MaxWrites    \* bound: writes of records

ASSUME CurationAssumption == MaxWrites \in Nat

VARIABLES
  records,    \* the rows
  writes,     \* how many writes there were: a row's version is its write
  edits,      \* the actions in progress
  trail,      \* AuditLog: from and to which version an entry leads
  contested,  \* history: rows two actions handled at the same time, or one
              \* of whose entries was lost
  published,  \* history: when a row was first published
  techs,      \* the Technique rows: 0 when missing, else the parent or itself
  links,      \* the links: who added them
  claims      \* history: links an analyst added and nobody removed

curationVars ==
  <<records, writes, edits, trail, contested, published, techs, links, claims>>

NoEdit == [st |-> "none"]
NoParent == "none"
Unborn == [ver |-> 0]
Dead == [ver |-> -1]
There(r) == records[r].ver > 0
Pairs == Records \X Techniques

CurationInit ==
  /\ records = [r \in Records |-> Unborn]
  /\ writes = 0
  /\ edits = [e \in Edits |-> NoEdit]
  /\ trail = {}
  /\ contested = {}
  /\ published = [r \in Records |-> 0]
  /\ techs = [t \in Techniques |-> [there |-> FALSE, parent |-> NoParent]]
  /\ links = [p \in Pairs |-> "none"]
  /\ claims = {}

linkVars == <<techs, links, claims>>
-----------------------------------------------------------------------------
Handled(e, r) ==
  {q \in {r} : \E o \in Edits \ {e} : edits[o] # NoEdit /\ edits[o].rec = q}

SlugTaken(r, s) == \E q \in Records \ {r} : There(q) /\ records[q].slug = s

\* saveReport: published at the first publication only, whatever comes later.
\* (Restamped takes the creation's rule for every save.)
Restamped(before, pub) == IF pub THEN clock ELSE 0
PublishedAt(before, pub) == IF before.at # 0 THEN before.at ELSE IF pub THEN clock ELSE 0

Recorded(e, r, to) ==
  /\ writes' = writes + 1
  /\ records' = [records EXCEPT ![r] = to]

\* The form has no id: create.  A taken slug is a unique violation.
CreateRecord(e, r, s, pub) ==
  /\ edits[e] = NoEdit /\ records[r] = Unborn /\ ~SlugTaken(r, s)
  /\ writes < MaxWrites
  /\ Recorded(e, r, [ver |-> writes + 1, slug |-> s,
                     at |-> IF pub THEN clock ELSE 0])
  /\ edits' = [edits EXCEPT ![e] = [st |-> "audit", rec |-> r, from |-> 0, to |-> writes + 1]]
  /\ published' = [published EXCEPT ![r] = IF pub THEN clock ELSE 0]
  /\ Calm
  /\ UNCHANGED <<trail, contested, linkVars>>

\* findUnique, for a save or a deletion; a missing row is an error.
OpenRecord(e, r, what) ==
  /\ edits[e] = NoEdit /\ There(r)
  /\ edits' = [edits EXCEPT ![e] = [st |-> what, rec |-> r, before |-> records[r]]]
  /\ contested' = contested \cup Handled(e, r)
  /\ Calm
  /\ UNCHANGED <<records, writes, trail, published, linkVars>>

\* update; rejected when the row is gone or the slug is taken.
SaveRecord(e, s, pub) ==
  /\ edits[e].st = "save" /\ writes < MaxWrites
  /\ LET r == edits[e].rec
         before == edits[e].before
         at == PublishedAt(before, pub)
     IN  IF There(r) /\ ~SlugTaken(r, s)
         THEN /\ Recorded(e, r, [ver |-> writes + 1, slug |-> s, at |-> at])
              /\ edits' = [edits EXCEPT ![e] =
                   [st |-> "audit", rec |-> r, from |-> before.ver, to |-> writes + 1]]
              /\ published' = [published EXCEPT ![r] = IF @ = 0 /\ pub THEN clock ELSE @]
         ELSE edits' = [edits EXCEPT ![e] = NoEdit] /\ UNCHANGED <<records, writes, published>>
  /\ Calm
  /\ UNCHANGED <<trail, contested, linkVars>>

\* delete; the links go along.
DeleteRecord(e) ==
  /\ edits[e].st = "delete"
  /\ LET r == edits[e].rec
     IN  IF There(r)
         THEN /\ records' = [records EXCEPT ![r] = Dead]
              /\ links' = [p \in Pairs |-> IF p[1] = r THEN "none" ELSE links[p]]
              /\ claims' = {p \in claims : p[1] # r}
              /\ edits' = [edits EXCEPT ![e] =
                   [st |-> "audit", rec |-> r, from |-> edits[e].before.ver, to |-> -1]]
         ELSE edits' = [edits EXCEPT ![e] = NoEdit] /\ UNCHANGED <<records, links, claims>>
  /\ Calm
  /\ UNCHANGED <<writes, trail, contested, published, techs>>

\* diff: from what was read to what was written.  (AfterOnly compares the
\* written row with itself.)
AfterOnly(e) == [rec |-> edits[e].rec, from |-> edits[e].to, to |-> edits[e].to]
Entry(e) == [rec |-> edits[e].rec, from |-> edits[e].from, to |-> edits[e].to]

\* audit: never throws.
WriteAudit(e) ==
  /\ edits[e].st = "audit"
  /\ trail' = trail \cup {Entry(e)}
  /\ edits' = [edits EXCEPT ![e] = NoEdit]
  /\ Calm
  /\ UNCHANGED <<records, writes, contested, published, linkVars>>

\* The process dies, a statement or the audit's insert is rejected.
EditDies(e) ==
  /\ edits[e] # NoEdit
  /\ contested' = contested \cup {edits[e].rec}
  /\ edits' = [edits EXCEPT ![e] = NoEdit]
  /\ Upset
  /\ UNCHANGED <<records, writes, trail, published, linkVars>>

\* linkTechnique, linkActor: an upsert in the analyst's name; rejected when
\* either end is missing.
Link(p) ==
  /\ There(p[1]) /\ techs[p[2]].there
  /\ links' = [links EXCEPT ![p] = "analyst"]
  /\ claims' = claims \cup {p}
  /\ Upset
  /\ UNCHANGED <<records, writes, edits, trail, contested, published, techs>>

\* unlinkTechnique, unlinkActor: deleteMany.
Unlink(p) ==
  /\ links[p] # "none"
  /\ links' = [links EXCEPT ![p] = "none"]
  /\ claims' = claims \ {p}
  /\ Upset
  /\ UNCHANGED <<records, writes, edits, trail, contested, published, techs>>

CurationNext ==
  \/ \E e \in Edits :
       \/ \E r \in Records, s \in Slugs, pub \in BOOLEAN : CreateRecord(e, r, s, pub)
       \/ \E r \in Records, what \in {"save", "delete"} : OpenRecord(e, r, what)
       \/ \E s \in Slugs, pub \in BOOLEAN : SaveRecord(e, s, pub)
       \/ DeleteRecord(e)
       \/ WriteAudit(e)
       \/ EditDies(e)
  \/ \E p \in Pairs : Link(p) \/ Unlink(p)
-----------------------------------------------------------------------------
Settled(r) == \A e \in Edits : edits[e] = NoEdit \/ edits[e].rec # r

\* "Stamp publication time on first publish only": a row published once keeps
\* the instant, through drafts and republications, unless two saves overlapped.
PublicationKept ==
  \A r \in Records : There(r) /\ r \notin contested => records[r].at = published[r]

\* The audit log leads from a row's creation to what it is now, one entry for
\* every version, unless two actions handled the row at the same time or one
\* was cut off.
TrailLeads ==
  \A r \in Records \ contested : Settled(r) /\ records[r] # Unborn =>
    LET of == {a \in trail : a.rec = r}
        ends == {a.to : a \in of}
    IN  /\ records[r].ver \in ends
        /\ {a.from : a \in of} = (ends \ {records[r].ver}) \cup {0}
        /\ Cardinality(of) = Cardinality(ends)

\* What curators rely on afterwards: the date of publication and the trail.
CurationKept == PublicationKept /\ TrailLeads
=============================================================================
