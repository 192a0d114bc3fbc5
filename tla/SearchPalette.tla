--------------------------- MODULE SearchPalette ---------------------------
(***************************************************************************)
(* Search: the command palette of src/components/nav/command-palette.tsx,  *)
(* which asks /api/search a moment after the last key, and the queries of  *)
(* src/lib/search/query.ts it gets its hits from.  Requests are never      *)
(* withdrawn, so answers may overtake each other.                          *)
(***************************************************************************)
EXTENDS Environment, FiniteSets, SequencesExt

CONSTANTS
  Entries,      \* what can be found: [kind, id, number, text, name, alias,
                \* deprecated, rank]: the queries its full text matches, its
                \* name contains, an alias contains (or is); similarity
  Queries,      \* what is typed; ShortQueries of them have under two characters
  ShortQueries,
  PerTypeLimit

VARIABLES palette

paletteVars == <<palette>>

NoQuery == "none"
EntryKinds == {"actor", "campaign", "indicator", "report", "technique", "malware",
               "tool", "vulnerability"}

\* "none" is no query; a similarity, and a text rank added to it, stays below
\* the rank of a number asked for.
ASSUME PaletteAssumption ==
  /\ NoQuery \notin Queries
  /\ IsFiniteSet(Entries) /\ \A e \in Entries : e.kind \in EntryKinds /\ e.rank \in 0 .. 9
  /\ PerTypeLimit \in Nat \ {0}

\* open, query, hits, loading: the states of the component; timer, requests:
\* what is under way; issued, applied: numbers of the last request and of the
\* last answer.
PaletteInit ==
  palette = [open |-> FALSE, query |-> "", hits |-> <<>>, loading |-> FALSE,
             timer |-> NoQuery, requests |-> {}, issued |-> 0, applied |-> 0, ok |-> TRUE]
-----------------------------------------------------------------------------
(* search: a query for each type, the best five of each, all by rank.      *)

Satisfies(e, q) ==
  \/ e.kind = "actor" /\ q \in e.text \cup e.name \cup e.alias
  \/ e.kind \in {"campaign", "report"} /\ q \in e.text \cup e.name
  \/ e.kind = "indicator" /\ q \in e.name
  \/ e.kind = "technique" /\ ~e.deprecated /\ (q = e.number \/ q \in e.text \cup e.name)
  \/ e.kind \in {"malware", "tool"} /\ q \in e.name \cup e.alias
  \/ e.kind = "vulnerability" /\ (q = e.number \/ q \in e.name)

\* A technique or CVE asked for by its number ranks 10, above any similarity.
\* (BySimilarity forgets it.)
BySimilarity(e, q) == e.rank
RankOf(e, q) ==
  IF e.kind \in {"technique", "vulnerability"} /\ e.number = q THEN 10 ELSE e.rank

\* ORDER BY rank DESC, and the sort of the merge: the order of equals is open.
ByRank(S, q) ==
  CHOOSE rows \in [1 .. Cardinality(S) -> S] :
    /\ ToSet(rows) = S
    /\ \A i, j \in DOMAIN rows : i < j => RankOf(rows[i], q) >= RankOf(rows[j], q)

Best(kind, q) ==
  LET rows == ByRank({e \in Entries : e.kind = kind /\ Satisfies(e, q)}, q)
  IN  {rows[i] : i \in {k \in DOMAIN rows : k <= PerTypeLimit}}

Search(q) ==
  IF q \in ShortQueries THEN <<>>
  ELSE ByRank(UNION {Best(kind, q) : kind \in EntryKinds}, q)
-----------------------------------------------------------------------------
\* The effect of a change of query or open: the timer is cleared, and set
\* again for two characters or more.  (KeptTimer leaves a running one.)
KeptTimer(p, q) == IF p.timer # NoQuery THEN p.timer ELSE q
Timer(p, q) == q
AfterEffect(p) ==
  IF ~p.open THEN [p EXCEPT !.timer = NoQuery]
  ELSE IF p.query \in ShortQueries THEN [p EXCEPT !.timer = NoQuery, !.hits = <<>>]
  ELSE [p EXCEPT !.timer = Timer(p, p.query), !.loading = TRUE]

\* The bar or Ctrl-K.
OpenPalette ==
  /\ ~palette.open
  /\ palette' = AfterEffect([palette EXCEPT !.open = TRUE, !.query = "", !.hits = <<>>])
  /\ Calm

\* Ctrl-K, Escape, the backdrop, or a hit that is picked.
ClosePalette ==
  /\ palette.open
  /\ palette' = AfterEffect([palette EXCEPT !.open = FALSE])
  /\ Upset

\* Bound: the upsets of the scene are keys and closings.
TypeQuery(q) ==
  /\ palette.open /\ palette.query # q
  /\ palette' = AfterEffect([palette EXCEPT !.query = q])
  /\ Upset

\* 180 ms passed: fetch.
SendSearch ==
  /\ palette.timer # NoQuery
  /\ palette' = [palette EXCEPT
       !.timer = NoQuery, !.issued = @ + 1,
       !.requests = @ \cup {[n |-> palette.issued + 1, q |-> palette.timer]}]
  /\ Calm

\* In any order; a failed one empties the hits.
Answered(r, hits, ok) ==
  palette' = [palette EXCEPT !.requests = @ \ {r}, !.hits = hits, !.loading = FALSE,
                             !.applied = r.n, !.ok = ok]
SearchAnswered(r) == Answered(r, Search(r.q), TRUE) /\ Calm
SearchFailed(r) == Answered(r, <<>>, FALSE) /\ Calm

PaletteNext ==
  \/ OpenPalette
  \/ ClosePalette
  \/ \E q \in Queries : TypeQuery(q)
  \/ SendSearch
  \/ \E r \in palette.requests : SearchAnswered(r) \/ SearchFailed(r)
-----------------------------------------------------------------------------
Asking == palette.open /\ palette.query \notin ShortQueries
Quiet == palette.timer = NoQuery /\ palette.requests = {}

\* However keys, closings and answers fell, once nothing is under way the
\* palette is not left searching, and unless an older answer came last or the
\* request failed it shows what the query in the box finds.
PaletteSettles ==
  Asking /\ Quiet =>
    /\ ~palette.loading
    /\ palette.applied = palette.issued /\ palette.ok => palette.hits = Search(palette.query)

\* Hits that come back for the number of a technique or a CVE are headed by
\* what bears it, among any number of better-sounding entries.
NumberFirst ==
  palette.hits # <<>> =>
    \A e \in Entries :
      /\ Asking /\ Quiet /\ palette.applied = palette.issued
      /\ e.number = palette.query /\ e.kind \in {"technique", "vulnerability"} /\ ~e.deprecated
      => palette.hits[1].number = palette.query

\* What the palette settles on answers what was asked, best hit first.
PaletteAnswers == PaletteSettles /\ NumberFirst
=============================================================================
