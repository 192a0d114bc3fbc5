------------------------------ MODULE Releases ------------------------------
(***************************************************************************)
(* The releases of ATT&CK: what parseBundle of src/lib/attack/stix.ts      *)
(* takes from a STIX bundle, and what the passes of ingestParsedBundle     *)
(* (sync.ts) make of one release after another, each possibly cut off.     *)
(* Imports beside each other and beside analysts are module AttackSync's,  *)
(* the page is module Coverage's.                                          *)
(***************************************************************************)
EXTENDS Environment, FiniteSets, SequencesExt, Places

CONSTANTS
  Bundles,   \* the releases, in their order: [matrices, tactics, patterns,
             \* groups, wares, strategies, relations]
  Followed   \* numbers of the groups tracked actors are tied to

VARIABLES
  pinned,    \* the release the code asks for
  atlas,     \* rows of tactics, techniques and software, and mappings
  syncing,   \* the sync in progress
  landed     \* the release whose sync came to its end last, or 0

releaseVars == <<pinned, atlas, syncing, landed>>

NoSync == [st |-> "none"]
Unnumbered == ""
Unnamed == ""
NoNumber == "none"

ReleasesInit ==
  /\ pinned = 1
  /\ atlas = [tactics |-> {}, techs |-> {}, wares |-> {}, maps |-> {}]
  /\ syncing = NoSync
  /\ landed = 0
-----------------------------------------------------------------------------
(* parseBundle.  Objects have an id; their number may be missing.          *)

Numbered(objects) == {o \in objects : o.number # Unnumbered}
Related(b, kind) == {r \in b.relations : r.kind = kind}
ParentLinks(b) == Related(b, "subtechnique-of")

\* Every matrix, largest first; of equal ones the earlier, as sort is stable.
\* (FirstOnly takes the one listed first.)
Larger(b, j, k) ==
  \/ Len(b.matrices[j]) > Len(b.matrices[k])
  \/ Len(b.matrices[j]) = Len(b.matrices[k]) /\ j < k
AheadOf(b, j) == {k \in 1 .. Len(b.matrices) : Larger(b, k, j)}
FirstOnly(b) == b.matrices[1]
InMatrices(b) ==
  LET nth(n) == CHOOSE j \in 1 .. Len(b.matrices) : Cardinality(AheadOf(b, j)) = n - 1
  IN  FlattenSeq([n \in 1 .. Len(b.matrices) |-> b.matrices[nth(n)]])

\* A tactic without an object, a number or a short name is passed over, and
\* one that comes again keeps its first place.
Titled(b) == {t \in Numbered(b.tactics) : t.short # Unnamed}
ShortNames(b) ==
  LET ids == InMatrices(b)
      named == Picked(ids, {k \in DOMAIN ids : \E t \in Titled(b) : t.id = ids[k]})
  IN  [k \in 1 .. Len(named) |-> (CHOOSE t \in b.tactics : t.id = named[k]).short]
TacticOrder(b) ==
  LET short == ShortNames(b)
  IN  Picked(short, {k \in DOMAIN short : \A j \in 1 .. k - 1 : short[j] # short[k]})

\* Strategies and their analytics, unless they are withdrawn.
Guidance(b, id) ==
  UNION {{a.prose : a \in {c \in s.analytics : ~c.off}} :
           s \in {u \in b.strategies :
                    ~u.off /\ \E r \in Related(b, "detects") : r.from = u.id /\ r.to = id}}

\* The number of the parent, by the relationship.
ParentNumber(b, id) ==
  LET of == {p \in Numbered(b.patterns) :
               \E r \in ParentLinks(b) : r.from = id /\ r.to = p.id}
  IN  IF of = {} THEN NoNumber ELSE (CHOOSE p \in of : TRUE).number

\* Revoked ones are replaced by others; deprecated ones are kept and marked.
ParsedTechniques(b) == {p \in Numbered(b.patterns) : ~p.revoked}
LiveGroups(b) == {g \in Numbered(b.groups) : ~g.revoked}
ParsedSoftware(b) == {s \in Numbered(b.wares) : ~s.revoked}

\* An id names one object, a number one technique in use; a technique has at
\* most one parent.
ASSUME BundlesAssumption ==
  /\ Bundles \in Seq(ToSet(Bundles)) /\ Bundles # <<>> /\ Unnumbered \notin Followed
  /\ \A b \in ToSet(Bundles) :
       /\ b.matrices \in Seq(ToSet(b.matrices))
       /\ \A m \in ToSet(b.matrices) : m \in Seq(ToSet(m))
       /\ \A t, u \in b.tactics : t.id = u.id => t = u
       /\ \A p, q \in b.patterns : p.id = q.id => p = q
       /\ \A p, q \in ParsedTechniques(b) : p.number = q.number => p = q
       /\ \A r, u \in ParentLinks(b) : r.from = u.from => r.to = u.to

\* "uses" relationships of groups to techniques, and to software.
MappingsTo(b, targets) ==
  {<<u[1].number, u[2].number>> : u \in
     {u \in LiveGroups(b) \X targets :
        \E r \in Related(b, "uses") : r.from = u[1].id /\ r.to = u[2].id}}
-----------------------------------------------------------------------------
(* ingestParsedBundle: the passes, an upsert or update at a time.          *)

Bundle == Bundles[syncing.of]
Proceed(st, todo) == syncing' = [syncing EXCEPT !.st = st, !.todo = todo]
Turns(st, x, next, todo) ==
  IF syncing.todo = {x} THEN Proceed(next, todo) ELSE Proceed(st, syncing.todo \ {x})
Left(to) == atlas' = to /\ Calm /\ UNCHANGED <<pinned, landed>>

\* "Upgrading is an explicit act".
Upgrade ==
  /\ pinned < Len(Bundles) /\ syncing = NoSync
  /\ pinned' = pinned + 1
  /\ Upset
  /\ UNCHANGED <<atlas, syncing, landed>>

BeginRelease ==
  /\ syncing = NoSync
  /\ syncing' = [st |-> "tactics", of |-> pinned, todo |-> 1 .. Len(TacticOrder(Bundles[pinned]))]
  /\ landed' = 0
  /\ Calm
  /\ UNCHANGED <<pinned, atlas>>

\* upsert by short name, with its place.
SaveTactic(k) ==
  /\ syncing.st = "tactics" /\ k \in syncing.todo
  /\ LET row == [short |-> TacticOrder(Bundle)[k], order |-> k - 1, ver |-> syncing.of]
     IN  Left([atlas EXCEPT !.tactics = {t \in @ : t.short # row.short} \cup {row}])
  /\ Turns("tactics", k, "techniques", ParsedTechniques(Bundle))

\* create, or update of everything but the parent.
SaveRelease(p) ==
  /\ syncing.st = "techniques" /\ p \in syncing.todo
  /\ LET before == {t \in atlas.techs : t.number = p.number}
         row == [number |-> p.number, phases |-> p.phases, deprecated |-> p.deprecated,
                 guidance |-> Guidance(Bundle, p.id), ver |-> syncing.of,
                 parent |-> IF before = {} THEN NoNumber
                            ELSE (CHOOSE t \in before : TRUE).parent]
     IN  Left([atlas EXCEPT !.techs = (@ \ before) \cup {row}])
  /\ Turns("techniques", p, "parents", {"all"})

\* The second pass; a parent without a row is passed over.  (Whole here and in
\* what follows: module AttackSync takes it apart.)
ParentFor(t) ==
  LET of == {p \in ParsedTechniques(Bundle) : p.number = t.number}
      up == IF of = {} THEN NoNumber ELSE ParentNumber(Bundle, (CHOOSE p \in of : TRUE).id)
  IN  IF \E s \in atlas.techs : s.number = up THEN up ELSE t.parent
SaveParents ==
  /\ syncing.st = "parents"
  /\ Left([atlas EXCEPT !.techs = {[t EXCEPT !.parent = ParentFor(t)] : t \in @}])
  /\ Proceed("maps", {"all"})

\* createMany of the tracked groups' mappings.
SaveMappings ==
  /\ syncing.st = "maps"
  /\ LET found == {m \in MappingsTo(Bundle, ParsedTechniques(Bundle)) : m[1] \in Followed}
     IN  Left([atlas EXCEPT !.maps = @ \cup found])
  /\ Proceed("software", {"all"})

\* The software, and its mappings: each kind in its own tables.
SaveWares ==
  /\ syncing.st = "software"
  /\ LET shipped == {[kind |-> s.kind, number |-> s.number] : s \in ParsedSoftware(Bundle)}
         found == {m \in MappingsTo(Bundle, ParsedSoftware(Bundle)) : m[1] \in Followed}
     IN  /\ atlas' = [atlas EXCEPT !.wares = @ \cup shipped, !.maps = @ \cup found]
         /\ landed' = syncing.of
  /\ syncing' = NoSync
  /\ Calm
  /\ UNCHANGED pinned

ReleaseDies ==
  /\ syncing # NoSync
  /\ syncing' = NoSync
  /\ Upset
  /\ UNCHANGED <<pinned, atlas, landed>>

ReleasesNext ==
  \/ Upgrade \/ BeginRelease
  \/ \E b \in 1 .. Len(Bundles) :
       \/ \E k \in 1 .. Len(TacticOrder(Bundles[b])) : SaveTactic(k)
       \/ \E p \in Bundles[b].patterns : SaveRelease(p)
  \/ SaveParents \/ SaveMappings \/ SaveWares \/ ReleaseDies
-----------------------------------------------------------------------------
\* Whatever was synced before and wherever that was cut off, a release that
\* has landed is there as a whole: each of its techniques with this release's
\* tactics, mark and guidance, under its parent when that is one of them;
\* no guidance but a live analytic's of it; a column for every named tactic a
\* matrix of the release lists, the columns in one order; and the mappings between
\* what is not revoked.
ReleaseLands ==
  landed # 0 =>
    LET b == Bundles[landed]
        row(n) == CHOOSE t \in atlas.techs : t.number = n
        columns == {t \in atlas.tactics : t.ver = landed}
        listed == UNION {ToSet(b.matrices[k]) : k \in 1 .. Len(b.matrices)}
    IN  /\ \A p \in b.patterns :
             ~p.revoked /\ p.number # Unnumbered =>
               /\ Cardinality({t \in atlas.techs : t.number = p.number}) = 1
               /\ row(p.number).ver = landed
               /\ row(p.number).phases = p.phases /\ row(p.number).deprecated = p.deprecated
               /\ \A prose \in row(p.number).guidance :
                    \E s \in b.strategies : \E a \in s.analytics :
                      /\ ~s.off /\ ~a.off /\ a.prose = prose
                      /\ \E r \in Related(b, "detects") : r.from = s.id /\ r.to = p.id
               /\ \A r \in ParentLinks(b), q \in ParsedTechniques(b) :
                    r.from = p.id /\ r.to = q.id => row(p.number).parent = q.number
               /\ \A t \in b.tactics :
                    /\ t.short \in p.phases /\ t.id \in listed
                    /\ t.number # Unnumbered /\ t.short # Unnamed
                    => \E c \in columns : c.short = t.short
        /\ {c.order : c \in columns} = 0 .. Cardinality(columns) - 1
        /\ \A r \in Related(b, "uses"), g \in b.groups, t \in b.patterns \cup b.wares :
             /\ r.from = g.id /\ r.to = t.id /\ g.number \in Followed
             /\ ~g.revoked /\ ~t.revoked /\ t.number # Unnumbered
             => <<g.number, t.number>> \in atlas.maps
=============================================================================
