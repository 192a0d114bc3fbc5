------------------------------ MODULE Coverage ------------------------------
(***************************************************************************)
(* What the catalogue of adversaries is worth to a defender: the ATT&CK    *)
(* matrix and the Navigator layer of src/lib/attack/matrix.ts, and the     *)
(* Sigma rules of src/lib/sigma/generate.ts behind                         *)
(* /api/sigma/{actor,campaign}/[id].  The matrix page reads techniques and *)
(* mappings in two statements that run side by side, while imports and     *)
(* analysts change both.                                                   *)
(***************************************************************************)
EXTENDS Environment, FiniteSets, FiniteSetsExt

CONSTANTS
  Cells,        \* techniques of a domain: [id, parent, tactics]
  TacticNames,  \* the columns
  Adversaries,  \* tracked actors
  Strengths,    \* confidences of a mapping
  Artefacts     \* indicators: [id, type, conf]

\* Techniques, actors and indicators are rows, each with an id of its own; an
\* indicator's id is no number of a technique.
ASSUME CoverageAssumption ==
  /\ IsFiniteSet(Cells) /\ IsFiniteSet(Adversaries)
  /\ \A c, d \in Cells : c.id = d.id => c = d
  /\ \A a, b \in Artefacts : a.id = b.id => a = b
  /\ \A a \in Artefacts : a.conf \in 0 .. 100 /\ \A c \in Cells : a.id # c.id

VARIABLES
  sheet,  \* rows: deprecated cells; mappings <<actor, cell id, confidence>>;
          \* whitelisted artefacts, linked pairs
  board   \* the page: what each statement has read; nothing changed since

coverageVars == <<sheet, board>>

TopLevel == ""
Unread == "unread"
NewBoard == [st |-> "closed", cells |-> {}, maps |-> {}, read |-> {}, calm |-> TRUE]

CoverageInit ==
  /\ sheet = [deprecated |-> {}, maps |-> {}, white |-> {}, linked |-> {}]
  /\ board = NewBoard
-----------------------------------------------------------------------------
(* getMatrix, from what it has read.                                       *)

ActorsOf(id) == {m[1] : m \in {n \in board.maps : n[2] = id}}
SubsOf(c) == {d \in board.cells : d.parent = c.id}

\* A parent counts the distinct actors of itself and its children.
\* (SummedCount adds their counts.)
SummedCount(c) ==
  Cardinality(ActorsOf(c.id)) + MapThenSumSet(LAMBDA d : Cardinality(ActorsOf(d.id)), SubsOf(c))
ActorCount(c) == Cardinality(ActorsOf(c.id) \cup UNION {ActorsOf(d.id) : d \in SubsOf(c)})

Column(tactic) == {c \in board.cells : c.parent = TopLevel /\ tactic \in c.tactics}
CoveredCells == {c \in board.cells : ActorsOf(c.id) # {}}

\* buildNavigatorLayer counts rows, deprecated techniques included; of one
\* actor or of all.
LayerRows(ids, actors) == {m \in sheet.maps : m[1] \in actors /\ m[2] \in ids}
LayerScore(id, actors) == Cardinality(LayerRows({id}, actors))
-----------------------------------------------------------------------------
(* generateSigmaRules.                                                     *)

NetworkTypes == {"IPV4", "IPV6", "DOMAIN", "URL"}
HashTypes == {"MD5", "SHA1", "SHA256"}
HostTypes == {"MUTEX", "FILENAME", "REGISTRY_KEY"}

\* TECHNIQUE_DETECTIONS: the confidence from which a rule is "high"; two are
\* "critical" whatever it is, and other techniques have no rule.
Detected ==
  {"T1059.001", "T1059.003", "T1053.005", "T1547.001", "T1003.001", "T1021.002",
   "T1505.003", "T1197", "T1036.005"}
HighFrom(id) == IF id \in {"T1059.001", "T1059.003"} THEN 80 ELSE 70
Level(id, conf) ==
  IF id \in {"T1003.001", "T1505.003"} THEN "critical"
  ELSE IF conf >= HighFrom(id) THEN "high" ELSE "medium"

\* The routes take what is linked, not whitelisted and of confidence 50 or
\* more.  (Above asks for more than 50.)
Tied(actor) == {a \in Artefacts \ sheet.white : <<actor, a>> \in sheet.linked}
Above(actor) == {a \in Tied(actor) : a.conf > 50}
Qualified(actor) == {a \in Tied(actor) : a.conf >= 50}

RuleOf(actor, types, level) ==
  LET of == {a \in Qualified(actor) : a.type \in types}
  IN  IF of = {} THEN {} ELSE {[on |-> {a.id : a \in of}, level |-> level]}
SigmaRules(actor) ==
  RuleOf(actor, NetworkTypes, "high") \cup RuleOf(actor, HashTypes, "critical")
    \cup RuleOf(actor, HostTypes, "high")
    \cup {[on |-> {m[2]}, level |-> Level(m[2], m[3])] :
            m \in {n \in sheet.maps : n[1] = actor /\ n[2] \in Detected}}
-----------------------------------------------------------------------------
SheetBecomes(to) ==
  /\ sheet' = to
  /\ board' = [board EXCEPT !.calm = FALSE]
  /\ Upset

\* linkTechnique upserts one row of an actor and a technique; the import adds
\* such rows; unlinkTechnique removes one.
MapCell(actor, c, conf) ==
  SheetBecomes([sheet EXCEPT !.maps =
    {m \in @ : m[1] # actor \/ m[2] # c.id} \cup {<<actor, c.id, conf>>}])
UnmapCell(m) == SheetBecomes([sheet EXCEPT !.maps = @ \ {m}])

\* A release of ATT&CK deprecates a technique.
Deprecate(c) == SheetBecomes([sheet EXCEPT !.deprecated = @ \cup {c}])

LinkArtefact(actor, a) == SheetBecomes([sheet EXCEPT !.linked = @ \cup {<<actor, a>>}])
WhitelistArtefact(a) == SheetBecomes([sheet EXCEPT !.white = @ \cup {a}])

OpenBoard ==
  /\ board.st # "loading"
  /\ board' = [NewBoard EXCEPT !.st = "loading"]
  /\ Calm
  /\ UNCHANGED sheet

Reads2(part, to) ==
  /\ board.st = "loading" /\ part \notin board.read
  /\ board' = [to EXCEPT !.read = @ \cup {part},
                         !.st = IF board.read = {} THEN "loading" ELSE "shown"]
  /\ Calm
  /\ UNCHANGED sheet
ReadCells == Reads2("cells", [board EXCEPT !.cells = Cells \ sheet.deprecated])
ReadMappings == Reads2("maps", [board EXCEPT !.maps = sheet.maps])

CoverageNext ==
  \/ \E actor \in Adversaries, c \in Cells, conf \in Strengths : MapCell(actor, c, conf)
  \/ \E m \in sheet.maps : UnmapCell(m)
  \/ \E c \in Cells \ sheet.deprecated : Deprecate(c)
  \/ \E a \in Artefacts :
       WhitelistArtefact(a) \/ \E actor \in Adversaries : LinkArtefact(actor, a)
  \/ OpenBoard
  \/ ReadCells
  \/ ReadMappings
-----------------------------------------------------------------------------
Shown == board.st = "shown"

\* "Summing child counts would double-count an actor": whatever changed
\* between the two reads, no cell reports more actors than there are, nor
\* fewer than one of its children; and while nothing changes, a parent's
\* number lies between each and the sum of the Navigator layer's scores of its
\* family, which is the number of the family's rows, and each child's is that
\* score.
MatrixCounts ==
  Shown =>
    \A c \in UNION {Column(t) : t \in TacticNames} :
      LET family == {c} \cup SubsOf(c)
      IN  /\ ActorCount(c) <= Cardinality(Adversaries)
          /\ \A d \in SubsOf(c) : Cardinality(ActorsOf(d.id)) <= ActorCount(c)
          /\ board.calm =>
               /\ \A d \in family : LayerScore(d.id, Adversaries) <= ActorCount(c)
               /\ ActorCount(c) <= Cardinality(LayerRows({d.id : d \in family}, Adversaries))
               /\ \A d \in SubsOf(c) : Cardinality(ActorsOf(d.id)) = LayerScore(d.id, Adversaries)
               /\ c \in CoveredCells => ActorCount(c) > 0

\* Every artefact that is tied to the adversary, believed at least by half and
\* not whitelisted is in one rule of that adversary, no other is in any, and a
\* technique has one rule at most however often its mapping was changed.
RulesFollow ==
  \A actor \in Adversaries :
    LET rules == SigmaRules(actor) IN
    /\ \A a \in Artefacts :
         Cardinality({r \in rules : a.id \in r.on}) =
           IF /\ <<actor, a>> \in sheet.linked /\ a \notin sheet.white /\ a.conf \in 50 .. 100
              /\ a.type \in NetworkTypes \cup HashTypes \cup HostTypes THEN 1 ELSE 0
    /\ \A c \in Cells : Cardinality({r \in rules : c.id \in r.on}) <= 1

\* What the catalogue shows a defender, cells and rules, is what it holds.
CoverageHolds == MatrixCounts /\ RulesFollow
=============================================================================
