----------------------------- MODULE AttackSync -----------------------------
(***************************************************************************)
(* The ATT&CK import of src/lib/attack/sync.ts (ingestParsedBundle): a     *)
(* long sequence of awaited statements without a transaction, run by hand  *)
(* and repeated after a failure, beside the analysts of module Curation    *)
(* and possibly beside another import.                                     *)
(***************************************************************************)
EXTENDS Curation

CONSTANTS
  Imports,   \* imports
  ParentOf,  \* the parent of each technique the bundle lists, or NoParent
  Grouped,   \* the actors with an attackGroupId
  GroupUses, \* the bundle's mappings of them to techniques
  Software,  \* malware and tools of the bundle
  SoftwareUses \* the bundle's mappings of the groups to them

ASSUME ImportAssumption ==
  /\ DOMAIN ParentOf \subseteq Techniques
  /\ Grouped \subseteq Records
  /\ GroupUses \subseteq Pairs
  /\ SoftwareUses \subseteq Grouped \X Software

VARIABLES
  imports,  \* the imports in progress
  wares,    \* the Malware and Tool rows
  uses,     \* the ActorMalware and ActorTool rows
  ended,    \* history: an import came to its end
  owed      \* history: what an import has mapped and nobody has removed since

importVars == <<imports, wares, uses, ended, owed>>

NoImport == [st |-> "none"]
Listed == DOMAIN ParentOf
Existing == {t \in Techniques : techs[t].there}

ImportInit ==
  /\ imports = [y \in Imports |-> NoImport]
  /\ wares = {}
  /\ uses = {}
  /\ ended = FALSE
  /\ owed = {}
-----------------------------------------------------------------------------
Goes(y, st) == imports' = [imports EXCEPT ![y].st = st]

\* The tactics' upserts; findMany of the techniques.
BeginImport(y) ==
  /\ imports[y] = NoImport
  /\ imports' = [imports EXCEPT ![y] =
       [st |-> "techniques", known |-> Existing, todo |-> Listed, actors |-> {},
        ware |-> FALSE]]
  /\ Calm
  /\ UNCHANGED <<wares, uses, ended, owed, curationVars>>

\* existingByAttackId after a create.  (KnownBefore leaves it as it was read.)
KnownBefore(y, t) == imports[y].known
Known(y, t) == imports[y].known \cup {t}

\* update a known technique or create it; created by another import meanwhile
\* it is a unique violation that ends this one.
SaveTechnique(y, t) ==
  /\ imports[y].st = "techniques" /\ t \in imports[y].todo
  /\ LET known == imports[y].known
         last == imports[y].todo = {t}
     IN  IF t \in Existing \ known
         THEN imports' = [imports EXCEPT ![y] = NoImport] /\ UNCHANGED techs
         ELSE /\ techs' = [techs EXCEPT ![t].there = TRUE]
              /\ imports' = [imports EXCEPT
                   ![y].known = Known(y, t),
                   ![y].todo = IF last THEN Listed ELSE @ \ {t},
                   ![y].st = IF last THEN "parents" ELSE @]
  /\ Calm
  /\ UNCHANGED <<records, writes, edits, trail, contested, published, links, claims,
                 wares, uses, ended, owed>>

\* The second pass; a technique without a known parent is passed over.
SetParent(y, t) ==
  /\ imports[y].st = "parents" /\ t \in imports[y].todo
  /\ techs' = IF ParentOf[t] \in imports[y].known
              THEN [techs EXCEPT ![t].parent = ParentOf[t]] ELSE techs
  /\ imports' = [imports EXCEPT
       ![y].todo = @ \ {t}, ![y].st = IF imports[y].todo = {t} THEN "actors" ELSE @]
  /\ Calm
  /\ UNCHANGED <<records, writes, edits, trail, contested, published, links, claims,
                 wares, uses, ended, owed>>

\* findMany of the actors tied to a group.
ReadActors(y) ==
  /\ imports[y].st = "actors"
  /\ imports' = [imports EXCEPT ![y].actors = {r \in Grouped : There(r)},
                                ![y].st = "map"]
  /\ Calm
  /\ UNCHANGED <<wares, uses, ended, owed, curationVars>>

Mapped(y) ==
  {p \in GroupUses : p[1] \in imports[y].actors /\ p[2] \in imports[y].known}

\* createMany with skipDuplicates, in nobody's name.  (Overwriting puts
\* MITRE's mapping in the place of what is there.)
Overwriting(y, p) == TRUE
Added(y, p) == links[p] = "none"

\* An actor deleted since it was read violates the foreign key: no row is
\* written and the import ends.
MapTechniques(y) ==
  /\ imports[y].st = "map"
  /\ IF \E p \in Mapped(y) : ~There(p[1])
     THEN imports' = [imports EXCEPT ![y] = NoImport] /\ UNCHANGED <<links, owed>>
     ELSE /\ links' = [p \in Pairs |->
               IF p \in Mapped(y) /\ Added(y, p) THEN "mitre" ELSE links[p]]
          /\ owed' = owed \cup
               {p \in GroupUses : p[1] \in imports[y].actors /\ p[2] \in Listed}
          /\ imports' = [imports EXCEPT ![y].st = "software", ![y].todo = Software]
  /\ Calm
  /\ UNCHANGED <<records, writes, edits, trail, contested, published, techs, claims,
                 wares, uses, ended>>

\* Malware and tools: findUnique, ...
FindSoftware(y, s) ==
  /\ imports[y].st = "software" /\ s \in imports[y].todo
  /\ imports' = [imports EXCEPT ![y].st = "ware", ![y].todo = @ \ {s},
                                ![y].ware = [is |-> s, there |-> s \in wares]]
  /\ Calm
  /\ UNCHANGED <<wares, uses, ended, owed, curationVars>>

\* ... then update or create.
SaveSoftware(y) ==
  /\ imports[y].st = "ware"
  /\ LET s == imports[y].ware
     IN  IF ~s.there /\ s.is \in wares
         THEN imports' = [imports EXCEPT ![y] = NoImport] /\ UNCHANGED wares
         ELSE wares' = wares \cup {s.is} /\ Goes(y, "software")
  /\ Calm
  /\ UNCHANGED <<uses, ended, owed, curationVars>>

\* The actors once more.
ReadActorsAgain(y) ==
  /\ imports[y].st = "software" /\ imports[y].todo = {}
  /\ imports' = [imports EXCEPT ![y].actors = {r \in Grouped : There(r)},
                                ![y].st = "uses"]
  /\ Calm
  /\ UNCHANGED <<wares, uses, ended, owed, curationVars>>

\* createMany of the software's mappings, and the report.  (The malware's and
\* the tools' are a statement each.)
MapSoftware(y) ==
  /\ imports[y].st = "uses"
  /\ LET mapped == {u \in SoftwareUses : u[1] \in imports[y].actors /\ u[2] \in wares}
     IN  IF \E u \in mapped : ~There(u[1])
         THEN UNCHANGED <<uses, ended, owed>>
         ELSE /\ uses' = uses \cup mapped
              /\ owed' = owed \cup {u \in SoftwareUses : u[1] \in imports[y].actors}
              /\ ended' = TRUE
  /\ imports' = [imports EXCEPT ![y] = NoImport]
  /\ Calm
  /\ UNCHANGED <<wares, curationVars>>

\* A statement fails or the process is stopped; the import is run again.
ImportDies(y) ==
  /\ imports[y] # NoImport
  /\ imports' = [imports EXCEPT ![y] = NoImport]
  /\ Upset
  /\ UNCHANGED <<wares, uses, ended, owed, curationVars>>

ImportNext ==
  \E y \in Imports :
    \/ BeginImport(y)
    \/ \E t \in Listed : SaveTechnique(y, t) \/ SetParent(y, t)
    \/ ReadActors(y)
    \/ MapTechniques(y)
    \/ \E s \in Software : FindSoftware(y, s)
    \/ SaveSoftware(y)
    \/ ReadActorsAgain(y)
    \/ MapSoftware(y)
    \/ ImportDies(y)

\* The analysts' steps, as the imports' history sees them.
CurationStep ==
  /\ CurationNext
  /\ uses' = {u \in uses : There(u[1])'}
  /\ owed' = {p \in owed : IF p \in Pairs THEN links'[p] # "none" ELSE There(p[1])'}
  /\ UNCHANGED <<imports, wares, ended>>
-----------------------------------------------------------------------------
\* "An analyst overriding an imported MITRE mapping needs their name on it":
\* no import, cut off, repeated or beside another, takes over a link that an
\* analyst added and nobody removed.
AnalystLinksKept == \A p \in claims : links[p] = "analyst"

\* What an import has mapped stays linked, techniques it created itself
\* included, until somebody removes the link or the actor.
MappingsStay ==
  \A p \in owed : IF p \in Pairs THEN links[p] # "none" ELSE p \in uses

\* Once any import has come to its end, every technique and software of the
\* bundle is there and under its parent, however many imports were cut off or
\* collided before or since.
CatalogueComplete ==
  ended =>
    /\ Software \subseteq wares
    /\ \A t \in Listed : techs[t] = [there |-> TRUE, parent |-> ParentOf[t]]

\* What imports leave behind, whatever cut them off: the whole bundle and the
\* mappings they made.
CatalogueHolds == CatalogueComplete /\ MappingsStay
=============================================================================
