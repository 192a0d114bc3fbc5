-------------------------- MODULE AttackSyncProofs --------------------------
(*****************************************************************************)
(* What an ATT&CK import leaves behind, for any bundle, any number of        *)
(* imports at once and any edits of analysts beside them; and what the       *)
(* edits themselves leave behind, for any records and any number of edits    *)
(* at once.                                                                  *)
(*                                                                           *)
(* No statement of an import is undone by another and none is wrapped in a   *)
(* transaction, so the invariant follows each import through its stages:     *)
(* what it has passed is there, because the catalogue only grows.            *)
(*                                                                           *)
(* The audit entries of a row lead from its creation to its present          *)
(* version, one entry per version, as long as no two actions have been on    *)
(* the row at once; the invariant counts them, with the entry that an        *)
(* action in progress still owes.                                            *)
(*****************************************************************************)
EXTENDS AttackSync, FiniteSetTheorems, TLAPS

allVars == <<importVars, curationVars>>

ImportSpec ==
  /\ CurationInit /\ ImportInit
  /\ [][ImportNext \/ CurationStep]_allVars

\* A bundle lists the parent of every technique that has one, and its software
\* has identifiers of its own.
BundleClosed ==
  /\ \A t \in Listed : ParentOf[t] \in Listed \cup {NoParent}
  /\ Software \cap Techniques = {}

Later == {"actors", "map", "software", "ware", "uses"}
Ware == [is : Software, there : BOOLEAN]
Underway ==
  [st : {"techniques", "parents"} \cup Later, known : SUBSET Techniques,
   todo : SUBSET (Listed \cup Software), actors : SUBSET Grouped,
   ware : {FALSE} \cup Ware]

ImportTypes ==
  /\ imports \in [Imports -> {NoImport} \cup Underway]
  /\ links \in [Pairs -> {"none", "mitre", "analyst"}]
  /\ techs \in [Techniques -> [there : BOOLEAN, parent : {NoParent} \cup Listed]]
  /\ claims \subseteq Pairs
  /\ ended \in BOOLEAN

Parented(ts, t) == ts[t].parent = ParentOf[t]
ParentOrNone == \A t \in Listed : Parented(techs, t) \/ techs[t].parent = NoParent

\* What an import in the state i has already seen to, of techniques ts and
\* software ws.
Fits(i, ts, ws) ==
  /\ \A t \in i.known : ts[t].there
  /\ i.st = "techniques" => i.todo \subseteq Listed /\ Listed \ i.todo \subseteq i.known
  /\ i.st # "techniques" => Listed \subseteq i.known
  /\ i.st = "parents" => i.todo \subseteq Listed /\ \A t \in Listed \ i.todo : Parented(ts, t)
  /\ i.st \in Later => \A t \in Listed : Parented(ts, t)
  /\ i.st = "software" => i.todo \subseteq Software /\ Software \ i.todo \subseteq ws
  /\ i.st = "ware" =>
       /\ i.ware \in Ware /\ i.todo \subseteq Software
       /\ Software \ (i.todo \cup {i.ware.is}) \subseteq ws
  /\ i.st = "uses" => Software \subseteq ws

AllFit == \A y \in Imports : imports[y] # NoImport => Fits(imports[y], techs, wares)

ImportInv ==
  /\ ImportTypes /\ ParentOrNone /\ AllFit
  /\ AnalystLinksKept /\ MappingsStay /\ CatalogueComplete

\* The catalogue only grows.
Grows ==
  /\ \A t \in Techniques : techs[t].there => techs'[t].there
  /\ \A t \in Listed : Parented(techs, t) => Parented(techs', t)
  /\ wares \subseteq wares'

\* An import goes from i to j and touches no link.
Advances(y, j) ==
  /\ imports' = [imports EXCEPT ![y] = j]
  /\ UNCHANGED <<uses, ended, owed, links, claims, records>>
-----------------------------------------------------------------------------
LEMMA ImportStates ==
  /\ NoImport.st = "none"
  /\ \A i \in Underway : i # NoImport /\ i.st # "none"
<1>1. NoImport.st = "none"
  BY DEF NoImport
<1>2. \A i \in Underway : i.st # "none"
  BY DEF Underway, Later
<1>. QED
  BY <1>1, <1>2

LEMMA UnderwayType ==
  ASSUME ImportInv, NEW y \in Imports, imports[y] # NoImport
  PROVE  imports[y] \in Underway /\ Fits(imports[y], techs, wares)
BY DEF ImportInv, ImportTypes, AllFit

LEMMA FitsStays ==
  ASSUME Grows, NEW i \in Underway, Fits(i, techs, wares)
  PROVE  Fits(i, techs', wares')
BY DEF Grows, Fits, Underway

\* A complete catalogue that grows stays complete.
LEMMA CompleteStays ==
  ASSUME ImportInv, Grows, techs' \in [Techniques -> [there : BOOLEAN, parent : {NoParent} \cup Listed]],
         ended' = ended
  PROVE  CatalogueComplete'
<1>1. Listed \subseteq Techniques
  BY ImportAssumption DEF Listed
<1>2. ASSUME ended, NEW t \in Listed
      PROVE  techs'[t] = [there |-> TRUE, parent |-> ParentOf[t]]
  <2>1. techs[t] = [there |-> TRUE, parent |-> ParentOf[t]]
    BY <1>2 DEF ImportInv, CatalogueComplete
  <2>2. techs'[t].there /\ techs'[t].parent = ParentOf[t]
    BY <1>1, <2>1 DEF Grows, Parented
  <2>3. techs'[t] \in [there : BOOLEAN, parent : {NoParent} \cup Listed]
    BY <1>1
  <2>. QED
    BY <2>2, <2>3
<1>. QED
  BY <1>2 DEF ImportInv, CatalogueComplete, Grows

\* A step of one import within the catalogue.
LEMMA AdvanceKeeps ==
  ASSUME ImportInv, NEW y \in Imports, NEW j \in {NoImport} \cup Underway,
         Advances(y, j), Grows, j # NoImport => Fits(j, techs', wares'), ParentOrNone',
         techs' \in [Techniques -> [there : BOOLEAN, parent : {NoParent} \cup Listed]]
  PROVE  ImportInv'
<1>1. ImportTypes'
  BY DEF ImportInv, ImportTypes, Advances
<1>2. AllFit'
  <2>1. ASSUME NEW o \in Imports \ {y}, imports'[o] # NoImport
        PROVE  Fits(imports[o], techs', wares') /\ imports'[o] = imports[o]
    BY <2>1, UnderwayType, FitsStays DEF Advances, ImportInv, ImportTypes
  <2>2. imports'[y] = j
    BY DEF Advances, ImportInv, ImportTypes
  <2>. QED
    BY <2>1, <2>2 DEF AllFit, Fits
<1>3. AnalystLinksKept' /\ MappingsStay'
  BY DEF ImportInv, Advances, AnalystLinksKept, MappingsStay
<1>4. CatalogueComplete'
  BY CompleteStays DEF Advances
<1>. QED
  BY <1>1, <1>2, <1>3, <1>4 DEF ImportInv

\* The same for a step that leaves the catalogue as it is.
LEMMA QuietKeeps ==
  ASSUME ImportInv, NEW y \in Imports, NEW j \in {NoImport} \cup Underway,
         Advances(y, j), j # NoImport => Fits(j, techs, wares), UNCHANGED <<techs, wares>>
  PROVE  ImportInv'
<1>1. Grows /\ ParentOrNone'
  BY DEF Grows, Parented, ImportInv, ParentOrNone
<1>2. j # NoImport => Fits(j, techs', wares')
  BY <1>1, FitsStays
<1>. QED
  BY <1>1, <1>2, AdvanceKeeps DEF ImportInv, ImportTypes

LEMMA DiesKeeps ==
  ASSUME ImportInv, NEW y \in Imports,
         imports' = [imports EXCEPT ![y] = NoImport],
         UNCHANGED <<wares, uses, ended, owed, curationVars>>
  PROVE  ImportInv'
BY QuietKeeps DEF Advances, curationVars
-----------------------------------------------------------------------------
(* Techniques and their parents.                                           *)

LEMMA BeginImportKeeps ==
  ASSUME ImportInv, NEW y \in Imports, BeginImport(y)
  PROVE  ImportInv'
<1>. DEFINE j == [st |-> "techniques", known |-> Existing, todo |-> Listed,
                  actors |-> {}, ware |-> FALSE]
<1>1. j \in Underway
  BY DEF Underway, Existing
<1>2. j.st = "techniques" /\ j.known = Existing /\ j.todo = Listed
  OBVIOUS
<1>3. Fits(j, techs, wares)
  BY <1>2 DEF Fits, Existing, Later
<1>. QED
  BY <1>1, <1>3, QuietKeeps DEF BeginImport, Advances, curationVars

LEMMA SaveKeeps ==
  ASSUME ImportInv, NEW y \in Imports, NEW t \in Listed, SaveTechnique(y, t)
  PROVE  ImportInv'
<1>. DEFINE i == imports[y]
            j == [i EXCEPT !.known = Known(y, t),
                           !.todo = IF i.todo = {t} THEN Listed ELSE @ \ {t},
                           !.st = IF i.todo = {t} THEN "parents" ELSE @]
<1>0. t \in Techniques
  BY ImportAssumption DEF Listed
<1>1. i \in Underway /\ Fits(i, techs, wares) /\ i.st = "techniques" /\ t \in i.todo
  BY ImportStates, UnderwayType DEF SaveTechnique
<1>2. CASE t \in Existing \ i.known
  BY <1>2, DiesKeeps DEF SaveTechnique, curationVars
<1>3. CASE t \notin Existing \ i.known
  <2>1. techs' = [techs EXCEPT ![t].there = TRUE] /\ imports' = [imports EXCEPT ![y] = j]
    BY <1>1, <1>3 DEF SaveTechnique, ImportInv, ImportTypes
  <2>2. techs' \in [Techniques -> [there : BOOLEAN, parent : {NoParent} \cup Listed]]
    BY <1>0, <2>1 DEF ImportInv, ImportTypes
  <2>3. /\ techs'[t].there
        /\ \A u \in Techniques : techs'[u].parent = techs[u].parent
                                 /\ (techs[u].there => techs'[u].there)
    BY <1>0, <2>1 DEF ImportInv, ImportTypes
  <2>4. Grows /\ ParentOrNone'
    BY <2>3, ImportAssumption
       DEF Grows, Parented, ParentOrNone, ImportInv, SaveTechnique, Listed
  <2>5. j \in Underway
    BY <1>0, <1>1 DEF Underway, Known
  <2>6. /\ j.known = i.known \cup {t}
        /\ j.todo = IF i.todo = {t} THEN Listed ELSE i.todo \ {t}
        /\ j.st = IF i.todo = {t} THEN "parents" ELSE "techniques"
    BY <1>1 DEF Known, Underway
  <2>7. \A u \in j.known : techs'[u].there
    BY <1>0, <1>1, <2>3, <2>6 DEF Fits, Underway
  <2>8. Fits(j, techs', wares')
    BY <1>1, <2>6, <2>7 DEF Fits, Later
  <2>. QED
    BY <2>1, <2>2, <2>4, <2>5, <2>8, AdvanceKeeps DEF Advances, SaveTechnique
<1>. QED
  BY <1>2, <1>3

LEMMA ParentKeeps ==
  ASSUME BundleClosed, ImportInv, NEW y \in Imports, NEW t \in Listed, SetParent(y, t)
  PROVE  ImportInv'
<1>. DEFINE i == imports[y]
            j == [i EXCEPT !.todo = @ \ {t},
                           !.st = IF i.todo = {t} THEN "actors" ELSE @]
<1>0. t \in Techniques
  BY ImportAssumption DEF Listed
<1>1. i \in Underway /\ Fits(i, techs, wares) /\ i.st = "parents" /\ t \in i.todo
  BY ImportStates, UnderwayType DEF SetParent
<1>2. /\ techs' \in [Techniques -> [there : BOOLEAN, parent : {NoParent} \cup Listed]]
      /\ \A u \in Techniques : techs'[u].there = techs[u].there
      /\ \A u \in Techniques \ {t} : techs'[u] = techs[u]
      /\ techs'[t].parent = ParentOf[t]
  <2>1. CASE ParentOf[t] \in i.known
    <3>1. techs' = [techs EXCEPT ![t].parent = ParentOf[t]]
      BY <2>1 DEF SetParent
    <3>. QED
      BY <1>0, <3>1 DEF BundleClosed, ImportInv, ImportTypes
  <2>2. CASE ParentOf[t] \notin i.known
    <3>1. techs' = techs
      BY <2>2 DEF SetParent
    <3>2. ParentOf[t] = NoParent
      BY <1>1, <2>2 DEF BundleClosed, Fits
    <3>. QED
      BY <3>1, <3>2 DEF ImportInv, ImportTypes, ParentOrNone, Parented
  <2>. QED
    BY <2>1, <2>2
<1>3. Grows /\ ParentOrNone'
  BY <1>2, ImportAssumption DEF Grows, Parented, ParentOrNone, ImportInv, SetParent, Listed
<1>4. j \in Underway
  BY <1>1 DEF Underway, Later
<1>5. /\ j.known = i.known /\ j.todo = i.todo \ {t}
      /\ j.st = IF i.todo = {t} THEN "actors" ELSE "parents"
  BY <1>1 DEF Underway
<1>6. \A u \in i.known : techs'[u].there
  BY <1>1, <1>2 DEF Fits, Underway
<1>7. \A u \in Listed : Parented(techs, u) \/ u = t => Parented(techs', u)
  BY <1>2, <1>3 DEF Grows, Parented
<1>8. Fits(j, techs', wares')
  BY <1>1, <1>5, <1>6, <1>7 DEF Fits, Later
<1>9. imports' = [imports EXCEPT ![y] = j]
  BY DEF SetParent, ImportInv, ImportTypes
<1>. QED
  BY <1>2, <1>3, <1>4, <1>8, <1>9, AdvanceKeeps DEF Advances, SetParent
-----------------------------------------------------------------------------
(* The groups' mappings and the software.                                  *)

\* A step of an import that only reads the actors tied to a group.
LEMMA ActorsKeep ==
  ASSUME ImportInv, NEW y \in Imports, ReadActors(y) \/ ReadActorsAgain(y)
  PROVE  ImportInv'
<1>. DEFINE i == imports[y]
            j(st) == [i EXCEPT !.actors = {r \in Grouped : There(r)}, !.st = st]
<1>1. i \in Underway /\ Fits(i, techs, wares)
  BY ImportStates, UnderwayType DEF ReadActors, ReadActorsAgain
<1>2. CASE ReadActors(y)
  <2>1. j("map") \in Underway /\ Fits(j("map"), techs, wares)
    BY <1>1, <1>2 DEF Underway, Later, Fits, ReadActors
  <2>2. Advances(y, j("map"))
    BY <1>2 DEF Advances, ReadActors, curationVars
  <2>. QED
    BY <1>2, <2>1, <2>2, QuietKeeps DEF ReadActors, curationVars
<1>3. CASE ReadActorsAgain(y)
  <2>1. j("uses") \in Underway /\ Fits(j("uses"), techs, wares)
    BY <1>1, <1>3 DEF Underway, Later, Fits, ReadActorsAgain
  <2>2. Advances(y, j("uses"))
    BY <1>3 DEF Advances, ReadActorsAgain, curationVars
  <2>. QED
    BY <1>3, <2>1, <2>2, QuietKeeps DEF ReadActorsAgain, curationVars
<1>. QED
  BY <1>2, <1>3

LEMMA MapKeeps ==
  ASSUME ImportInv, NEW y \in Imports, MapTechniques(y)
  PROVE  ImportInv'
<1>. DEFINE i == imports[y]
            j == [i EXCEPT !.st = "software", !.todo = Software]
<1>1. i \in Underway /\ Fits(i, techs, wares) /\ i.st = "map"
  BY ImportStates, UnderwayType DEF MapTechniques
<1>2. CASE \E p \in Mapped(y) : ~There(p[1])
  BY <1>2, DiesKeeps DEF MapTechniques, curationVars
<1>3. CASE ~\E p \in Mapped(y) : ~There(p[1])
  <2>1. /\ links' = [p \in Pairs |->
             IF p \in Mapped(y) /\ Added(y, p) THEN "mitre" ELSE links[p]]
        /\ owed' = owed \cup {p \in GroupUses : p[1] \in i.actors /\ p[2] \in Listed}
        /\ imports' = [imports EXCEPT ![y] = j]
        /\ UNCHANGED <<techs, wares, uses, ended, claims, records>>
    BY <1>3 DEF MapTechniques, ImportInv, ImportTypes
  <2>2. j \in Underway /\ Fits(j, techs, wares)
    BY <1>1 DEF Underway, Later, Fits
  <2>3. ImportTypes'
    BY <2>1, <2>2 DEF ImportInv, ImportTypes
  <2>4. ParentOrNone' /\ CatalogueComplete'
    BY <2>1 DEF ImportInv, ParentOrNone, Parented, CatalogueComplete
  <2>5. AllFit'
    <3>1. Grows
      BY <2>1 DEF Grows, Parented
    <3>2. ASSUME NEW o \in Imports, imports'[o] # NoImport PROVE Fits(imports'[o], techs', wares')
      <4>1. imports'[o] \in Underway /\ Fits(imports'[o], techs, wares)
        BY <2>1, <2>2, <3>2, UnderwayType DEF ImportInv, ImportTypes
      <4>. QED
        BY <2>1, <4>1 DEF Fits, Parented
    <3>. QED
      BY <3>2 DEF AllFit
  <2>6. \A p \in Pairs : links[p] # "none" => links'[p] = links[p]
    BY <2>1 DEF Added
  <2>7. AnalystLinksKept'
    BY <2>1, <2>6 DEF ImportInv, ImportTypes, AnalystLinksKept
  <2>8. MappingsStay'
    <3>1. ASSUME NEW p \in GroupUses, p[1] \in i.actors, p[2] \in Listed
          PROVE  p \in Pairs /\ links'[p] # "none"
      <4>1. p \in Pairs /\ p \in Mapped(y)
        BY <1>1, <3>1, ImportAssumption DEF Mapped, Fits
      <4>. QED
        BY <2>1, <4>1 DEF Added
    <3>2. ASSUME NEW p \in owed
          PROVE  IF p \in Pairs THEN links'[p] # "none" ELSE p \in uses'
      BY <2>1, <2>6 DEF ImportInv, MappingsStay
    <3>. QED
      BY <2>1, <3>1, <3>2 DEF MappingsStay
  <2>. QED
    BY <2>3, <2>4, <2>5, <2>7, <2>8 DEF ImportInv
<1>. QED
  BY <1>2, <1>3

LEMMA FindSoftwareKeeps ==
  ASSUME ImportInv, NEW y \in Imports, NEW s \in Software, FindSoftware(y, s)
  PROVE  ImportInv'
<1>. DEFINE i == imports[y]
            j == [i EXCEPT !.st = "ware", !.todo = @ \ {s},
                           !.ware = [is |-> s, there |-> s \in wares]]
<1>1. i \in Underway /\ Fits(i, techs, wares) /\ i.st = "software"
  BY ImportStates, UnderwayType DEF FindSoftware
<1>2. [is |-> s, there |-> s \in wares] \in Ware
  BY DEF Ware
<1>3. j \in Underway
  BY <1>1, <1>2 DEF Underway, Later
<1>4. /\ j.st = "ware" /\ j.todo = i.todo \ {s} /\ j.known = i.known
      /\ j.ware \in Ware /\ j.ware.is = s
  BY <1>1, <1>2 DEF Underway
<1>5. Fits(j, techs, wares)
  BY <1>1, <1>4 DEF Fits, Later
<1>6. Advances(y, j)
  <2>1. imports' = [imports EXCEPT ![y] = j]
    BY DEF FindSoftware, ImportInv, ImportTypes
  <2>. QED
    BY <2>1 DEF FindSoftware, Advances, curationVars
<1>. QED
  BY <1>3, <1>5, <1>6, QuietKeeps DEF FindSoftware, curationVars

LEMMA WareKeeps ==
  ASSUME ImportInv, NEW y \in Imports, SaveSoftware(y)
  PROVE  ImportInv'
<1>. DEFINE i == imports[y]
            j == [i EXCEPT !.st = "software"]
<1>1. i \in Underway /\ Fits(i, techs, wares) /\ i.st = "ware"
  BY ImportStates, UnderwayType DEF SaveSoftware
<1>2. CASE ~i.ware.there /\ i.ware.is \in wares
  BY <1>2, DiesKeeps DEF SaveSoftware
<1>3. CASE ~(~i.ware.there /\ i.ware.is \in wares)
  <2>1. wares' = wares \cup {i.ware.is} /\ imports' = [imports EXCEPT ![y] = j]
    BY <1>3 DEF SaveSoftware, Goes
  <2>2. UNCHANGED <<uses, ended, owed, links, claims, records, techs>>
    BY DEF SaveSoftware, curationVars
  <2>3. Grows /\ ParentOrNone'
    BY <2>1, <2>2 DEF Grows, Parented, ImportInv, ParentOrNone
  <2>4. j \in Underway /\ j.st = "software" /\ j.todo = i.todo /\ j.known = i.known
    BY <1>1 DEF Underway, Later
  <2>5. Fits(j, techs', wares')
    BY <1>1, <2>1, <2>2, <2>4 DEF Fits, Later, Parented
  <2>. QED
    BY <2>1, <2>2, <2>3, <2>4, <2>5, AdvanceKeeps DEF Advances, ImportInv, ImportTypes
<1>. QED
  BY <1>2, <1>3

LEMMA ImportEndKeeps ==
  ASSUME BundleClosed, ImportInv, NEW y \in Imports, MapSoftware(y)
  PROVE  ImportInv'
<1>. DEFINE i == imports[y]
            mapped == {u \in SoftwareUses : u[1] \in i.actors /\ u[2] \in wares}
<1>1. i \in Underway /\ Fits(i, techs, wares) /\ i.st = "uses"
  BY ImportStates, UnderwayType DEF MapSoftware
<1>2. CASE \E u \in mapped : ~There(u[1])
  BY <1>2, DiesKeeps DEF MapSoftware
<1>3. CASE ~\E u \in mapped : ~There(u[1])
  <2>1. /\ uses' = uses \cup mapped
        /\ owed' = owed \cup {u \in SoftwareUses : u[1] \in i.actors}
        /\ ended' = TRUE
        /\ imports' = [imports EXCEPT ![y] = NoImport]
        /\ UNCHANGED <<techs, wares, links, claims, records>>
    BY <1>3 DEF MapSoftware, curationVars
  <2>2. ImportTypes' /\ ParentOrNone' /\ AnalystLinksKept'
    BY <2>1 DEF ImportInv, ImportTypes, ParentOrNone, Parented, AnalystLinksKept
  <2>3. AllFit'
    BY <2>1 DEF ImportInv, ImportTypes, AllFit, Fits, Parented
  <2>4. MappingsStay'
    <3>1. ASSUME NEW u \in SoftwareUses, u[1] \in i.actors
          PROVE  u \notin Pairs /\ u \in uses'
      <4>1. u[2] \in Software /\ u[2] \in wares
        BY <1>1, ImportAssumption DEF Fits
      <4>2. u \notin Pairs
        BY <4>1 DEF BundleClosed, Pairs
      <4>. QED
        BY <2>1, <3>1, <4>1, <4>2
    <3>. QED
      BY <2>1, <3>1 DEF ImportInv, MappingsStay
  <2>5. CatalogueComplete'
    <3>1. ASSUME NEW t \in Listed
          PROVE  techs[t] = [there |-> TRUE, parent |-> ParentOf[t]]
      <4>1. t \in Techniques /\ techs[t].there /\ techs[t].parent = ParentOf[t]
        BY <1>1, ImportAssumption DEF Fits, Parented, Later, Listed
      <4>. QED
        BY <4>1 DEF ImportInv, ImportTypes
    <3>2. Software \subseteq wares
      BY <1>1 DEF Fits
    <3>. QED
      BY <2>1, <3>1, <3>2 DEF CatalogueComplete
  <2>. QED
    BY <2>2, <2>3, <2>4, <2>5 DEF ImportInv
<1>. QED
  BY <1>2, <1>3
-----------------------------------------------------------------------------
(* The analysts beside the imports.                                        *)

LEMMA CurationLinks ==
  ASSUME ImportTypes, AnalystLinksKept, CurationNext
  PROVE  /\ techs' = techs
         /\ links' \in [Pairs -> {"none", "mitre", "analyst"}]
         /\ claims' \subseteq Pairs
         /\ AnalystLinksKept'
<1>1. CASE UNCHANGED linkVars
  BY <1>1 DEF linkVars, ImportTypes, AnalystLinksKept
<1>2. ASSUME NEW e \in Edits, DeleteRecord(e)
      PROVE  /\ techs' = techs
             /\ links' \in [Pairs -> {"none", "mitre", "analyst"}]
             /\ claims' \subseteq Pairs /\ AnalystLinksKept'
  <2>. DEFINE r == edits[e].rec
  <2>1. CASE There(r)
    <3>1. /\ links' = [p \in Pairs |-> IF p[1] = r THEN "none" ELSE links[p]]
          /\ claims' = {p \in claims : p[1] # r} /\ techs' = techs
      BY <1>2, <2>1 DEF DeleteRecord
    <3>. QED
      BY <3>1 DEF ImportTypes, AnalystLinksKept
  <2>2. CASE ~There(r)
    BY <1>1, <1>2, <2>2 DEF DeleteRecord, linkVars
  <2>. QED
    BY <2>1, <2>2
<1>3. ASSUME NEW p \in Pairs, Link(p) \/ Unlink(p)
      PROVE  /\ techs' = techs
             /\ links' \in [Pairs -> {"none", "mitre", "analyst"}]
             /\ claims' \subseteq Pairs /\ AnalystLinksKept'
  BY <1>3 DEF Link, Unlink, ImportTypes, AnalystLinksKept
<1>4. ASSUME NEW e \in Edits,
             \/ \E r \in Records, s \in Slugs, pub \in BOOLEAN : CreateRecord(e, r, s, pub)
             \/ \E r \in Records, what \in {"save", "delete"} : OpenRecord(e, r, what)
             \/ \E s \in Slugs, pub \in BOOLEAN : SaveRecord(e, s, pub)
             \/ WriteAudit(e) \/ EditDies(e)
      PROVE  UNCHANGED linkVars
  BY <1>4 DEF CreateRecord, OpenRecord, SaveRecord, WriteAudit, EditDies
<1>. QED
  BY <1>1, <1>2, <1>3, <1>4 DEF CurationNext

LEMMA CurationStepKeeps ==
  ASSUME ImportInv, CurationStep
  PROVE  ImportInv'
<1>1. /\ techs' = techs /\ links' \in [Pairs -> {"none", "mitre", "analyst"}]
      /\ claims' \subseteq Pairs /\ AnalystLinksKept'
  BY CurationLinks DEF ImportInv, CurationStep
<1>2. UNCHANGED <<imports, wares, ended>>
  BY DEF CurationStep
<1>3. ImportTypes' /\ ParentOrNone' /\ AllFit' /\ CatalogueComplete'
  BY <1>1, <1>2 DEF ImportInv, ImportTypes, ParentOrNone, Parented, AllFit, Fits,
     CatalogueComplete
<1>4. MappingsStay'
  BY DEF CurationStep, ImportInv, MappingsStay
<1>. QED
  BY <1>1, <1>3, <1>4 DEF ImportInv

LEMMA ImportStep ==
  ASSUME BundleClosed, ImportInv, [ImportNext \/ CurationStep]_allVars
  PROVE  ImportInv'
<1>1. CASE ImportNext
  <2>1. PICK y \in Imports :
          \/ BeginImport(y)
          \/ \E t \in Listed : SaveTechnique(y, t) \/ SetParent(y, t)
          \/ ReadActors(y)
          \/ MapTechniques(y)
          \/ \E s \in Software : FindSoftware(y, s)
          \/ SaveSoftware(y)
          \/ ReadActorsAgain(y)
          \/ MapSoftware(y)
          \/ ImportDies(y)
    BY <1>1 DEF ImportNext
  <2>2. CASE ImportDies(y)
    BY <2>2, DiesKeeps DEF ImportDies
  <2>. QED
    BY <2>1, <2>2, BeginImportKeeps, SaveKeeps, ParentKeeps, ActorsKeep, MapKeeps, FindSoftwareKeeps,
       WareKeeps, ImportEndKeeps
<1>2. CASE CurationStep
  BY <1>2, CurationStepKeeps
<1>3. CASE UNCHANGED allVars
  BY <1>3 DEF allVars, importVars, curationVars, ImportInv, ImportTypes, ParentOrNone,
     Parented, AllFit, Fits, AnalystLinksKept, MappingsStay, CatalogueComplete, There
<1>. QED
  BY <1>1, <1>2, <1>3

LEMMA ImportStart ==
  ASSUME CurationInit, ImportInit
  PROVE  ImportInv
<1>1. ImportTypes
  BY DEF CurationInit, ImportInit, ImportTypes
<1>2. ParentOrNone
  BY ImportAssumption DEF CurationInit, ParentOrNone, Listed
<1>3. AllFit /\ AnalystLinksKept /\ MappingsStay /\ CatalogueComplete
  BY DEF CurationInit, ImportInit, AllFit, AnalystLinksKept, MappingsStay, CatalogueComplete
<1>. QED
  BY <1>1, <1>2, <1>3 DEF ImportInv

\* No import takes over a link an analyst added, whatever imports are cut off,
\* repeated or run beside each other (createMany with skipDuplicates in
\* src/lib/attack/sync.ts).
THEOREM AnalystsKeepLinks ==
  ASSUME BundleClosed PROVE ImportSpec => []AnalystLinksKept
<1>1. ImportInv => AnalystLinksKept
  BY DEF ImportInv
<1>2. ImportInv /\ [ImportNext \/ CurationStep]_allVars => ImportInv'
  BY ImportStep
<1>. QED
  BY <1>1, <1>2, ImportStart, PTL DEF ImportSpec

\* What an import has mapped stays linked until somebody removes it, and once
\* one import has come to its end the catalogue is complete, each technique
\* under its parent, for good (ingestParsedBundle in src/lib/attack/sync.ts).
THEOREM CatalogueStays ==
  ASSUME BundleClosed PROVE ImportSpec => []CatalogueHolds
<1>1. ImportInv => CatalogueHolds
  BY DEF ImportInv, CatalogueHolds
<1>2. ImportInv /\ [ImportNext \/ CurationStep]_allVars => ImportInv'
  BY ImportStep
<1>. QED
  BY <1>1, <1>2, ImportStart, PTL DEF ImportSpec
-----------------------------------------------------------------------------
(* The edits of the analysts.                                                *)

rowVars == <<records, writes, edits, trail, contested, published>>
CurationSpec == CurationInit /\ [][CurationNext]_rowVars

EntriesOf(t, r) == {a \in t : a.rec = r}
EntryEnds(S) == {a.to : a \in S}
EntryStarts(S) == {a.from : a \in S}

\* The entries S lead from the creation to the version v; to none yet when v is 0.
Leads(S, v) ==
  /\ IsFiniteSet(S) /\ IsFiniteSet(EntryEnds(S))
  /\ v = 0 => S = {}
  /\ v # 0 => /\ v \in EntryEnds(S)
              /\ EntryStarts(S) = (EntryEnds(S) \ {v}) \cup {0}
              /\ Cardinality(S) = Cardinality(EntryEnds(S))

Concerns(x, r) == x # NoEdit /\ x.rec = r

\* An entry ends at a version there was, or at a deletion that stands.
Dated(a, rows, last) ==
  /\ a.to \in Int /\ a.to <= last /\ a.to # 0
  /\ a.to = -1 => rows[a.rec].ver = -1

CurationShape ==
  /\ records = [r \in Records |-> records[r]]
  /\ edits = [e \in Edits |-> edits[e]]
  /\ published = [r \in Records |-> published[r]]
  /\ writes \in Nat
  /\ \A r \in Records : records[r] \in {Unborn, Dead} \/ records[r].ver \in 1 .. writes
  /\ \A e \in Edits :
       \/ edits[e] = NoEdit
       \/ /\ edits[e].st \in {"save", "delete", "audit"}
          /\ edits[e].rec \in Records /\ records[edits[e].rec].ver # 0
          /\ edits[e].st = "audit" => Dated(edits[e], records, writes)
  /\ \A a \in trail : a.rec \in Records /\ records[a.rec].ver # 0 /\ Dated(a, records, writes)

\* Two actions on one row are on record.
EditsApart ==
  \A e, o \in Edits, r \in Records :
    e # o /\ Concerns(edits[e], r) /\ Concerns(edits[o], r) => r \in contested

\* What an action that has the row to itself holds: the row it read, or the
\* entry that is still missing.
HoldsRow(x, r) ==
  /\ x.st \in {"save", "delete"} =>
       x.before = records[r] /\ Leads(EntriesOf(trail, r), records[r].ver)
  /\ x.st = "audit" =>
       /\ Leads(EntriesOf(trail, r), x.from)
       /\ x.to = records[r].ver /\ x.to \notin EntryEnds(EntriesOf(trail, r))

RowStands(r) ==
  /\ There(r) => records[r].at = published[r]
  /\ \A e \in Edits : Concerns(edits[e], r) => HoldsRow(edits[e], r)
  /\ Settled(r) => Leads(EntriesOf(trail, r), records[r].ver)

CurationInv ==
  CurationShape /\ EditsApart /\ \A r \in Records \ contested : RowStands(r)
-----------------------------------------------------------------------------
LEMMA NoVersions == Unborn.ver = 0 /\ Dead.ver = -1
BY DEF Unborn, Dead

LEMMA RowVersions ==
  ASSUME CurationInv, NEW r \in Records
  PROVE  /\ records[r].ver \in Int /\ records[r].ver <= writes
         /\ (records[r] = Unborn) <=> (records[r].ver = 0)
BY NoVersions DEF CurationInv, CurationShape

LEMMA NothingConcerned ==
  /\ \A r : ~Concerns(NoEdit, r)
  /\ \A r \in Records : Settled(r) <=> \A e \in Edits : ~Concerns(edits[e], r)
BY DEF Concerns, Settled

\* The rows a step does not handle stand as they did.
LEMMA OthersStand ==
  ASSUME CurationInv, NEW r \in Records, RowStands(r),
         records'[r] = records[r], published'[r] = published[r],
         EntriesOf(trail', r) = EntriesOf(trail, r),
         \A e \in Edits : edits'[e] = edits[e]
                          \/ (~Concerns(edits[e], r) /\ ~Concerns(edits'[e], r))
  PROVE  RowStands(r)'
<1>1. \A e \in Edits : Concerns(edits'[e], r) => edits'[e] = edits[e] /\ Concerns(edits[e], r)
  OBVIOUS
<1>2. Settled(r)' => Settled(r)
  BY <1>1 DEF Settled, Concerns
<1>3. There(r)' <=> There(r)
  BY DEF There
<1>4. ASSUME NEW e \in Edits, Concerns(edits[e], r)' PROVE HoldsRow(edits[e], r)'
  <2>1. edits'[e] = edits[e] /\ HoldsRow(edits[e], r)
    BY <1>1, <1>4 DEF RowStands
  <2>. QED
    BY <2>1 DEF HoldsRow
<1>. QED
  BY <1>2, <1>3, <1>4 DEF RowStands

\* A new entry leads on from where the others lead.
LEMMA LeadsOn ==
  ASSUME NEW S, NEW v, NEW w, w # 0, Leads(S, v), w \notin EntryEnds(S),
         NEW a, a.from = v, a.to = w
  PROVE  Leads(S \cup {a}, w)
<1>1. a \notin S
  BY DEF EntryEnds
<1>2. /\ EntryEnds(S \cup {a}) = EntryEnds(S) \cup {w}
      /\ EntryStarts(S \cup {a}) = EntryStarts(S) \cup {v}
  BY DEF EntryEnds, EntryStarts
<1>3. IsFiniteSet(S) /\ IsFiniteSet(EntryEnds(S))
  BY DEF Leads
<1>4. /\ IsFiniteSet(S \cup {a}) /\ Cardinality(S \cup {a}) = Cardinality(S) + 1
      /\ IsFiniteSet(EntryEnds(S) \cup {w})
      /\ Cardinality(EntryEnds(S) \cup {w}) = Cardinality(EntryEnds(S)) + 1
  BY <1>1, <1>3, FS_AddElement
<1>5. CASE v = 0
  <2>1. S = {} /\ EntryEnds(S) = {} /\ EntryStarts(S) = {}
    BY <1>5 DEF Leads, EntryEnds, EntryStarts
  <2>2. Cardinality(S) = Cardinality(EntryEnds(S))
    BY <2>1
  <2>3. EntryStarts(S \cup {a}) = (EntryEnds(S \cup {a}) \ {w}) \cup {0}
    BY <1>2, <1>5, <2>1
  <2>. QED
    BY <1>2, <1>4, <2>2, <2>3 DEF Leads
<1>6. CASE v # 0
  <2>1. v \in EntryEnds(S) /\ EntryStarts(S) = (EntryEnds(S) \ {v}) \cup {0}
    BY <1>6 DEF Leads
  <2>2. Cardinality(S) = Cardinality(EntryEnds(S))
    BY <1>6 DEF Leads
  <2>3. EntryStarts(S \cup {a}) = (EntryEnds(S \cup {a}) \ {w}) \cup {0}
    BY <1>2, <2>1
  <2>. QED
    BY <1>2, <1>4, <2>2, <2>3 DEF Leads
<1>. QED
  BY <1>5, <1>6

LEMMA LeadsNowhere == Leads({}, 0)
<1>1. EntryEnds({}) = {}
  BY DEF EntryEnds
<1>. QED
  BY <1>1, FS_EmptySet DEF Leads
-----------------------------------------------------------------------------
\* A step of action e on row r leaves the other rows as they stand.
LEMMA OneRow ==
  ASSUME CurationInv, NEW e \in Edits, NEW r \in Records,
         CurationShape', contested \subseteq contested',
         \A q \in Records \ {r} : /\ records'[q] = records[q]
                                  /\ published'[q] = published[q]
                                  /\ EntriesOf(trail', q) = EntriesOf(trail, q)
                                  /\ ~Concerns(edits[e], q) /\ ~Concerns(edits'[e], q),
         \A o \in Edits \ {e} : edits'[o] = edits[o],
         Concerns(edits[e], r) \/ r \in contested'
           \/ \A o \in Edits : ~Concerns(edits[o], r),
         r \notin contested' => RowStands(r)'
  PROVE  CurationInv'
<1>1. EditsApart'
  <2>. SUFFICES ASSUME NEW d \in Edits, NEW o \in Edits, NEW q \in Records,
                       d # o, Concerns(edits'[d], q), Concerns(edits'[o], q)
                PROVE  q \in contested'
    BY DEF EditsApart, Concerns
  <2>1. CASE q # r
    BY <2>1 DEF CurationInv, EditsApart
  <2>2. CASE q = r
    BY <2>2 DEF CurationInv, EditsApart
  <2>. QED
    BY <2>1, <2>2
<1>2. ASSUME NEW q \in Records \ contested', q # r PROVE RowStands(q)'
  <2>1. RowStands(q)
    BY <1>2 DEF CurationInv
  <2>2. \A o \in Edits : edits'[o] = edits[o]
                         \/ (~Concerns(edits[o], q) /\ ~Concerns(edits'[o], q))
    BY <1>2
  <2>. QED
    BY <1>2, <2>1, <2>2, OthersStand
<1>. QED
  BY <1>1, <1>2 DEF CurationInv

\* A step of action e on row r keeps the shape when what it writes has it.
LEMMA ShapeKeeps ==
  ASSUME CurationInv, NEW e \in Edits, NEW r \in Records,
         writes' \in Nat, writes <= writes',
         records' = [q \in Records |-> records'[q]],
         edits' = [o \in Edits |-> edits'[o]],
         published' = [q \in Records |-> published'[q]],
         \A q \in Records \ {r} : records'[q] = records[q],
         \A o \in Edits \ {e} : edits'[o] = edits[o],
         records'[r] = Dead \/ records'[r].ver \in 1 .. writes',
         records[r].ver # -1 \/ records'[r] = records[r],
         \/ edits'[e] = NoEdit
         \/ /\ edits'[e].st \in {"save", "delete", "audit"} /\ edits'[e].rec = r
            /\ edits'[e].st = "audit" => Dated(edits'[e], records', writes'),
         \A a \in trail' \ trail : a.rec = r /\ Dated(a, records', writes')
  PROVE  CurationShape'
<1>1. records'[r].ver # 0
  BY NoVersions
<1>2. \A q \in Records : records[q].ver # 0 => records'[q].ver # 0
  BY <1>1
<1>3. \A q \in Records : records[q].ver = -1 => records'[q].ver = -1
  OBVIOUS
<1>4. \A q \in Records : records'[q] \in {Unborn, Dead} \/ records'[q].ver \in 1 .. writes'
  BY DEF CurationInv, CurationShape
<1>5. \A a : a.rec \in Records /\ Dated(a, records, writes) => Dated(a, records', writes')
  BY <1>3 DEF Dated, CurationInv, CurationShape
<1>6. ASSUME NEW o \in Edits
      PROVE  \/ edits'[o] = NoEdit
             \/ /\ edits'[o].st \in {"save", "delete", "audit"}
                /\ edits'[o].rec \in Records /\ records'[edits'[o].rec].ver # 0
                /\ edits'[o].st = "audit" => Dated(edits'[o], records', writes')
  <2>1. CASE o = e
    BY <1>1, <2>1
  <2>2. CASE o # e
    BY <1>2, <1>5, <2>2 DEF CurationInv, CurationShape
  <2>. QED
    BY <2>1, <2>2
<1>7. \A a \in trail' : a.rec \in Records /\ records'[a.rec].ver # 0 /\ Dated(a, records', writes')
  BY <1>1, <1>2, <1>5 DEF CurationInv, CurationShape
<1>. QED
  BY <1>4, <1>6, <1>7 DEF CurationShape
-----------------------------------------------------------------------------
LEMMA CreateRecordKeeps ==
  ASSUME CurationInv, NEW e \in Edits, NEW r \in Records, NEW s \in Slugs,
         NEW pub \in BOOLEAN, CreateRecord(e, r, s, pub)
  PROVE  CurationInv'
<1>. DEFINE at == IF pub THEN clock ELSE 0
            row == [ver |-> writes + 1, slug |-> s, at |-> at]
            x == [st |-> "audit", rec |-> r, from |-> 0, to |-> writes + 1]
<1>1. /\ edits[e] = NoEdit /\ records[r] = Unborn
      /\ writes' = writes + 1
      /\ records' = [records EXCEPT ![r] = row]
      /\ edits' = [edits EXCEPT ![e] = x]
      /\ published' = [published EXCEPT ![r] = at]
      /\ UNCHANGED <<trail, contested>>
  BY DEF CreateRecord, Recorded
<1>2. /\ row.ver = writes + 1 /\ row.at = at
      /\ x.st = "audit" /\ x.rec = r /\ x.from = 0 /\ x.to = writes + 1
  OBVIOUS
<1>. HIDE DEF row, x
<1>3. writes \in Nat /\ records[r].ver = 0
  BY <1>1, RowVersions DEF CurationInv, CurationShape
<1>4. /\ records' = [q \in Records |-> records'[q]]
      /\ edits' = [o \in Edits |-> edits'[o]]
      /\ published' = [q \in Records |-> published'[q]]
      /\ records'[r] = row /\ \A q \in Records \ {r} : records'[q] = records[q]
      /\ edits'[e] = x /\ \A o \in Edits \ {e} : edits'[o] = edits[o]
      /\ published'[r] = at /\ \A q \in Records \ {r} : published'[q] = published[q]
  BY <1>1 DEF CurationInv, CurationShape
<1>5. \A o \in Edits : ~Concerns(edits[o], r)
  BY <1>1, <1>3, NothingConcerned DEF CurationInv, CurationShape, Concerns
<1>6. EntriesOf(trail, r) = {}
  BY <1>3 DEF CurationInv, CurationShape, EntriesOf
<1>7. CurationShape'
  <2>1. Dated(edits'[e], records', writes')
    BY <1>1, <1>2, <1>3, <1>4 DEF Dated
  <2>2. /\ writes' \in Nat /\ writes <= writes'
        /\ records'[r] = Dead \/ records'[r].ver \in 1 .. writes'
        /\ records[r].ver # -1
        /\ edits'[e].st \in {"save", "delete", "audit"} /\ edits'[e].rec = r
        /\ \A a \in trail' \ trail : a.rec = r /\ Dated(a, records', writes')
    BY <1>1, <1>2, <1>3, <1>4
  <2>. QED
    BY <1>4, <2>1, <2>2, ShapeKeeps
<1>8. RowStands(r)'
  <2>1. There(r)' => records'[r].at = published'[r]
    BY <1>2, <1>4
  <2>2. \A o \in Edits : Concerns(edits'[o], r) => o = e
    BY <1>4, <1>5
  <2>3. HoldsRow(edits[e], r)'
    BY <1>1, <1>2, <1>4, <1>6, LeadsNowhere DEF HoldsRow, EntryEnds
  <2>4. ~Settled(r)'
    BY <1>2, <1>4 DEF Settled, NoEdit
  <2>. QED
    BY <2>1, <2>2, <2>3, <2>4 DEF RowStands
<1>9. \A q \in Records \ {r} : ~Concerns(edits[e], q) /\ ~Concerns(edits'[e], q)
  BY <1>1, <1>2, <1>4 DEF Concerns
<1>. QED
  BY <1>1, <1>4, <1>5, <1>7, <1>8, <1>9, OneRow

LEMMA OpenRecordKeeps ==
  ASSUME CurationInv, NEW e \in Edits, NEW r \in Records,
         NEW what \in {"save", "delete"}, OpenRecord(e, r, what)
  PROVE  CurationInv'
<1>. DEFINE x == [st |-> what, rec |-> r, before |-> records[r]]
<1>1. /\ edits[e] = NoEdit /\ There(r)
      /\ edits' = [edits EXCEPT ![e] = x]
      /\ contested' = contested \cup Handled(e, r)
      /\ UNCHANGED <<records, writes, trail, published>>
  BY DEF OpenRecord
<1>2. x.st = what /\ x.rec = r /\ x.before = records[r]
  OBVIOUS
<1>. HIDE DEF x
<1>3. x # NoEdit
  BY <1>2 DEF NoEdit
<1>4. /\ edits' = [o \in Edits |-> edits'[o]]
      /\ edits'[e] = x /\ \A o \in Edits \ {e} : edits'[o] = edits[o]
  BY <1>1 DEF CurationInv, CurationShape
<1>5. r \in contested' \/ \A o \in Edits : ~Concerns(edits[o], r)
  BY <1>1 DEF Handled, Concerns
<1>6. CurationShape'
  <2>1. records[r].ver \in 1 .. writes
    BY <1>1, NoVersions DEF There, CurationInv, CurationShape
  <2>2. writes \in Nat
    BY DEF CurationInv, CurationShape
  <2>3. /\ records' = [q \in Records |-> records'[q]]
        /\ published' = [q \in Records |-> published'[q]]
    BY <1>1 DEF CurationInv, CurationShape
  <2>4. /\ writes' \in Nat /\ writes <= writes'
        /\ \A q \in Records \ {r} : records'[q] = records[q]
        /\ records'[r] = Dead \/ records'[r].ver \in 1 .. writes'
        /\ records[r].ver # -1
        /\ edits'[e].st \in {"save", "delete", "audit"} /\ edits'[e].rec = r
        /\ edits'[e].st # "audit"
        /\ \A a \in trail' \ trail : a.rec = r /\ Dated(a, records', writes')
    BY <1>1, <1>2, <1>4, <2>1, <2>2
  <2>. QED
    BY <1>4, <2>3, <2>4, ShapeKeeps
<1>7. ASSUME r \notin contested' PROVE RowStands(r)'
  <2>1. RowStands(r) /\ Settled(r)
    BY <1>1, <1>5, <1>7, NothingConcerned DEF CurationInv
  <2>2. Leads(EntriesOf(trail, r), records[r].ver)
    BY <2>1 DEF RowStands
  <2>3. \A o \in Edits : Concerns(edits'[o], r) => o = e
    BY <1>4, <1>5, <1>7
  <2>4. HoldsRow(edits[e], r)'
    BY <1>1, <1>2, <1>4, <2>2 DEF HoldsRow
  <2>5. ~Settled(r)'
    BY <1>2, <1>3, <1>4 DEF Settled
  <2>6. There(r)' => records'[r].at = published'[r]
    BY <1>1, <2>1 DEF RowStands
  <2>. QED
    BY <2>3, <2>4, <2>5, <2>6 DEF RowStands
<1>8. \A q \in Records \ {r} : ~Concerns(edits[e], q) /\ ~Concerns(edits'[e], q)
  BY <1>1, <1>2, <1>4 DEF Concerns
<1>. QED
  BY <1>1, <1>4, <1>5, <1>6, <1>7, <1>8, OneRow

\* An action that has its row to itself.
LEMMA RowToItself ==
  ASSUME CurationInv, NEW e \in Edits, NEW r \in Records \ contested,
         Concerns(edits[e], r)
  PROVE  /\ HoldsRow(edits[e], r) /\ (There(r) => records[r].at = published[r])
         /\ \A o \in Edits \ {e} : ~Concerns(edits[o], r)
BY DEF CurationInv, EditsApart, RowStands

\* The version a write leads to is new to the trail.
LEMMA NewVersion ==
  ASSUME CurationInv, NEW r \in Records
  PROVE  /\ writes + 1 \notin EntryEnds(EntriesOf(trail, r))
         /\ There(r) => -1 \notin EntryEnds(EntriesOf(trail, r))
BY DEF CurationInv, CurationShape, Dated, EntryEnds, EntriesOf, There

\* A rejected statement leaves the row and the trail as the action found them.
LEMMA GivenUp ==
  ASSUME CurationInv, NEW e \in Edits, NEW r \in Records, Concerns(edits[e], r),
         edits[e].st \in {"save", "delete"}, records[r].ver # 0,
         edits' = [edits EXCEPT ![e] = NoEdit],
         UNCHANGED <<records, writes, published, trail, contested>>
  PROVE  CurationInv'
<1>1. /\ edits' = [o \in Edits |-> edits'[o]]
      /\ edits'[e] = NoEdit /\ \A o \in Edits \ {e} : edits'[o] = edits[o]
  BY DEF CurationInv, CurationShape
<1>2. CurationShape'
  <2>1. /\ writes \in Nat
        /\ records' = [q \in Records |-> records'[q]]
        /\ published' = [q \in Records |-> published'[q]]
        /\ records[r] = Dead \/ records[r].ver \in 1 .. writes
    BY NoVersions DEF CurationInv, CurationShape
  <2>2. /\ writes' \in Nat /\ writes <= writes'
        /\ \A q \in Records \ {r} : records'[q] = records[q]
        /\ records'[r] = Dead \/ records'[r].ver \in 1 .. writes'
        /\ records'[r] = records[r]
        /\ \A a \in trail' \ trail : a.rec = r /\ Dated(a, records', writes')
    BY <2>1
  <2>. QED
    BY <1>1, <2>1, <2>2, ShapeKeeps
<1>3. ASSUME r \notin contested PROVE RowStands(r)'
  <2>1. /\ HoldsRow(edits[e], r) /\ (There(r) => records[r].at = published[r])
        /\ \A o \in Edits \ {e} : ~Concerns(edits[o], r)
    BY <1>3, RowToItself
  <2>2. Leads(EntriesOf(trail, r), records[r].ver)
    BY <2>1 DEF HoldsRow
  <2>3. \A o \in Edits : ~Concerns(edits'[o], r)
    BY <1>1, <2>1, NothingConcerned
  <2>4. Leads(EntriesOf(trail, r), records[r].ver)'
    BY <2>2 DEF EntriesOf
  <2>5. There(r)' => records'[r].at = published'[r]
    BY <2>1 DEF There
  <2>. QED
    BY <2>3, <2>4, <2>5 DEF RowStands
<1>4. \A q \in Records \ {r} : ~Concerns(edits[e], q) /\ ~Concerns(edits'[e], q)
  BY <1>1, NothingConcerned DEF Concerns
<1>. QED
  BY <1>1, <1>2, <1>3, <1>4, OneRow

LEMMA SaveRecordKeeps ==
  ASSUME CurationInv, NEW e \in Edits, NEW s \in Slugs,
         NEW pub \in BOOLEAN, SaveRecord(e, s, pub)
  PROVE  CurationInv'
<1>1. edits[e].st = "save"
  BY DEF SaveRecord
<1>2. edits[e] # NoEdit
  BY <1>1 DEF NoEdit
<1>3. PICK r \in Records : r = edits[e].rec /\ records[r].ver # 0
  BY <1>2 DEF CurationInv, CurationShape
<1>. DEFINE before == edits[e].before
            at == PublishedAt(before, pub)
            row == [ver |-> writes + 1, slug |-> s, at |-> at]
            x == [st |-> "audit", rec |-> r, from |-> before.ver, to |-> writes + 1]
            first == IF published[r] = 0 /\ pub THEN clock ELSE published[r]
<1>4. writes \in Nat /\ Concerns(edits[e], r) /\ UNCHANGED <<trail, contested>>
  BY <1>2, <1>3 DEF CurationInv, CurationShape, Concerns, SaveRecord
<1>5. CASE There(r) /\ ~SlugTaken(r, s)
  <2>1. /\ writes' = writes + 1
        /\ records' = [records EXCEPT ![r] = row]
        /\ edits' = [edits EXCEPT ![e] = x]
        /\ published' = [published EXCEPT ![r] = first]
    BY <1>3, <1>5 DEF SaveRecord, Recorded
  <2>2. /\ row.ver = writes + 1 /\ row.at = at
        /\ x.st = "audit" /\ x.rec = r /\ x.from = before.ver /\ x.to = writes + 1
    OBVIOUS
  <2>. HIDE DEF row, x
  <2>3. /\ records' = [q \in Records |-> records'[q]]
        /\ edits' = [o \in Edits |-> edits'[o]]
        /\ published' = [q \in Records |-> published'[q]]
        /\ records'[r] = row /\ \A q \in Records \ {r} : records'[q] = records[q]
        /\ edits'[e] = x /\ \A o \in Edits \ {e} : edits'[o] = edits[o]
        /\ published'[r] = first /\ \A q \in Records \ {r} : published'[q] = published[q]
    BY <1>3, <2>1 DEF CurationInv, CurationShape
  <2>4. CurationShape'
    <3>1. Dated(edits'[e], records', writes')
      BY <1>4, <2>1, <2>2, <2>3 DEF Dated
    <3>2. /\ writes' \in Nat /\ writes <= writes'
          /\ records'[r] = Dead \/ records'[r].ver \in 1 .. writes'
          /\ records[r].ver # -1
          /\ edits'[e].st \in {"save", "delete", "audit"} /\ edits'[e].rec = r
          /\ \A a \in trail' \ trail : a.rec = r /\ Dated(a, records', writes')
      BY <1>4, <1>5, <2>1, <2>2, <2>3 DEF There
    <3>. QED
      BY <2>3, <3>1, <3>2, ShapeKeeps
  <2>5. ASSUME r \notin contested PROVE RowStands(r)'
    <3>1. /\ HoldsRow(edits[e], r) /\ records[r].at = published[r]
          /\ \A o \in Edits \ {e} : ~Concerns(edits[o], r)
      BY <1>4, <1>5, <2>5, RowToItself
    <3>2. before = records[r] /\ Leads(EntriesOf(trail, r), records[r].ver)
      BY <1>1, <3>1 DEF HoldsRow
    <3>3. at = first
      BY <3>1, <3>2 DEF PublishedAt
    <3>4. HoldsRow(edits[e], r)'
      BY <1>4, <2>1, <2>2, <2>3, <3>2, NewVersion DEF HoldsRow
    <3>5. \A o \in Edits : Concerns(edits'[o], r) => o = e
      BY <2>3, <3>1
    <3>6. ~Settled(r)'
      BY <2>2, <2>3 DEF Settled, NoEdit
    <3>7. There(r)' => records'[r].at = published'[r]
      BY <2>2, <2>3, <3>3
    <3>. QED
      BY <3>4, <3>5, <3>6, <3>7 DEF RowStands
  <2>6. \A q \in Records \ {r} : ~Concerns(edits[e], q) /\ ~Concerns(edits'[e], q)
    BY <1>3, <2>2, <2>3 DEF Concerns
  <2>. QED
    BY <1>4, <2>3, <2>4, <2>5, <2>6, OneRow
<1>6. CASE ~(There(r) /\ ~SlugTaken(r, s))
  <2>1. edits' = [edits EXCEPT ![e] = NoEdit] /\ UNCHANGED <<records, writes, published>>
    BY <1>3, <1>6 DEF SaveRecord
  <2>. QED
    BY <1>1, <1>3, <1>4, <2>1, GivenUp
<1>. QED
  BY <1>5, <1>6

LEMMA DeleteRecordKeeps ==
  ASSUME CurationInv, NEW e \in Edits, DeleteRecord(e)
  PROVE  CurationInv'
<1>1. edits[e].st = "delete"
  BY DEF DeleteRecord
<1>2. edits[e] # NoEdit
  BY <1>1 DEF NoEdit
<1>3. PICK r \in Records : r = edits[e].rec /\ records[r].ver # 0
  BY <1>2 DEF CurationInv, CurationShape
<1>. DEFINE before == edits[e].before
            x == [st |-> "audit", rec |-> r, from |-> before.ver, to |-> -1]
<1>4. /\ writes \in Nat /\ Concerns(edits[e], r)
      /\ UNCHANGED <<writes, trail, contested, published>>
  BY <1>2, <1>3 DEF CurationInv, CurationShape, Concerns, DeleteRecord
<1>5. CASE There(r)
  <2>1. /\ records' = [records EXCEPT ![r] = Dead]
        /\ edits' = [edits EXCEPT ![e] = x]
    BY <1>3, <1>5 DEF DeleteRecord
  <2>2. x.st = "audit" /\ x.rec = r /\ x.from = before.ver /\ x.to = -1
    OBVIOUS
  <2>. HIDE DEF x
  <2>3. /\ records' = [q \in Records |-> records'[q]]
        /\ edits' = [o \in Edits |-> edits'[o]]
        /\ published' = [q \in Records |-> published'[q]]
        /\ records'[r] = Dead /\ \A q \in Records \ {r} : records'[q] = records[q]
        /\ edits'[e] = x /\ \A o \in Edits \ {e} : edits'[o] = edits[o]
        /\ \A q \in Records : published'[q] = published[q]
    BY <1>3, <1>4, <2>1 DEF CurationInv, CurationShape
  <2>4. CurationShape'
    <3>1. Dated(edits'[e], records', writes')
      BY <1>4, <2>1, <2>2, <2>3, NoVersions DEF Dated
    <3>2. /\ writes' \in Nat /\ writes <= writes'
          /\ records'[r] = Dead \/ records'[r].ver \in 1 .. writes'
          /\ records[r].ver # -1
          /\ edits'[e].st \in {"save", "delete", "audit"} /\ edits'[e].rec = r
          /\ \A a \in trail' \ trail : a.rec = r /\ Dated(a, records', writes')
      BY <1>4, <1>5, <2>1, <2>2, <2>3 DEF There
    <3>. QED
      BY <2>3, <3>1, <3>2, ShapeKeeps
  <2>5. ASSUME r \notin contested PROVE RowStands(r)'
    <3>1. /\ HoldsRow(edits[e], r)
          /\ \A o \in Edits \ {e} : ~Concerns(edits[o], r)
      BY <1>4, <2>5, RowToItself
    <3>2. before = records[r] /\ Leads(EntriesOf(trail, r), records[r].ver)
      BY <1>1, <3>1 DEF HoldsRow
    <3>3. HoldsRow(edits[e], r)'
      BY <1>4, <1>5, <2>1, <2>2, <2>3, <3>2, NewVersion, NoVersions DEF HoldsRow
    <3>4. \A o \in Edits : Concerns(edits'[o], r) => o = e
      BY <2>3, <3>1
    <3>5. ~Settled(r)'
      BY <2>2, <2>3 DEF Settled, NoEdit
    <3>6. ~There(r)'
      BY <2>3, NoVersions DEF There
    <3>. QED
      BY <3>3, <3>4, <3>5, <3>6 DEF RowStands
  <2>6. \A q \in Records \ {r} : ~Concerns(edits[e], q) /\ ~Concerns(edits'[e], q)
    BY <1>3, <2>2, <2>3 DEF Concerns
  <2>. QED
    BY <1>4, <2>3, <2>4, <2>5, <2>6, OneRow
<1>6. CASE ~There(r)
  <2>1. edits' = [edits EXCEPT ![e] = NoEdit] /\ UNCHANGED <<records, writes, published>>
    BY <1>3, <1>6 DEF DeleteRecord
  <2>. QED
    BY <1>1, <1>3, <1>4, <2>1, GivenUp
<1>. QED
  BY <1>5, <1>6

LEMMA WriteAuditKeeps ==
  ASSUME CurationInv, NEW e \in Edits, WriteAudit(e)
  PROVE  CurationInv'
<1>1. edits[e].st = "audit"
  BY DEF WriteAudit
<1>2. edits[e] # NoEdit
  BY <1>1 DEF NoEdit
<1>3. PICK r \in Records : r = edits[e].rec /\ records[r].ver # 0
  BY <1>2 DEF CurationInv, CurationShape
<1>. DEFINE a == Entry(e)
<1>4. /\ writes \in Nat /\ Concerns(edits[e], r)
      /\ edits' = [edits EXCEPT ![e] = NoEdit]
      /\ trail' = trail \cup {a}
      /\ UNCHANGED <<records, writes, contested, published>>
  BY <1>2, <1>3 DEF CurationInv, CurationShape, Concerns, WriteAudit
<1>5. a.rec = r /\ a.from = edits[e].from /\ a.to = edits[e].to
  BY <1>3 DEF Entry
<1>. HIDE DEF a
<1>6. /\ records' = [q \in Records |-> records'[q]]
      /\ edits' = [o \in Edits |-> edits'[o]]
      /\ published' = [q \in Records |-> published'[q]]
      /\ edits'[e] = NoEdit /\ \A o \in Edits \ {e} : edits'[o] = edits[o]
  BY <1>4 DEF CurationInv, CurationShape
<1>7. CurationShape'
  <2>1. Dated(a, records', writes')
    BY <1>1, <1>2, <1>3, <1>4, <1>5 DEF Dated, CurationInv, CurationShape
  <2>2. /\ writes' \in Nat /\ writes <= writes'
        /\ \A q \in Records \ {r} : records'[q] = records[q]
        /\ records'[r] = Dead \/ records'[r].ver \in 1 .. writes'
        /\ records'[r] = records[r]
        /\ \A b \in trail' \ trail : b.rec = r /\ Dated(b, records', writes')
    BY <1>3, <1>4, <1>5, <2>1, NoVersions DEF CurationInv, CurationShape
  <2>. QED
    BY <1>6, <2>2, ShapeKeeps
<1>8. EntriesOf(trail', r) = EntriesOf(trail, r) \cup {a}
  BY <1>4, <1>5 DEF EntriesOf
<1>9. ASSUME r \notin contested PROVE RowStands(r)'
  <2>1. /\ HoldsRow(edits[e], r) /\ (There(r) => records[r].at = published[r])
        /\ \A o \in Edits \ {e} : ~Concerns(edits[o], r)
    BY <1>4, <1>9, RowToItself
  <2>2. /\ Leads(EntriesOf(trail, r), a.from)
        /\ a.to = records[r].ver /\ a.to \notin EntryEnds(EntriesOf(trail, r))
    BY <1>1, <1>5, <2>1 DEF HoldsRow
  <2>3. Leads(EntriesOf(trail, r) \cup {a}, records[r].ver)
    BY <1>3, <2>2, LeadsOn
  <2>4. Leads(EntriesOf(trail, r), records[r].ver)'
    BY <1>4, <1>8, <2>3
  <2>5. \A o \in Edits : ~Concerns(edits'[o], r)
    BY <1>6, <2>1, NothingConcerned
  <2>6. There(r)' => records'[r].at = published'[r]
    BY <1>4, <2>1 DEF There
  <2>. QED
    BY <2>4, <2>5, <2>6 DEF RowStands
<1>10. \A q \in Records \ {r} : /\ ~Concerns(edits[e], q) /\ ~Concerns(edits'[e], q)
                                /\ EntriesOf(trail', q) = EntriesOf(trail, q)
  BY <1>3, <1>4, <1>5, <1>6, NothingConcerned DEF Concerns, EntriesOf
<1>. QED
  BY <1>4, <1>6, <1>7, <1>9, <1>10, OneRow

LEMMA EditDiesKeeps ==
  ASSUME CurationInv, NEW e \in Edits, EditDies(e)
  PROVE  CurationInv'
<1>1. edits[e] # NoEdit
  BY DEF EditDies
<1>2. PICK r \in Records : r = edits[e].rec /\ records[r].ver # 0
  BY <1>1 DEF CurationInv, CurationShape
<1>3. /\ writes \in Nat /\ contested' = contested \cup {r}
      /\ edits' = [edits EXCEPT ![e] = NoEdit]
      /\ UNCHANGED <<records, writes, trail, published>>
  BY <1>2 DEF EditDies, CurationInv, CurationShape
<1>4. /\ records' = [q \in Records |-> records'[q]]
      /\ edits' = [o \in Edits |-> edits'[o]]
      /\ published' = [q \in Records |-> published'[q]]
      /\ edits'[e] = NoEdit /\ \A o \in Edits \ {e} : edits'[o] = edits[o]
  BY <1>3 DEF CurationInv, CurationShape
<1>5. CurationShape'
  <2>1. /\ writes' \in Nat /\ writes <= writes'
        /\ \A q \in Records \ {r} : records'[q] = records[q]
        /\ records'[r] = Dead \/ records'[r].ver \in 1 .. writes'
        /\ records'[r] = records[r]
        /\ \A a \in trail' \ trail : a.rec = r /\ Dated(a, records', writes')
    BY <1>2, <1>3, NoVersions DEF CurationInv, CurationShape
  <2>. QED
    BY <1>4, <2>1, ShapeKeeps
<1>6. \A q \in Records \ {r} : /\ ~Concerns(edits[e], q) /\ ~Concerns(edits'[e], q)
                               /\ EntriesOf(trail', q) = EntriesOf(trail, q)
  BY <1>2, <1>3, <1>4, NothingConcerned DEF Concerns
<1>. QED
  BY <1>3, <1>4, <1>5, <1>6, OneRow

LEMMA CurationStays ==
  ASSUME CurationInv, UNCHANGED rowVars
  PROVE  CurationInv'
<1>1. UNCHANGED <<records, edits, published, writes, trail, contested>>
  BY DEF rowVars
<1>2. CurationShape'
  BY <1>1 DEF CurationInv, CurationShape
<1>3. EditsApart'
  BY <1>1 DEF CurationInv, EditsApart
<1>4. ASSUME NEW r \in Records \ contested' PROVE RowStands(r)'
  <2>1. RowStands(r)
    BY <1>1 DEF CurationInv
  <2>2. (There(r)' <=> There(r)) /\ (Settled(r)' <=> Settled(r))
    BY <1>1 DEF There, Settled
  <2>3. ASSUME NEW e \in Edits, Concerns(edits'[e], r) PROVE HoldsRow(edits[e], r)'
    <3>1. HoldsRow(edits[e], r)
      BY <1>1, <2>1, <2>3 DEF RowStands
    <3>. QED
      BY <1>1, <3>1 DEF HoldsRow
  <2>. QED
    BY <1>1, <2>1, <2>2, <2>3 DEF RowStands
<1>. QED
  BY <1>2, <1>3, <1>4 DEF CurationInv

LEMMA CurationKeeps ==
  ASSUME CurationInv, [CurationNext]_rowVars
  PROVE  CurationInv'
<1>1. ASSUME NEW p \in Pairs, Link(p) \/ Unlink(p) PROVE UNCHANGED rowVars
  BY <1>1 DEF Link, Unlink, rowVars
<1>. QED
  BY <1>1, CreateRecordKeeps, OpenRecordKeeps, SaveRecordKeeps, DeleteRecordKeeps,
     WriteAuditKeeps, EditDiesKeeps, CurationStays DEF CurationNext

LEMMA CurationStarts == CurationInit => CurationInv
<1>. SUFFICES ASSUME CurationInit PROVE CurationInv
  OBVIOUS
<1>1. /\ records = [r \in Records |-> Unborn] /\ writes = 0 /\ trail = {}
      /\ edits = [e \in Edits |-> NoEdit] /\ contested = {}
      /\ published = [r \in Records |-> 0]
  BY DEF CurationInit
<1>2. CurationShape
  BY <1>1 DEF CurationShape
<1>3. \A e \in Edits, r \in Records : ~Concerns(edits[e], r)
  BY <1>1 DEF Concerns
<1>4. ASSUME NEW r \in Records PROVE RowStands(r)
  <2>1. EntriesOf(trail, r) = {} /\ records[r].ver = 0
    BY <1>1, NoVersions DEF EntriesOf
  <2>. QED
    BY <1>3, <2>1, LeadsNowhere DEF RowStands, There
<1>. QED
  BY <1>2, <1>3, <1>4 DEF CurationInv, EditsApart

LEMMA CurationShows == CurationInv => CurationKept
<1>. SUFFICES ASSUME CurationInv PROVE CurationKept
  OBVIOUS
<1>1. PublicationKept
  BY DEF CurationInv, RowStands, PublicationKept
<1>2. ASSUME NEW r \in Records \ contested, Settled(r), records[r] # Unborn
      PROVE  LET of == {a \in trail : a.rec = r}
                 ends == {a.to : a \in of}
             IN  /\ records[r].ver \in ends
                 /\ {a.from : a \in of} = (ends \ {records[r].ver}) \cup {0}
                 /\ Cardinality(of) = Cardinality(ends)
  <2>1. Leads(EntriesOf(trail, r), records[r].ver) /\ records[r].ver # 0
    BY <1>2, RowVersions DEF CurationInv, RowStands
  <2>. QED
    BY <2>1 DEF Leads, EntryEnds, EntryStarts, EntriesOf
<1>. QED
  BY <1>1, <1>2 DEF CurationKept, TrailLeads

\* The dates of publication and the trail of the curated rows (see CurationKept),
\* whatever saves, deletions and failures come between.
THEOREM CurationIsKept == CurationSpec => []CurationKept
<1>. QED
  BY CurationStarts, CurationKeeps, CurationShows, PTL DEF CurationSpec
=============================================================================
