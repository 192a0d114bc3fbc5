---------------------------- MODULE HuntsProofs ----------------------------
(*****************************************************************************)
(* SightingsKept, NewMatchesAlerted and NoRepeatedAlert, for any values,     *)
(* sources, ingests, hunts and runs at once.                                 *)
(*                                                                           *)
(* An ingest reads the stored rows, inserts the new ones and touches the     *)
(* others in three statements, with deletions and other ingests between      *)
(* them; its invariant says what each call in progress knows of the rows     *)
(* it has read.                                                              *)
(*                                                                           *)
(* A hunt run finds the matches, stamps the hunt, and alerts. The            *)
(* invariant accounts for every match a sweep saw: it is alerted, or the     *)
(* sweep does not notify or cut it off, or an earlier sweep could have       *)
(* seen it and missed it or told nobody. Sweeps are numbered, so no          *)
(* account goes round in a circle.                                           *)
(*****************************************************************************)
EXTENDS Hunts, TLAPS

\* The indicators in a system whose other parts share only the clock and the upsets.
IngestElsewhere == (Pass \/ Upset) /\ UNCHANGED ingestVars
IngestSpec ==
  /\ EnvironmentInit /\ IngestInit
  /\ [][IngestNext \/ IngestElsewhere]_<<environment, ingestVars>>

KnownRow == [id : Nat \ {0}, born : Nat, seen : Nat, expires : Nat, white : BOOLEAN]
Hits == Values \X (Nat \ {0})
Selecting ==
  [st : {"select"}, src : Sources \cup {NoSource}, input : SUBSET Values, at : Nat, exp : Nat]
Writing ==
  [st : {"insert", "touch"}, src : Sources \cup {NoSource}, input : SUBSET Values, at : Nat,
   exp : Nat, created : Nat, hits : SUBSET Hits]
Claims == [seen : Nat, until : Nat]

IngestTypes ==
  /\ clock \in Nat \ {0}
  /\ table \in [Values -> {Absent} \cup KnownRow]
  /\ births \in [Values -> Nat]
  /\ ingests \in [Ingests -> {Resting, Ended} \cup Selecting \cup Writing]
  /\ claimed \in [Values -> Claims]
  /\ raced \subseteq Values
  /\ \A v \in Values : /\ Stored(v) => table[v].id <= births[v] /\ table[v].born \in 1 .. clock
                       /\ ~Stored(v) => claimed[v] = NoClaim
  /\ \A r \in Ingests : ingests[r] \in Writing =>
       /\ ingests[r].created \in 1 .. clock
       /\ \A h \in ingests[r].hits : h[1] \in ingests[r].input

\* A call has a value that no other call handled to itself.
CallsApart ==
  \A r, o \in Ingests : r # o /\ Busy(r) /\ Busy(o) =>
    ingests[r].input \cap ingests[o].input \subseteq raced

\* What the call c knows of the row of v: it read its id, or inserted it.
KnowsRow(c, v) ==
  \/ <<v, table[v].id>> \in c.hits
  \/ /\ c.st = "touch"
     /\ table[v].seen = c.at /\ table[v].expires = c.exp /\ claimed[v] = NoClaim

CallsKnow ==
  \A r \in Ingests : ingests[r] \in Writing =>
    \A v \in ingests[r].input \ raced : Stored(v) => KnowsRow(ingests[r], v)

IngestInv == IngestTypes /\ CallsApart /\ CallsKnow /\ SightingsKept
-----------------------------------------------------------------------------
LEMMA CallStates ==
  /\ Resting.st = "resting" /\ Ended.st = "ended" /\ NoClaim \in Claims
  /\ NoClaim.seen = 0 /\ NoClaim.until = 0
  /\ \A c \in Selecting : /\ c.st = "select" /\ c.src \in Sources \cup {NoSource}
                          /\ c.input \subseteq Values /\ c.at \in Nat /\ c.exp \in Nat
  /\ \A c \in Writing : /\ c.st \in {"insert", "touch"} /\ c.src \in Sources \cup {NoSource}
                        /\ c.input \subseteq Values /\ c.at \in Nat /\ c.exp \in Nat
                        /\ c.created \in Nat /\ c.hits \subseteq Hits
BY DEF Resting, Ended, NoClaim, Claims, Selecting, Writing

LEMMA RowStates ==
  /\ Absent.id = 0
  /\ \A x \in KnownRow : /\ x.id \in Nat \ {0} /\ x.born \in Nat /\ x.seen \in Nat
                      /\ x.expires \in Nat /\ x.white \in BOOLEAN
  /\ \A x \in Claims : x.seen \in Nat /\ x.until \in Nat
BY DEF Absent, KnownRow, Claims

\* A call is at rest, has ended, selects or writes.
LEMMA CallStages ==
  ASSUME IngestTypes, NEW r \in Ingests
  PROVE  /\ Busy(r) <=> (ingests[r] \in Selecting \cup Writing)
         /\ (ingests[r].st = "select") <=> (ingests[r] \in Selecting)
         /\ (ingests[r].st \in {"insert", "touch"}) <=> (ingests[r] \in Writing)
         /\ Busy(r) => ingests[r].input \subseteq Values
<1>1. ingests[r] \in {Resting, Ended} \cup Selecting \cup Writing
  BY DEF IngestTypes
<1>2. CASE ingests[r] \in {Resting, Ended}
  BY <1>2, CallStates DEF Busy
<1>3. CASE ingests[r] \in Selecting \cup Writing
  BY <1>3, CallStates DEF Busy
<1>. QED
  BY <1>1, <1>2, <1>3

LEMMA RowIs ==
  ASSUME IngestTypes, NEW v \in Values
  PROVE  /\ Stored(v) <=> (table[v] \in KnownRow)
         /\ ~Stored(v) <=> (table[v] = Absent)
BY RowStates DEF IngestTypes, Stored

LEMMA ExpiryIsNat ==
  ASSUME NEW src \in Sources \cup {NoSource}, NEW at \in Nat \ {0}
  PROVE  ExpiryFrom(src, at) \in Nat \ {0}
<1>1. src # NoSource => HalfLife[src] \in Nat
  BY IngestAssumption
<1>. QED
  BY <1>1, EnvironmentAssumption DEF ExpiryFrom, Never
-----------------------------------------------------------------------------
LEMMA BeginKeeps ==
  ASSUME IngestInv, NEW r \in Ingests, NEW x \in Sightings, Begin(r, x[1], x[2])
  PROVE  IngestInv'
<1>. DEFINE c == [st |-> "select", src |-> x[1], input |-> x[2], at |-> clock,
                  exp |-> ExpiryFrom(x[1], clock)]
<1>1. /\ ingests[r] = Resting
      /\ ingests' = [ingests EXCEPT ![r] = c]
      /\ raced' = raced \cup {v \in x[2] : \E o \in Ingests : Busy(o) /\ v \in ingests[o].input}
      /\ clock' = clock /\ UNCHANGED <<table, births, claimed>>
  BY DEF Begin, Calm, environment
<1>2. c \in Selecting
  BY IngestAssumption, ExpiryIsNat DEF IngestInv, IngestTypes, Selecting
<1>3. c.input = x[2] /\ x[2] \subseteq Values
  BY IngestAssumption
<1>. HIDE DEF c
<1>4. /\ ingests' \in [Ingests -> {Resting, Ended} \cup Selecting \cup Writing]
      /\ ingests'[r] = c /\ \A o \in Ingests \ {r} : ingests'[o] = ingests[o]
      /\ c \notin Writing
  BY <1>1, <1>2, CallStates DEF IngestInv, IngestTypes
<1>5. raced' \subseteq Values /\ raced \subseteq raced'
  BY <1>1, <1>3 DEF IngestInv, IngestTypes
<1>6. IngestTypes'
  BY <1>1, <1>4, <1>5 DEF IngestInv, IngestTypes, Stored
<1>7. CallsApart'
  BY <1>1, <1>3, <1>4, <1>5 DEF IngestInv, CallsApart, Busy
<1>8. CallsKnow'
  BY <1>1, <1>4, <1>5 DEF IngestInv, CallsKnow, KnowsRow, Stored
<1>9. SightingsKept'
  BY <1>1, <1>5 DEF IngestInv, SightingsKept, Stored
<1>. QED
  BY <1>6, <1>7, <1>8, <1>9 DEF IngestInv

LEMMA SelectExistingKeeps ==
  ASSUME IngestInv, NEW r \in Ingests, SelectExisting(r)
  PROVE  IngestInv'
<1>. DEFINE found == {<<v, table[v].id>> : v \in {w \in ingests[r].input : Stored(w)}}
            c == [st |-> "insert", src |-> ingests[r].src, input |-> ingests[r].input,
                  at |-> ingests[r].at, exp |-> ingests[r].exp, created |-> clock,
                  hits |-> found]
<1>1. /\ ingests[r] \in Selecting
      /\ clock' = clock /\ UNCHANGED <<table, births, claimed, raced>>
  BY CallStages DEF SelectExisting, Calm, environment, IngestInv
<1>2. ingests' = [ingests EXCEPT ![r] = c]
  BY DEF SelectExisting
<1>3. \A v \in ingests[r].input : v \in Values /\ (Stored(v) => table[v].id \in Nat \ {0})
  BY <1>1, CallStates, RowIs, RowStates DEF IngestInv
<1>4. found \subseteq Hits
  BY <1>3 DEF Hits
<1>5. c \in Writing /\ Busy(r)
  BY <1>1, <1>4, CallStates, CallStages DEF Writing, IngestInv, IngestTypes
<1>6. c.input = ingests[r].input /\ c.hits = found /\ c.created = clock
  OBVIOUS
<1>7. /\ \A h \in found : h[1] \in ingests[r].input
      /\ \A v \in ingests[r].input : Stored(v) => <<v, table[v].id>> \in found
  OBVIOUS
<1>. HIDE DEF c, found
<1>8. /\ ingests' \in [Ingests -> {Resting, Ended} \cup Selecting \cup Writing]
      /\ ingests'[r] = c /\ \A o \in Ingests \ {r} : ingests'[o] = ingests[o]
  BY <1>2, <1>5 DEF IngestInv, IngestTypes
<1>9. IngestTypes'
  BY <1>1, <1>6, <1>7, <1>8 DEF IngestInv, IngestTypes, Stored
<1>10. CallsApart'
  BY <1>1, <1>5, <1>6, <1>8 DEF IngestInv, CallsApart, Busy
<1>11. CallsKnow'
  BY <1>1, <1>6, <1>7, <1>8 DEF IngestInv, CallsKnow, KnowsRow, Stored
<1>12. SightingsKept'
  BY <1>1 DEF IngestInv, SightingsKept, Stored
<1>. QED
  BY <1>9, <1>10, <1>11, <1>12 DEF IngestInv

\* A call with a value to itself is alone with it.
LEMMA AloneWith ==
  ASSUME IngestInv, NEW r \in Ingests, NEW o \in Ingests, r # o, Busy(r), Busy(o),
         NEW v \in ingests[r].input \ raced
  PROVE  v \notin ingests[o].input
BY DEF IngestInv, CallsApart

LEMMA InsertKeeps ==
  ASSUME IngestInv, NEW r \in Ingests, Insert(r)
  PROVE  IngestInv'
<1>1. /\ ingests[r] \in Writing /\ ingests[r].st = "insert"
      /\ clock' = clock /\ UNCHANGED <<claimed, raced>>
      /\ ingests' = [ingests EXCEPT ![r].st = "touch"]
  BY CallStages DEF Insert, Calm, environment, IngestInv
<1>. DEFINE new == Inserted(r)
            row(v) == Row(births[v] + 1, ingests[r].created, ingests[r].at,
                          ingests[r].exp, v \in Allowlisted)
            c == [ingests[r] EXCEPT !.st = "touch"]
<1>2. /\ births' = [v \in Values |-> IF v \in new THEN births[v] + 1 ELSE births[v]]
      /\ table' = [v \in Values |-> IF v \in new THEN row(v) ELSE table[v]]
      /\ ingests' = [ingests EXCEPT ![r] = c]
  BY <1>1 DEF Insert
<1>3. /\ new \subseteq Values /\ new \subseteq ingests[r].input
      /\ \A v \in new : ~Stored(v)
      /\ \A v \in ingests[r].input \ new : Stored(v) \/ \E h \in ingests[r].hits : h[1] = v
  BY <1>1, CallStates DEF Inserted, Missing
<1>4. /\ c \in Writing /\ c.input = ingests[r].input /\ c.hits = ingests[r].hits
      /\ c.st = "touch" /\ c.at = ingests[r].at /\ c.exp = ingests[r].exp
      /\ c.created = ingests[r].created
  BY <1>1 DEF Writing
<1>5. \A v \in Values : /\ row(v) \in KnownRow /\ row(v).id = births[v] + 1
                        /\ row(v).born = ingests[r].created
                        /\ row(v).seen = ingests[r].at /\ row(v).expires = ingests[r].exp
  <2>1. \A v \in Values : births[v] + 1 \in Nat \ {0}
    BY DEF IngestInv, IngestTypes
  <2>2. /\ ingests[r].at \in Nat /\ ingests[r].exp \in Nat /\ ingests[r].created \in Nat
    BY <1>1, CallStates
  <2>. QED
    BY <2>1, <2>2 DEF Row, KnownRow
<1>. HIDE DEF new, row, c
<1>6. /\ ingests' \in [Ingests -> {Resting, Ended} \cup Selecting \cup Writing]
      /\ ingests'[r] = c /\ \A o \in Ingests \ {r} : ingests'[o] = ingests[o]
  BY <1>2, <1>4 DEF IngestInv, IngestTypes
<1>7. /\ table' \in [Values -> {Absent} \cup KnownRow]
      /\ births' \in [Values -> Nat]
      /\ \A v \in new : table'[v] = row(v) /\ births'[v] = births[v] + 1
      /\ \A v \in Values \ new : table'[v] = table[v] /\ births'[v] = births[v]
  BY <1>2, <1>3, <1>5 DEF IngestInv, IngestTypes
<1>8. /\ \A v \in new : table'[v].id # 0 /\ claimed[v] = NoClaim
      /\ \A v \in Values \ new : Stored(v)' <=> Stored(v)
  BY <1>3, <1>5, <1>7, RowStates DEF Stored, IngestInv, IngestTypes
<1>9. IngestTypes'
  <2>1. ASSUME NEW v \in Values
        PROVE  /\ table'[v].id # 0 => table'[v].id <= births'[v] /\ table'[v].born \in 1 .. clock
               /\ table'[v].id = 0 => claimed'[v] = NoClaim
    <3>1. CASE v \in new
      BY <1>1, <1>5, <1>7, <1>8, <3>1 DEF IngestInv, IngestTypes
    <3>2. CASE v \notin new
      BY <1>1, <1>7, <3>2 DEF IngestInv, IngestTypes, Stored
    <3>. QED
      BY <3>1, <3>2
  <2>2. \A o \in Ingests : ingests'[o] \in Writing =>
          /\ ingests'[o].created \in 1 .. clock
          /\ \A h \in ingests'[o].hits : h[1] \in ingests'[o].input
    BY <1>1, <1>4, <1>6 DEF IngestInv, IngestTypes
  <2>. QED
    BY <1>1, <1>6, <1>7, <2>1, <2>2 DEF IngestInv, IngestTypes, Stored
<1>10. Busy(r)
  BY <1>1, CallStages DEF IngestInv
<1>11. CallsApart'
  BY <1>1, <1>4, <1>6, <1>10 DEF IngestInv, CallsApart, Busy
<1>12. CallsKnow'
  <2>. SUFFICES ASSUME NEW o \in Ingests, ingests'[o] \in Writing,
                       NEW v \in ingests'[o].input \ raced, Stored(v)'
                PROVE  KnowsRow(ingests[o], v)'
    BY <1>1 DEF CallsKnow
  <2>0. v \in Values
    BY CallStates
  <2>1. CASE o = r /\ v \in new
    BY <1>1, <1>4, <1>5, <1>6, <1>7, <1>8, <2>0, <2>1 DEF KnowsRow
  <2>2. CASE o = r /\ v \notin new
    <3>1. table'[v] = table[v] /\ Stored(v) /\ v \in ingests[r].input
      BY <1>4, <1>6, <1>7, <1>8, <2>0, <2>2
    <3>2. <<v, table[v].id>> \in ingests[r].hits
      BY <1>1, <3>1 DEF IngestInv, CallsKnow, KnowsRow
    <3>. QED
      BY <1>4, <1>6, <2>2, <3>1, <3>2 DEF KnowsRow
  <2>3. CASE o # r
    <3>1. ingests'[o] = ingests[o] /\ ingests[o] \in Writing /\ Busy(o)
      BY <1>6, <2>3, CallStages DEF IngestInv
    <3>2. v \notin new
      BY <1>1, <1>3, <1>10, <2>3, <3>1, AloneWith
    <3>3. table'[v] = table[v] /\ Stored(v) /\ claimed'[v] = claimed[v]
      BY <1>1, <1>7, <1>8, <2>0, <3>2
    <3>4. KnowsRow(ingests[o], v)
      BY <3>1, <3>3 DEF IngestInv, CallsKnow
    <3>. QED
      BY <3>1, <3>3, <3>4 DEF KnowsRow
  <2>. QED
    BY <2>1, <2>2, <2>3
<1>13. SightingsKept'
  <2>. SUFFICES ASSUME NEW v \in Values, Stored(v)', v \notin raced
                PROVE  /\ table'[v].seen >= claimed[v].seen
                       /\ claimed[v].until # 0 => table'[v].expires = claimed[v].until
    BY <1>1 DEF SightingsKept
  <2>1. CASE v \in new
    BY <1>1, <1>5, <1>7, <1>8, <2>1, CallStates
  <2>2. CASE v \notin new
    BY <1>7, <1>8, <2>2 DEF IngestInv, SightingsKept
  <2>. QED
    BY <2>1, <2>2
<1>. QED
  BY <1>9, <1>11, <1>12, <1>13 DEF IngestInv

LEMMA TouchKeeps ==
  ASSUME IngestInv, NEW r \in Ingests, Touch(r)
  PROVE  IngestInv'
<1>1. /\ ingests[r] \in Writing /\ ingests[r].st = "touch" /\ Busy(r)
      /\ clock' = clock /\ UNCHANGED <<births, raced>>
      /\ ingests' = [ingests EXCEPT ![r] = Ended]
  BY CallStages DEF Touch, Calm, environment, IngestInv
<1>. DEFINE src == ingests[r].src
            at == ingests[r].at
            exp == ingests[r].exp
            row(v) == [table[v] EXCEPT !.seen = at,
                         !.expires = IF src = NoSource THEN @ ELSE exp]
            claim(v) == [seen |-> at, until |-> IF src = NoSource THEN claimed[v].until ELSE exp]
<1>2. /\ table' = [v \in Values |-> IF ~Touched(r, v) THEN table[v] ELSE row(v)]
      /\ claimed' = [v \in Values |-> IF v \notin ingests[r].input \/ ~Stored(v)
                                      THEN claimed[v] ELSE claim(v)]
  BY DEF Touch
<1>3. at \in Nat /\ exp \in Nat /\ ingests[r].hits \subseteq Hits /\ ingests[r].input \subseteq Values
  BY <1>1, CallStates
<1>4. \A v \in Values : Touched(r, v) <=> (<<v, table[v].id>> \in ingests[r].hits)
  BY DEF Touched
<1>5. ASSUME NEW v \in Values, Touched(r, v)
      PROVE  /\ v \in ingests[r].input /\ Stored(v) /\ table[v] \in KnownRow
             /\ row(v) \in KnownRow /\ row(v).id = table[v].id /\ row(v).born = table[v].born
             /\ row(v).seen = at
             /\ row(v).expires = IF src = NoSource THEN table[v].expires ELSE exp
  <2>1. <<v, table[v].id>> \in ingests[r].hits
    BY <1>4, <1>5
  <2>2. v \in ingests[r].input /\ table[v].id # 0
    BY <1>1, <1>3, <2>1 DEF IngestInv, IngestTypes, Hits
  <2>3. table[v] \in KnownRow
    BY <2>2, RowIs DEF Stored, IngestInv
  <2>. QED
    BY <1>3, <2>2, <2>3 DEF KnownRow, Stored
<1>6. \A v \in Values : /\ claim(v) \in Claims /\ claim(v).seen = at
                        /\ claim(v).until = IF src = NoSource THEN claimed[v].until ELSE exp
  BY <1>3, RowStates DEF Claims, IngestInv, IngestTypes
<1>. HIDE DEF row, claim
<1>7. /\ ingests' \in [Ingests -> {Resting, Ended} \cup Selecting \cup Writing]
      /\ ingests'[r] = Ended /\ \A o \in Ingests \ {r} : ingests'[o] = ingests[o]
      /\ Ended \notin Writing /\ ~Busy(r)'
  BY <1>1, CallStates DEF IngestInv, IngestTypes, Busy
<1>8. /\ table' \in [Values -> {Absent} \cup KnownRow]
      /\ claimed' \in [Values -> Claims]
      /\ \A v \in Values : /\ Touched(r, v) => table'[v] = row(v)
                           /\ ~Touched(r, v) => table'[v] = table[v]
                           /\ v \in ingests[r].input /\ Stored(v) => claimed'[v] = claim(v)
                           /\ v \notin ingests[r].input \/ ~Stored(v) => claimed'[v] = claimed[v]
  <2>1. table' \in [Values -> {Absent} \cup KnownRow]
    BY <1>2, <1>5 DEF IngestInv, IngestTypes
  <2>2. claimed' \in [Values -> Claims]
    BY <1>2, <1>6 DEF IngestInv, IngestTypes
  <2>. QED
    BY <1>2, <2>1, <2>2
<1>9. \A v \in Values : table'[v].id = table[v].id /\ (Stored(v)' <=> Stored(v))
  BY <1>5, <1>8 DEF Stored
<1>10. IngestTypes'
  <2>1. ASSUME NEW v \in Values
        PROVE  /\ Stored(v)' => table'[v].id <= births'[v] /\ table'[v].born \in 1 .. clock
               /\ ~Stored(v)' => claimed'[v] = NoClaim
    <3>1. Stored(v) => table[v].id <= births[v] /\ table[v].born \in 1 .. clock
      BY DEF IngestInv, IngestTypes
    <3>2. Stored(v) => table'[v].born = table[v].born
      BY <1>5, <1>8
    <3>3. ~Stored(v) => claimed'[v] = NoClaim
      BY <1>8 DEF IngestInv, IngestTypes
    <3>. QED
      BY <1>1, <1>9, <3>1, <3>2, <3>3
  <2>2. \A o \in Ingests : ingests'[o] \in Writing =>
          /\ ingests'[o].created \in 1 .. clock
          /\ \A h \in ingests'[o].hits : h[1] \in ingests'[o].input
    BY <1>7 DEF IngestInv, IngestTypes
  <2>. QED
    BY <1>1, <1>7, <1>8, <2>1, <2>2 DEF IngestInv, IngestTypes
<1>11. CallsApart'
  BY <1>1, <1>7 DEF IngestInv, CallsApart, Busy
<1>12. CallsKnow'
  <2>. SUFFICES ASSUME NEW o \in Ingests, ingests'[o] \in Writing,
                       NEW v \in ingests'[o].input \ raced, Stored(v)'
                PROVE  KnowsRow(ingests[o], v)'
    BY <1>1 DEF CallsKnow
  <2>1. o # r /\ ingests'[o] = ingests[o] /\ ingests[o] \in Writing /\ Busy(o) /\ v \in Values
    BY <1>7, CallStages, CallStates DEF IngestInv
  <2>2. v \notin ingests[r].input
    BY <1>1, <2>1, AloneWith
  <2>3. table'[v] = table[v] /\ claimed'[v] = claimed[v] /\ Stored(v)
    BY <1>5, <1>8, <1>9, <2>1, <2>2
  <2>4. KnowsRow(ingests[o], v)
    BY <2>1, <2>3 DEF IngestInv, CallsKnow
  <2>. QED
    BY <2>1, <2>3, <2>4 DEF KnowsRow
<1>13. SightingsKept'
  <2>. SUFFICES ASSUME NEW v \in Values, Stored(v)', v \notin raced
                PROVE  /\ table'[v].seen >= claimed'[v].seen
                       /\ claimed'[v].until # 0 => table'[v].expires = claimed'[v].until
    BY <1>1 DEF SightingsKept
  <2>1. /\ Stored(v) /\ table[v].seen >= claimed[v].seen
        /\ claimed[v].until # 0 => table[v].expires = claimed[v].until
    BY <1>9 DEF IngestInv, SightingsKept
  <2>2. CASE Touched(r, v)
    <3>1. table'[v] = row(v) /\ claimed'[v] = claim(v)
      BY <1>5, <1>8, <2>1, <2>2
    <3>. QED
      BY <1>3, <1>5, <1>6, <2>1, <2>2, <3>1
  <2>3. CASE ~Touched(r, v) /\ v \in ingests[r].input
    <3>1. table'[v] = table[v] /\ claimed'[v] = claim(v)
      BY <1>8, <2>1, <2>3
    <3>2. table[v].seen = at /\ table[v].expires = exp /\ claimed[v] = NoClaim
      BY <1>1, <1>4, <2>1, <2>3 DEF IngestInv, CallsKnow, KnowsRow
    <3>. QED
      BY <1>3, <1>6, <3>1, <3>2, CallStates
  <2>4. CASE v \notin ingests[r].input
    BY <1>5, <1>8, <2>1, <2>4
  <2>. QED
    BY <2>2, <2>3, <2>4
<1>. QED
  BY <1>10, <1>11, <1>12, <1>13 DEF IngestInv

LEMMA AbandonKeeps ==
  ASSUME IngestInv, NEW r \in Ingests, Abandon(r)
  PROVE  IngestInv'
<1>1. /\ ingests' = [ingests EXCEPT ![r] = Ended]
      /\ clock' = clock /\ UNCHANGED <<table, births, claimed, raced>>
  BY DEF Abandon, Upset
<1>2. /\ ingests' \in [Ingests -> {Resting, Ended} \cup Selecting \cup Writing]
      /\ ingests'[r] = Ended /\ \A o \in Ingests \ {r} : ingests'[o] = ingests[o]
      /\ Ended \notin Writing /\ ~Busy(r)'
  BY <1>1, CallStates DEF IngestInv, IngestTypes, Busy
<1>3. IngestTypes'
  BY <1>1, <1>2 DEF IngestInv, IngestTypes, Stored
<1>4. CallsApart'
  BY <1>1, <1>2 DEF IngestInv, CallsApart, Busy
<1>5. CallsKnow'
  BY <1>1, <1>2 DEF IngestInv, CallsKnow, KnowsRow, Stored
<1>6. SightingsKept'
  BY <1>1 DEF IngestInv, SightingsKept, Stored
<1>. QED
  BY <1>3, <1>4, <1>5, <1>6 DEF IngestInv

LEMMA DeleteRowKeeps ==
  ASSUME IngestInv, NEW w \in Values, DeleteRow(w)
  PROVE  IngestInv'
<1>1. /\ table' = [table EXCEPT ![w] = Absent]
      /\ claimed' = [claimed EXCEPT ![w] = NoClaim]
      /\ clock' = clock /\ UNCHANGED <<births, ingests, raced>>
  BY DEF DeleteRow, Upset
<1>2. /\ table' \in [Values -> {Absent} \cup KnownRow] /\ claimed' \in [Values -> Claims]
      /\ table'[w] = Absent /\ claimed'[w] = NoClaim
      /\ \A v \in Values \ {w} : table'[v] = table[v] /\ claimed'[v] = claimed[v]
  BY <1>1, CallStates DEF IngestInv, IngestTypes
<1>3. /\ ~Stored(w)' /\ \A v \in Values \ {w} : Stored(v)' <=> Stored(v)
  BY <1>2, RowStates DEF Stored
<1>4. IngestTypes'
  <2>1. \A v \in Values : /\ Stored(v)' => table'[v].id <= births[v] /\ table'[v].born \in 1 .. clock
                          /\ ~Stored(v)' => claimed'[v] = NoClaim
    BY <1>2, <1>3 DEF IngestInv, IngestTypes
  <2>. QED
    BY <1>1, <1>2, <2>1 DEF IngestInv, IngestTypes
<1>5. CallsApart'
  BY <1>1 DEF IngestInv, CallsApart, Busy
<1>6. CallsKnow'
  <2>. SUFFICES ASSUME NEW o \in Ingests, ingests[o] \in Writing,
                       NEW v \in ingests[o].input \ raced, Stored(v)'
                PROVE  KnowsRow(ingests[o], v)'
    BY <1>1 DEF CallsKnow
  <2>1. v \in Values /\ v # w
    BY <1>3, CallStates
  <2>2. KnowsRow(ingests[o], v) /\ table'[v] = table[v] /\ claimed'[v] = claimed[v]
    BY <1>2, <1>3, <2>1 DEF IngestInv, CallsKnow
  <2>. QED
    BY <1>1, <2>2 DEF KnowsRow
<1>7. SightingsKept'
  BY <1>1, <1>2, <1>3 DEF IngestInv, SightingsKept
<1>. QED
  BY <1>4, <1>5, <1>6, <1>7 DEF IngestInv

LEMMA WhitelistKeeps ==
  ASSUME IngestInv, NEW w \in Values, Whitelist(w)
  PROVE  IngestInv'
<1>. DEFINE row == [table[w] EXCEPT !.white = ~@]
<1>1. /\ table' = [table EXCEPT ![w] = row] /\ Stored(w)
      /\ clock' = clock /\ UNCHANGED <<births, claimed, ingests, raced>>
  BY DEF Whitelist, Upset
<1>2. table[w] \in KnownRow
  BY <1>1, RowIs DEF IngestInv
<1>3. /\ row \in KnownRow /\ row.id = table[w].id /\ row.born = table[w].born
      /\ row.seen = table[w].seen /\ row.expires = table[w].expires
  BY <1>2 DEF KnownRow
<1>. HIDE DEF row
<1>4. /\ table' \in [Values -> {Absent} \cup KnownRow]
      /\ \A v \in Values \ {w} : table'[v] = table[v]
      /\ table'[w] = row
  BY <1>1, <1>3 DEF IngestInv, IngestTypes
<1>5. \A v \in Values : /\ Stored(v)' <=> Stored(v)
                        /\ table'[v].id = table[v].id
                        /\ Stored(v) => /\ table'[v].born = table[v].born
                                        /\ table'[v].seen = table[v].seen
                                        /\ table'[v].expires = table[v].expires
  BY <1>3, <1>4 DEF Stored
<1>6. IngestTypes'
  <2>1. \A v \in Values : /\ Stored(v)' => table'[v].id <= births[v] /\ table'[v].born \in 1 .. clock
                          /\ ~Stored(v)' => claimed[v] = NoClaim
    BY <1>5 DEF IngestInv, IngestTypes
  <2>. QED
    BY <1>1, <1>4, <2>1 DEF IngestInv, IngestTypes
<1>7. CallsApart'
  BY <1>1 DEF IngestInv, CallsApart, Busy
<1>8. CallsKnow'
  <2>. SUFFICES ASSUME NEW o \in Ingests, ingests[o] \in Writing,
                       NEW v \in ingests[o].input \ raced, Stored(v)'
                PROVE  KnowsRow(ingests[o], v)'
    BY <1>1 DEF CallsKnow
  <2>1. v \in Values
    BY CallStates
  <2>2. KnowsRow(ingests[o], v) /\ Stored(v)
    BY <1>5, <2>1 DEF IngestInv, CallsKnow
  <2>. QED
    BY <1>1, <1>5, <2>1, <2>2 DEF KnowsRow
<1>9. SightingsKept'
  BY <1>1, <1>5 DEF IngestInv, SightingsKept
<1>. QED
  BY <1>6, <1>7, <1>8, <1>9 DEF IngestInv

\* Time passes, or another part of the system is upset.
LEMMA IngestWaits ==
  ASSUME IngestInv, UNCHANGED ingestVars, Calm \/ Upset \/ Pass
  PROVE  IngestInv'
<1>1. clock' \in Nat \ {0} /\ clock' >= clock
  BY DEF IngestInv, IngestTypes, Calm, Upset, Pass, environment
<1>2. UNCHANGED <<table, births, ingests, claimed, raced>>
  BY DEF ingestVars
<1>3. IngestTypes'
  BY <1>1, <1>2 DEF IngestInv, IngestTypes, Stored
<1>4. CallsApart' /\ CallsKnow' /\ SightingsKept'
  BY <1>2 DEF IngestInv, CallsApart, CallsKnow, SightingsKept, KnowsRow, Stored, Busy
<1>. QED
  BY <1>3, <1>4 DEF IngestInv

LEMMA IngestStepKeeps ==
  ASSUME IngestInv, IngestNext
  PROVE  IngestInv'
BY BeginKeeps, SelectExistingKeeps, InsertKeeps, TouchKeeps, AbandonKeeps,
   DeleteRowKeeps, WhitelistKeeps DEF IngestNext

LEMMA IngestStarts == EnvironmentInit /\ IngestInit => IngestInv
<1>. SUFFICES ASSUME EnvironmentInit, IngestInit PROVE IngestInv
  OBVIOUS
<1>1. /\ table = [v \in Values |-> Absent] /\ births = [v \in Values |-> 0]
      /\ ingests = [r \in Ingests |-> Resting] /\ claimed = [v \in Values |-> NoClaim]
      /\ raced = {} /\ clock = 1
  BY DEF EnvironmentInit, IngestInit
<1>2. /\ \A v \in Values : ~Stored(v)
      /\ \A r \in Ingests : ingests[r] \notin Writing /\ ~Busy(r)
  BY <1>1, RowStates, CallStates DEF Stored, Busy
<1>3. IngestTypes
  BY <1>1, <1>2, CallStates DEF IngestTypes
<1>. QED
  BY <1>2, <1>3 DEF IngestInv, CallsApart, CallsKnow, SightingsKept

\* What a finished call said of a stored row is lost only to a call that handled
\* the value at the same time (see SightingsKept), for any calls and half-lives.
THEOREM SightingsAreKept == IngestSpec => []SightingsKept
<1>1. IngestInv /\ [IngestNext \/ IngestElsewhere]_<<environment, ingestVars>> => IngestInv'
  <2>. SUFFICES ASSUME IngestInv, [IngestNext \/ IngestElsewhere]_<<environment, ingestVars>>
                PROVE  IngestInv'
    OBVIOUS
  <2>1. CASE IngestNext
    BY <2>1, IngestStepKeeps
  <2>2. CASE IngestElsewhere
    BY <2>2, IngestWaits DEF IngestElsewhere
  <2>3. CASE UNCHANGED <<environment, ingestVars>>
    BY <2>3, IngestWaits DEF Calm
  <2>. QED
    BY <2>1, <2>2, <2>3
<1>2. IngestInv => SightingsKept
  BY DEF IngestInv
<1>. QED
  BY <1>1, <1>2, IngestStarts, PTL DEF IngestSpec
-----------------------------------------------------------------------------
\* The hunts over those indicators.
HuntingElsewhere == (Pass \/ Upset) /\ UNCHANGED <<ingestVars, huntVars>>
HuntingNext ==
  \/ IngestNext /\ UNCHANGED huntVars
  \/ HuntNext /\ UNCHANGED ingestVars
  \/ HuntingElsewhere
HuntSpec ==
  /\ EnvironmentInit /\ IngestInit /\ HuntInit
  /\ [][HuntingNext]_<<environment, ingestVars, huntVars>>

Seen == Values \X Nat \X Nat
FindingRun == [st : {"find"}, n : Nat, hunt : HuntIds, prev : Nat, notify : BOOLEAN]
FoundRun ==
  [st : {"found"}, n : Nat, hunt : HuntIds, prev : Nat, notify : BOOLEAN,
   rows : SUBSET Seen, saw : SUBSET Seen, cut : SUBSET Seen]
ClosingRun ==
  [st : {"stamping", "alerting"}, n : Nat, hunt : HuntIds, prev : Nat, notify : BOOLEAN,
   rows : SUBSET Seen, saw : SUBSET Seen, cut : SUBSET Seen, at : Nat]
Sweep ==
  [n : Nat, hunt : HuntIds, prev : Nat, at : Nat, saw : SUBSET Seen, cut : SUBSET Seen,
   notify : BOOLEAN, told : BOOLEAN]
HuntRunning == FindingRun \cup FoundRun \cup ClosingRun

HuntTypes ==
  /\ hunts \in [HuntIds -> [exists : BOOLEAN, notify : BOOLEAN, last : Nat]]
  /\ runs \in [Slots -> {NoRun} \cup HuntRunning]
  /\ alerts \subseteq [n : Nat, hunt : HuntIds, rows : SUBSET Seen]
  /\ sweeps \subseteq Sweep
  /\ fits \subseteq Values
  /\ nruns \in Nat

\* The sweep a run with a date leaves, before it has alerted.
SweepOf(r) ==
  [n |-> r.n, hunt |-> r.hunt, prev |-> r.prev, at |-> r.at, saw |-> r.saw, cut |-> r.cut,
   notify |-> r.notify, told |-> FALSE]

\* What a run has behind it: the sweep its `prev` is the date of, the rows
\* that are new since then, its date, and its own sweep.
RunFits(r, sw, now, top) ==
  /\ r.n \in 1 .. top /\ r.prev <= now
  /\ r.prev = 0 \/ \E o \in sw : o.hunt = r.hunt /\ o.at = r.prev /\ o.n < r.n
  /\ r.st # "alerting" => \A w \in sw : w.n # r.n
  /\ r.st # "find" =>
       /\ \A i \in r.rows : i \in r.saw /\ Born(i) > r.prev
       /\ \A i \in r.saw : Born(i) \in 1 .. now /\ (Born(i) > r.prev => i \in r.rows \cup r.cut)
  /\ r.st \in {"stamping", "alerting"} =>
       r.at \in r.prev .. now /\ \A i \in r.rows : Born(i) <= r.at
  /\ r.st = "alerting" => SweepOf(r) \in sw

RunsFit == \A s \in Slots : runs[s] # NoRun => RunFits(runs[s], sweeps, clock, nruns)
RunsDiffer ==
  \A s, o \in Slots : s # o /\ runs[s] # NoRun /\ runs[o] # NoRun => runs[s].n # runs[o].n

SweepsDiffer ==
  /\ \A w \in sweeps : w.n <= nruns
  /\ \A w, o \in sweeps : w.n = o.n => w = o

\* lastRunAt is the date of a sweep.
LastIsSwept ==
  \A h \in HuntIds : /\ hunts[h].last <= clock
                     /\ hunts[h].last = 0 \/ \E o \in sweeps : o.hunt = h /\ o.at = hunts[h].last

\* Why a row need not be alerted on again, by runs before the n-th.
Explained(h, i, n) ==
  \/ i \in Alerted(h)
  \/ \E o \in sweeps :
       /\ o.hunt = h /\ o.n < n /\ o.at >= Born(i)
       /\ i \notin o.saw \/ ~o.told
  \/ \E o \in sweeps : o.hunt = h /\ (~o.notify \/ i \in o.cut)

AllExplained ==
  \A w \in sweeps : w.told /\ hunts[w.hunt].exists =>
    \A i \in w.saw : Explained(w.hunt, i, w.n)

Hunting(r, h) == r # NoRun /\ r.hunt = h

\* A run that has its hunt to itself: everything alerted on is older than what it found.
RunAlone(r, al, last) ==
  /\ \A a \in al : a.hunt = r.hunt => \A i \in a.rows : Born(i) <= r.prev
  /\ r.st = "alerting" => last = r.at

HuntsCalm ==
  \A h \in HuntIds \ crowded :
    /\ \A s, o \in Slots : Hunting(runs[s], h) /\ Hunting(runs[o], h) => s = o
    /\ \A a \in alerts : a.hunt = h => \A i \in a.rows : Born(i) <= hunts[h].last
    /\ \A s \in Slots : Hunting(runs[s], h) => RunAlone(runs[s], alerts, hunts[h].last)

HuntInv ==
  /\ HuntTypes /\ RunsFit /\ RunsDiffer /\ SweepsDiffer /\ LastIsSwept
  /\ AllExplained /\ HuntsCalm /\ NoRepeatedAlert
-----------------------------------------------------------------------------
LEMMA HuntRunStates ==
  /\ NoRun.st = "none" /\ NoRun \notin HuntRunning
  /\ \A r \in HuntRunning : /\ r.n \in Nat /\ r.hunt \in HuntIds /\ r.prev \in Nat
                        /\ r.notify \in BOOLEAN
                        /\ r.st \in {"find", "found", "stamping", "alerting"}
  /\ \A r \in FoundRun \cup ClosingRun : /\ r \in HuntRunning /\ r.st # "find"
                                   /\ r.rows \subseteq Seen /\ r.saw \subseteq Seen
                                   /\ r.cut \subseteq Seen
  /\ \A r \in FindingRun : r.st = "find" /\ r \in HuntRunning
  /\ \A r \in FoundRun : r.st = "found"
  /\ \A r \in ClosingRun : r.at \in Nat /\ r.st \in {"stamping", "alerting"} /\ SweepOf(r) \in Sweep
<1>1. NoRun.st = "none"
  BY DEF NoRun
<1>2. \A r \in HuntRunning : /\ r.n \in Nat /\ r.hunt \in HuntIds /\ r.prev \in Nat
                         /\ r.notify \in BOOLEAN
                         /\ r.st \in {"find", "found", "stamping", "alerting"}
  BY DEF HuntRunning, FindingRun, FoundRun, ClosingRun
<1>3. \A r \in FoundRun \cup ClosingRun : /\ r \in HuntRunning /\ r.st # "find"
                                    /\ r.rows \subseteq Seen /\ r.saw \subseteq Seen
                                    /\ r.cut \subseteq Seen
  BY DEF HuntRunning, FoundRun, ClosingRun
<1>4. \A r \in FindingRun : r.st = "find" /\ r \in HuntRunning
  BY DEF FindingRun, HuntRunning
<1>5. \A r \in FoundRun : r.st = "found"
  BY DEF FoundRun
<1>6. \A r \in ClosingRun : r.at \in Nat /\ r.st \in {"stamping", "alerting"} /\ SweepOf(r) \in Sweep
  BY DEF ClosingRun, SweepOf, Sweep
<1>. QED
  BY <1>1, <1>2, <1>3, <1>4, <1>5, <1>6

LEMMA SweepStates ==
  /\ \A w \in Sweep : /\ w.n \in Nat /\ w.hunt \in HuntIds /\ w.at \in Nat
                      /\ w.saw \subseteq Seen /\ w.told \in BOOLEAN
                      /\ w.notify \in BOOLEAN
  /\ \A i \in Seen : Born(i) \in Nat
<1>1. \A w \in Sweep : /\ w.n \in Nat /\ w.hunt \in HuntIds /\ w.at \in Nat
                       /\ w.saw \subseteq Seen /\ w.told \in BOOLEAN /\ w.notify \in BOOLEAN
  BY DEF Sweep
<1>2. \A i \in Seen : Born(i) \in Nat
  BY DEF Seen, Born
<1>. QED
  BY <1>1, <1>2

\* A run in a slot has the type of its stage.
LEMMA RunStages ==
  ASSUME HuntTypes, NEW s \in Slots
  PROVE  /\ (runs[s].st = "find") <=> (runs[s] \in FindingRun)
         /\ (runs[s].st = "found") <=> (runs[s] \in FoundRun)
         /\ (runs[s].st \in {"stamping", "alerting"}) <=> (runs[s] \in ClosingRun)
         /\ (runs[s] # NoRun) <=> (runs[s] \in HuntRunning)
<1>1. runs[s] = NoRun \/ runs[s] \in FindingRun \/ runs[s] \in FoundRun \/ runs[s] \in ClosingRun
  BY DEF HuntTypes, HuntRunning
<1>. QED
  BY <1>1, HuntRunStates DEF HuntRunning

\* What the query matches was created by now.
LEMMA MatchesExist ==
  ASSUME IngestTypes, HuntTypes
  PROVE  Matches \subseteq Seen /\ \A i \in Matches : Born(i) \in 1 .. clock
<1>1. ASSUME NEW v \in Values, Stored(v)
      PROVE  Id(v) \in Seen /\ Born(Id(v)) \in 1 .. clock
  BY <1>1, RowIs, RowStates DEF IngestTypes, Id, Seen, Born
<1>. QED
  BY <1>1 DEF Matches, HuntTypes

-----------------------------------------------------------------------------
\* A run goes on while sweeps are added, or told, beside it.
LEMMA RunGoesOn ==
  ASSUME NEW r \in HuntRunning, NEW sw, NEW sw2, NEW now \in Nat, NEW now2 \in Nat,
         NEW top \in Nat, NEW top2 \in Nat, now <= now2, top <= top2,
         RunFits(r, sw, now, top),
         \A w \in sw : \E x \in sw2 : x.n = w.n /\ x.hunt = w.hunt /\ x.at = w.at,
         SweepOf(r) \in sw => SweepOf(r) \in sw2,
         \A x \in sw2 : x.n = r.n => \E w \in sw : w.n = r.n
  PROVE  RunFits(r, sw2, now2, top2)
<1>1. /\ r.prev \in Nat /\ r.n \in Nat
      /\ r.st \in {"stamping", "alerting"} => r.at \in Nat
  BY HuntRunStates DEF HuntRunning, ClosingRun, FindingRun, FoundRun
<1>2. r.n \in 1 .. top2 /\ r.prev <= now2
  BY <1>1 DEF RunFits
<1>3. r.prev = 0 \/ \E o \in sw2 : o.hunt = r.hunt /\ o.at = r.prev /\ o.n < r.n
  BY DEF RunFits
<1>4. r.st # "alerting" => \A w \in sw2 : w.n # r.n
  BY DEF RunFits
<1>5. r.st # "find" =>
        /\ \A i \in r.rows : i \in r.saw /\ Born(i) > r.prev
        /\ \A i \in r.saw : Born(i) \in 1 .. now2 /\ (Born(i) > r.prev => i \in r.rows \cup r.cut)
  BY DEF RunFits
<1>6. r.st \in {"stamping", "alerting"} =>
        r.at \in r.prev .. now2 /\ \A i \in r.rows : Born(i) <= r.at
  BY <1>1 DEF RunFits
<1>7. r.st = "alerting" => SweepOf(r) \in sw2
  BY DEF RunFits
<1>. QED
  BY <1>2, <1>3, <1>4, <1>5, <1>6, <1>7 DEF RunFits

\* A step that moves the run in slot s to c and touches neither the hunts nor
\* the alerts nor the sweeps.
LEMMA RunMoves ==
  ASSUME HuntInv, NEW s \in Slots, NEW c \in {NoRun} \cup HuntRunning, clock \in Nat,
         clock' = clock, nruns' \in Nat, nruns <= nruns', crowded \subseteq crowded',
         UNCHANGED <<hunts, fits, alerts, sweeps>>,
         runs' = [runs EXCEPT ![s] = c],
         c # NoRun => RunFits(c, sweeps, clock, nruns'),
         c # NoRun => \A o \in Slots \ {s} : runs[o] # NoRun => runs[o].n # c.n,
         c # NoRun /\ c.hunt \notin crowded' =>
           /\ RunAlone(c, alerts, hunts[c.hunt].last)
           /\ \A o \in Slots \ {s} : ~Hunting(runs[o], c.hunt)
  PROVE  HuntInv'
<1>1. /\ runs' \in [Slots -> {NoRun} \cup HuntRunning]
      /\ runs'[s] = c /\ \A o \in Slots \ {s} : runs'[o] = runs[o]
  BY DEF HuntInv, HuntTypes
<1>2. HuntTypes'
  BY <1>1 DEF HuntInv, HuntTypes
<1>3. RunsFit'
  <2>. SUFFICES ASSUME NEW o \in Slots, runs'[o] # NoRun
                PROVE  RunFits(runs'[o], sweeps, clock, nruns')
    BY DEF RunsFit
  <2>1. CASE o = s
    BY <1>1, <2>1
  <2>2. CASE o # s
    <3>1. runs[o] \in HuntRunning /\ RunFits(runs[o], sweeps, clock, nruns) /\ runs'[o] = runs[o]
      BY <1>1, <2>2 DEF HuntInv, RunsFit, HuntTypes
    <3>2. nruns \in Nat
      BY DEF HuntInv, HuntTypes
    <3>. QED
      BY <3>1, <3>2, RunGoesOn, SMTT(30)
  <2>. QED
    BY <2>1, <2>2
<1>4. RunsDiffer'
  BY <1>1 DEF HuntInv, RunsDiffer
<1>5. SweepsDiffer'
  <2>1. \A w \in sweeps : w.n \in Nat
    BY SweepStates DEF HuntInv, HuntTypes
  <2>. QED
    BY <2>1 DEF HuntInv, SweepsDiffer, HuntTypes
<1>6. LastIsSwept' /\ NoRepeatedAlert'
  BY DEF HuntInv, LastIsSwept, NoRepeatedAlert
<1>7. AllExplained'
  BY DEF HuntInv, AllExplained, Explained, Alerted
<1>8. HuntsCalm'
  <2>. SUFFICES ASSUME NEW h \in HuntIds \ crowded'
                PROVE  /\ \A p, o \in Slots : Hunting(runs'[p], h) /\ Hunting(runs'[o], h) => p = o
                       /\ \A p \in Slots : Hunting(runs'[p], h) =>
                            RunAlone(runs'[p], alerts, hunts[h].last)
                       /\ \A a \in alerts : a.hunt = h => \A i \in a.rows : Born(i) <= hunts[h].last
    BY DEF HuntsCalm
  <2>1. /\ \A p, o \in Slots : Hunting(runs[p], h) /\ Hunting(runs[o], h) => p = o
        /\ \A p \in Slots : Hunting(runs[p], h) => RunAlone(runs[p], alerts, hunts[h].last)
        /\ \A a \in alerts : a.hunt = h => \A i \in a.rows : Born(i) <= hunts[h].last
    BY DEF HuntInv, HuntsCalm
  <2>2. Hunting(c, h) => /\ RunAlone(c, alerts, hunts[h].last)
                         /\ \A o \in Slots \ {s} : ~Hunting(runs[o], h)
    BY DEF Hunting
  <2>. QED
    BY <1>1, <2>1, <2>2
<1>. QED
  BY <1>2, <1>3, <1>4, <1>5, <1>6, <1>7, <1>8 DEF HuntInv

LEMMA LoadKeeps ==
  ASSUME IngestTypes, HuntInv, NEW s \in Slots, NEW h \in HuntIds, Load(s, h)
  PROVE  HuntInv'
<1>. DEFINE f == [st |-> "find", n |-> nruns + 1, hunt |-> h, prev |-> hunts[h].last,
                  notify |-> hunts[h].notify]
            c == IF ~hunts[h].exists THEN NoRun ELSE f
<1>1. /\ runs[s] = NoRun
      /\ nruns \in Nat /\ nruns' = nruns + 1
      /\ runs' = [runs EXCEPT ![s] = c]
      /\ crowded' = crowded \cup {g \in {h} : \E o \in Slots : runs[o] # NoRun /\ runs[o].hunt = h}
      /\ clock \in Nat /\ clock' = clock
      /\ UNCHANGED <<hunts, fits, alerts, sweeps>>
  BY DEF Load, Calm, environment, HuntInv, HuntTypes, IngestTypes
<1>2. /\ f \in FindingRun /\ f.st = "find" /\ f.n = nruns + 1 /\ f.hunt = h
      /\ f.prev = hunts[h].last
  BY <1>1 DEF FindingRun, HuntInv, HuntTypes
<1>3. c \in {NoRun} \cup HuntRunning /\ (c # NoRun => c = f)
  BY <1>2, HuntRunStates
<1>. HIDE DEF f, c
<1>4. RunFits(f, sweeps, clock, nruns')
  <2>1. \A w \in sweeps : w.n \in Nat /\ w.n <= nruns
    BY SweepStates DEF HuntInv, HuntTypes, SweepsDiffer
  <2>2. f.prev <= clock /\ (f.prev = 0 \/ \E o \in sweeps : o.hunt = h /\ o.at = f.prev)
    BY <1>2 DEF HuntInv, LastIsSwept
  <2>. QED
    BY <1>1, <1>2, <2>1, <2>2 DEF RunFits
<1>5. \A o \in Slots \ {s} : runs[o] # NoRun => runs[o].n # f.n
  BY <1>1, <1>2 DEF HuntInv, RunsFit, RunFits
<1>6. ASSUME h \notin crowded'
      PROVE  RunAlone(f, alerts, hunts[h].last) /\ \A o \in Slots \ {s} : ~Hunting(runs[o], h)
  <2>1. h \notin crowded /\ \A o \in Slots : ~Hunting(runs[o], h)
    BY <1>1, <1>6 DEF Hunting
  <2>. QED
    BY <1>2, <2>1 DEF HuntInv, HuntsCalm, RunAlone
<1>7. /\ nruns' \in Nat /\ nruns <= nruns' /\ crowded \subseteq crowded'
  BY <1>1
<1>. QED
  BY <1>1, <1>2, <1>3, <1>4, <1>5, <1>6, <1>7, RunMoves

\* A run that goes on in its slot under its number, its hunt and its `prev`.
LEMMA RunProceeds ==
  ASSUME HuntInv, NEW s \in Slots, NEW c \in HuntRunning, runs[s] \in HuntRunning, clock \in Nat,
         clock' = clock, UNCHANGED <<hunts, fits, alerts, sweeps, nruns, crowded>>,
         runs' = [runs EXCEPT ![s] = c],
         c.n = runs[s].n, c.hunt = runs[s].hunt, c.prev = runs[s].prev, c.st # "alerting",
         RunFits(c, sweeps, clock, nruns)
  PROVE  HuntInv'
<1>1. runs[s] # NoRun /\ c # NoRun
  BY HuntRunStates
<1>2. nruns' \in Nat /\ nruns' = nruns /\ nruns <= nruns' /\ crowded \subseteq crowded'
  BY DEF HuntInv, HuntTypes
<1>3. \A o \in Slots \ {s} : runs[o] # NoRun => runs[o].n # c.n
  BY <1>1 DEF HuntInv, RunsDiffer
<1>4. ASSUME c.hunt \notin crowded'
      PROVE  /\ RunAlone(c, alerts, hunts[c.hunt].last)
             /\ \A o \in Slots \ {s} : ~Hunting(runs[o], c.hunt)
  <2>1. Hunting(runs[s], c.hunt) /\ c.hunt \in HuntIds \ crowded
    BY <1>1, <1>4, HuntRunStates DEF Hunting
  <2>2. RunAlone(runs[s], alerts, hunts[c.hunt].last)
    BY <2>1 DEF HuntInv, HuntsCalm
  <2>. QED
    BY <2>1, <2>2 DEF HuntInv, HuntsCalm, RunAlone
<1>5. RunFits(c, sweeps, clock, nruns')
  BY <1>2
<1>6. c \in {NoRun} \cup HuntRunning
  OBVIOUS
<1>. QED
  BY <1>2, <1>3, <1>4, <1>5, <1>6, RunMoves

LEMMA FindKeeps ==
  ASSUME IngestTypes, HuntInv, NEW s \in Slots, Find(s)
  PROVE  HuntInv'
<1>1. PICK T \in Newest(NewSince(runs[s].prev)) :
        runs' = [runs EXCEPT ![s] =
          [st |-> "found", n |-> @.n, hunt |-> @.hunt, prev |-> @.prev,
           notify |-> @.notify, rows |-> T, saw |-> Matches,
           cut |-> NewSince(runs[s].prev) \ T]]
  BY DEF Find
<1>. DEFINE r == runs[s]
            c == [st |-> "found", n |-> r.n, hunt |-> r.hunt, prev |-> r.prev,
                  notify |-> r.notify, rows |-> T, saw |-> Matches,
                  cut |-> NewSince(r.prev) \ T]
<1>2. /\ runs' = [runs EXCEPT ![s] = c]
      /\ r \in FindingRun /\ r \in HuntRunning /\ clock \in Nat /\ clock' = clock
      /\ UNCHANGED <<hunts, fits, alerts, sweeps, nruns, crowded>>
  BY <1>1, RunStages, HuntRunStates DEF Find, Calm, environment, HuntInv, IngestTypes
<1>3. /\ T \subseteq NewSince(r.prev)
      /\ \A i : i \in NewSince(r.prev) <=> i \in Matches /\ Born(i) > r.prev
  BY DEF Newest, NewSince
<1>4. Matches \subseteq Seen /\ \A i \in Matches : Born(i) \in 1 .. clock
  BY MatchesExist DEF HuntInv
<1>5. /\ c \in FoundRun /\ c.st = "found" /\ c.n = r.n /\ c.hunt = r.hunt /\ c.prev = r.prev
      /\ c.rows = T /\ c.saw = Matches /\ c.cut = NewSince(r.prev) \ T
  BY <1>2, <1>3, <1>4 DEF FindingRun, FoundRun
<1>. HIDE DEF c
<1>6. RunFits(c, sweeps, clock, nruns)
  <2>1. RunFits(r, sweeps, clock, nruns) /\ r.st = "find"
    BY <1>2, HuntRunStates, RunStages DEF HuntInv, RunsFit
  <2>. QED
    BY <1>3, <1>4, <1>5, <2>1 DEF RunFits
<1>7. c \in HuntRunning /\ c.st # "alerting"
  BY <1>5, HuntRunStates
<1>. QED
  BY <1>2, <1>5, <1>6, <1>7, RunProceeds

LEMMA DateKeeps ==
  ASSUME IngestTypes, HuntInv, NEW s \in Slots, Date(s)
  PROVE  HuntInv'
<1>. DEFINE r == runs[s]
            c == [st |-> "stamping", n |-> r.n, hunt |-> r.hunt, prev |-> r.prev,
                  notify |-> r.notify, rows |-> r.rows, saw |-> r.saw, cut |-> r.cut,
                  at |-> clock]
<1>1. /\ runs' = [runs EXCEPT ![s] = c]
      /\ r \in FoundRun /\ r \in HuntRunning /\ clock \in Nat /\ clock' = clock
      /\ UNCHANGED <<hunts, fits, alerts, sweeps, nruns, crowded>>
  BY RunStages, HuntRunStates DEF Date, Stamp, Calm, environment, HuntInv, IngestTypes
<1>2. /\ c \in ClosingRun /\ c.st = "stamping" /\ c.n = r.n /\ c.hunt = r.hunt /\ c.prev = r.prev
      /\ c.rows = r.rows /\ c.saw = r.saw /\ c.cut = r.cut /\ c.at = clock
  BY <1>1 DEF FoundRun, ClosingRun
<1>. HIDE DEF c
<1>3. RunFits(c, sweeps, clock, nruns)
  <2>1. RunFits(r, sweeps, clock, nruns) /\ r.st = "found"
    BY <1>1, HuntRunStates, RunStages DEF HuntInv, RunsFit
  <2>2. r.prev \in Nat
    BY <1>1, HuntRunStates
  <2>. QED
    BY <1>1, <1>2, <2>1, <2>2 DEF RunFits
<1>4. c \in HuntRunning /\ c.st # "alerting"
  BY <1>2, HuntRunStates
<1>. QED
  BY <1>1, <1>2, <1>3, <1>4, RunProceeds

\* A run ends, before its time or after.
LEMMA RunEnds ==
  ASSUME HuntInv, NEW s \in Slots, clock \in Nat, clock' = clock,
         runs' = [runs EXCEPT ![s] = NoRun],
         UNCHANGED <<hunts, fits, alerts, sweeps, nruns, crowded>>
  PROVE  HuntInv'
<1>1. nruns' \in Nat /\ nruns <= nruns' /\ crowded \subseteq crowded'
  BY DEF HuntInv, HuntTypes
<1>. QED
  BY <1>1, RunMoves

LEMMA HuntDiesKeeps ==
  ASSUME IngestTypes, HuntInv, NEW s \in Slots, HuntDies(s)
  PROVE  HuntInv'
BY RunEnds DEF HuntDies, Upset, IngestTypes

LEMMA WriteStampKeeps ==
  ASSUME IngestTypes, HuntInv, NEW s \in Slots, WriteStamp(s)
  PROVE  HuntInv'
<1>. DEFINE r == runs[s]
            c == [r EXCEPT !.st = "alerting"]
            u == SweepOf(r)
<1>1. /\ r \in ClosingRun /\ r \in HuntRunning /\ r.st = "stamping"
      /\ clock \in Nat /\ clock' = clock /\ UNCHANGED <<fits, alerts, nruns, crowded>>
  BY RunStages, HuntRunStates DEF WriteStamp, Calm, environment, HuntInv, IngestTypes
<1>2. PICK h \in HuntIds : h = r.hunt
  BY <1>1, HuntRunStates
<1>3. CASE ~hunts[h].exists
  <2>1. runs' = [runs EXCEPT ![s] = NoRun] /\ UNCHANGED <<hunts, sweeps>>
    BY <1>2, <1>3 DEF WriteStamp
  <2>. QED
    BY <1>1, <2>1, RunEnds
<1>4. CASE hunts[h].exists
  <2>1. /\ hunts' = [hunts EXCEPT ![h].last = r.at]
        /\ runs' = [runs EXCEPT ![s] = c]
        /\ sweeps' = sweeps \cup {u}
    BY <1>2, <1>4 DEF WriteStamp, SweepOf
  <2>2. /\ c \in ClosingRun /\ c \in HuntRunning /\ c.st = "alerting" /\ c.n = r.n /\ c.hunt = h
        /\ c.prev = r.prev /\ c.rows = r.rows /\ c.saw = r.saw /\ c.cut = r.cut /\ c.at = r.at
        /\ SweepOf(c) = u
    BY <1>1, <1>2 DEF ClosingRun, HuntRunning, SweepOf
  <2>3. /\ u \in Sweep /\ u.n = r.n /\ u.hunt = h /\ u.at = r.at /\ u.told = FALSE
    BY <1>1, <1>2, HuntRunStates DEF SweepOf
  <2>4. /\ r.n \in Nat /\ r.at \in Nat /\ r.prev \in Nat /\ RunFits(r, sweeps, clock, nruns)
        /\ r # NoRun /\ c # NoRun
    BY <1>1, <2>2, HuntRunStates DEF HuntInv, RunsFit
  <2>. HIDE DEF c, u
  <2>5. /\ runs' \in [Slots -> {NoRun} \cup HuntRunning]
        /\ runs'[s] = c /\ \A o \in Slots \ {s} : runs'[o] = runs[o]
        /\ sweeps' \subseteq Sweep /\ sweeps \subseteq sweeps'
    BY <2>1, <2>2, <2>3 DEF HuntInv, HuntTypes
  <2>6. /\ hunts' \in [HuntIds -> [exists : BOOLEAN, notify : BOOLEAN, last : Nat]]
        /\ hunts'[h].last = r.at
        /\ \A g \in HuntIds : /\ hunts'[g].exists = hunts[g].exists
                              /\ g # h => hunts'[g] = hunts[g]
    BY <2>1, <2>4 DEF HuntInv, HuntTypes
  <2>7. HuntTypes'
    BY <1>1, <2>5, <2>6 DEF HuntInv, HuntTypes
  <2>8. RunsFit'
    <3>. SUFFICES ASSUME NEW o \in Slots, runs'[o] # NoRun
                  PROVE  RunFits(runs'[o], sweeps', clock', nruns')
      BY DEF RunsFit
    <3>1. CASE o = s
      BY <1>1, <1>2, <2>1, <2>2, <2>4, <2>5, <3>1 DEF RunFits
    <3>2. CASE o # s
      <4>1. /\ runs[o] \in HuntRunning /\ RunFits(runs[o], sweeps, clock, nruns)
            /\ runs'[o] = runs[o] /\ runs[o].n # r.n
        BY <2>4, <2>5, <3>2 DEF HuntInv, RunsFit, RunsDiffer, HuntTypes
      <4>2. /\ clock' \in Nat /\ clock <= clock'
            /\ nruns \in Nat /\ nruns' \in Nat /\ nruns <= nruns'
        BY <1>1 DEF HuntInv, HuntTypes
      <4>3. \A x \in sweeps' : x.n = runs[o].n => \E w \in sweeps : w.n = runs[o].n
        BY <2>1, <2>3, <4>1
      <4>4. /\ \A w \in sweeps : \E x \in sweeps' : x.n = w.n /\ x.hunt = w.hunt /\ x.at = w.at
            /\ SweepOf(runs[o]) \in sweeps => SweepOf(runs[o]) \in sweeps'
        BY <2>5
      <4>. QED
        BY <1>1, <4>1, <4>2, <4>3, <4>4, RunGoesOn
    <3>. QED
      BY <3>1, <3>2
  <2>9. RunsDiffer'
    BY <2>2, <2>4, <2>5 DEF HuntInv, RunsDiffer
  <2>10. SweepsDiffer'
    BY <1>1, <2>1, <2>3, <2>4 DEF HuntInv, SweepsDiffer, RunFits
  <2>11. LastIsSwept'
    <3>1. r.at <= clock /\ u \in sweeps'
      BY <1>1, <2>1, <2>4 DEF RunFits
    <3>. QED
      BY <1>1, <2>3, <2>5, <2>6, <3>1 DEF HuntInv, LastIsSwept
  <2>12. AllExplained'
    <3>. SUFFICES ASSUME NEW w \in sweeps', w.told, hunts'[w.hunt].exists, NEW i \in w.saw
                  PROVE  Explained(w.hunt, i, w.n)'
      BY DEF AllExplained
    <3>1. w \in sweeps /\ w.hunt \in HuntIds
      BY <2>1, <2>3, SweepStates DEF HuntInv, HuntTypes
    <3>2. Explained(w.hunt, i, w.n)
      BY <2>6, <3>1 DEF HuntInv, AllExplained
    <3>. QED
      BY <1>1, <2>5, <3>2 DEF Explained, Alerted
  <2>13. HuntsCalm'
    <3>. SUFFICES ASSUME NEW g \in HuntIds \ crowded
                  PROVE  /\ \A p, o \in Slots : Hunting(runs'[p], g) /\ Hunting(runs'[o], g) => p = o
                         /\ \A a \in alerts : a.hunt = g => \A i \in a.rows : Born(i) <= hunts'[g].last
                         /\ \A p \in Slots : Hunting(runs'[p], g) =>
                              RunAlone(runs'[p], alerts, hunts'[g].last)
      BY <1>1 DEF HuntsCalm
    <3>1. /\ \A p, o \in Slots : Hunting(runs[p], g) /\ Hunting(runs[o], g) => p = o
          /\ \A a \in alerts : a.hunt = g => \A i \in a.rows : Born(i) <= hunts[g].last
          /\ \A p \in Slots : Hunting(runs[p], g) => RunAlone(runs[p], alerts, hunts[g].last)
      BY DEF HuntInv, HuntsCalm
    <3>2. \A p \in Slots : Hunting(runs'[p], g) <=> Hunting(runs[p], g)
      BY <1>2, <2>2, <2>4, <2>5 DEF Hunting
    <3>3. CASE g # h
      <4>1. ~Hunting(runs[s], g) /\ hunts'[g] = hunts[g]
        BY <1>2, <2>6, <3>3 DEF Hunting
      <4>. QED
        BY <2>5, <3>1, <3>2, <4>1
    <3>4. CASE g = h
      <4>1. Hunting(runs[s], g)
        BY <1>2, <2>4, <3>4 DEF Hunting
      <4>2. RunAlone(r, alerts, hunts[g].last) /\ \A p \in Slots : Hunting(runs'[p], g) => p = s
        BY <3>1, <3>2, <4>1
      <4>3. RunAlone(c, alerts, hunts'[g].last)
        BY <1>2, <2>2, <2>6, <3>4, <4>2 DEF RunAlone
      <4>4. ASSUME NEW a \in alerts, a.hunt = g, NEW i \in a.rows PROVE Born(i) <= hunts'[g].last
        <5>1. Born(i) <= r.prev /\ r.prev <= r.at
          BY <1>1, <1>2, <2>4, <3>4, <4>2, <4>4 DEF RunAlone, RunFits
        <5>2. Born(i) \in Nat
          BY <4>4, SweepStates DEF HuntInv, HuntTypes
        <5>. QED
          BY <2>4, <2>6, <3>4, <5>1, <5>2
      <4>. QED
        BY <2>5, <3>1, <3>2, <4>2, <4>3, <4>4
    <3>. QED
      BY <3>3, <3>4
  <2>14. NoRepeatedAlert'
    BY <1>1 DEF HuntInv, NoRepeatedAlert
  <2>. QED
    BY <2>7, <2>8, <2>9, <2>10, <2>11, <2>12, <2>13, <2>14 DEF HuntInv
<1>. QED
  BY <1>3, <1>4

\* What a run that is about to alert has matched is explained once it has, by
\* what was there before it: the rows it brings, or the sweeps before it.
LEMMA RunExplains ==
  ASSUME HuntInv, NEW r \in ClosingRun, r.st = "alerting", RunFits(r, sweeps, clock, nruns),
         hunts[r.hunt].exists, NEW i \in r.saw
  PROVE  \/ r.notify /\ i \in r.rows
         \/ i \in Alerted(r.hunt)
         \/ \E o \in sweeps :
              /\ o.hunt = r.hunt /\ o.n < r.n /\ o.at >= Born(i)
              /\ i \notin o.saw \/ ~o.told
         \/ \E o \in sweeps : o.hunt = r.hunt /\ (~o.notify \/ i \in o.cut)
<1>1. /\ r.prev \in Nat /\ r.n \in Nat /\ r.notify \in BOOLEAN /\ r.hunt \in HuntIds
      /\ r.st # "find" /\ i \in Seen
  BY HuntRunStates DEF HuntRunning
<1>2. Born(i) \in Nat /\ Born(i) >= 1 /\ (Born(i) > r.prev => i \in r.rows \cup r.cut)
  BY <1>1, SweepStates DEF RunFits
<1>3. /\ SweepOf(r) \in sweeps /\ SweepOf(r).hunt = r.hunt
      /\ SweepOf(r).notify = r.notify /\ SweepOf(r).cut = r.cut
  BY DEF RunFits, SweepOf
<1>4. CASE Born(i) > r.prev
  BY <1>2, <1>3, <1>4
<1>5. CASE Born(i) <= r.prev
  <2>1. PICK o \in sweeps : o.hunt = r.hunt /\ o.at = r.prev /\ o.n < r.n
    BY <1>2, <1>5 DEF RunFits
  <2>2. CASE i \notin o.saw \/ ~o.told
    BY <1>5, <2>1, <2>2
  <2>3. CASE i \in o.saw /\ o.told
    <3>1. Explained(r.hunt, i, o.n)
      BY <2>1, <2>3 DEF HuntInv, AllExplained
    <3>2. o.n \in Nat /\ \A w \in sweeps : w.n \in Nat
      BY SweepStates DEF HuntInv, HuntTypes
    <3>3. \A w \in sweeps : w.n < o.n => w.n < r.n
      BY <1>1, <2>1, <3>2
    <3>. QED
      BY <3>1, <3>3 DEF Explained
  <2>. QED
    BY <2>2, <2>3
<1>. QED
  BY <1>1, <1>2, <1>4, <1>5

LEMMA AlertKeeps ==
  ASSUME IngestTypes, HuntInv, NEW s \in Slots, Alert(s)
  PROVE  HuntInv'
<1>0. PICK r : r = runs[s]
  OBVIOUS
<1>. DEFINE Tell(w) == IF w.n = r.n THEN [w EXCEPT !.told = TRUE] ELSE w
            new == AlertsOf(r)
<1>1. /\ r \in ClosingRun /\ r \in HuntRunning /\ r.st = "alerting" /\ r # NoRun
      /\ clock \in Nat /\ clock' = clock /\ UNCHANGED <<hunts, fits, nruns, crowded>>
      /\ runs' = [runs EXCEPT ![s] = NoRun]
      /\ alerts' = alerts \cup new
      /\ sweeps' = {Tell(w) : w \in sweeps}
  BY <1>0, RunStages, HuntRunStates DEF Alert, Calm, environment, HuntInv, IngestTypes
<1>2. PICK h \in HuntIds : h = r.hunt
  BY <1>1, HuntRunStates
<1>3. RunFits(r, sweeps, clock, nruns) /\ r.n \in Nat /\ nruns \in Nat
      /\ r.prev \in Nat /\ r.at \in Nat
  BY <1>0, <1>1, HuntRunStates DEF HuntInv, RunsFit, HuntTypes
<1>. DEFINE u == SweepOf(r)
<1>4. /\ u \in sweeps /\ u.n = r.n /\ u.hunt = h /\ u.saw = r.saw
  BY <1>1, <1>2, <1>3 DEF RunFits, SweepOf
<1>5. ASSUME NEW a \in new
      PROVE  /\ a.hunt = h /\ a.rows = r.rows /\ r.notify /\ hunts[h].exists
             /\ a \in [n : Nat, hunt : HuntIds, rows : SUBSET Seen]
  BY <1>1, <1>2, <1>5, HuntRunStates DEF AlertsOf
<1>6. ASSUME NEW i \in r.rows, r.notify, hunts[h].exists
      PROVE  \E a \in new : a.hunt = h /\ i \in a.rows
  BY <1>2, <1>6 DEF AlertsOf
<1>7. \A w \in sweeps :
        /\ Tell(w) \in Sweep /\ Tell(w).n = w.n /\ Tell(w).hunt = w.hunt /\ Tell(w).at = w.at
        /\ Tell(w).saw = w.saw /\ Tell(w).cut = w.cut /\ Tell(w).notify = w.notify
        /\ w.n # r.n => Tell(w) = w
        /\ w.n = r.n => w = u
  <2>1. \A w \in sweeps : w \in Sweep
    BY DEF HuntInv, HuntTypes
  <2>2. \A w \in sweeps : w.n = r.n => w = u
    BY <1>4 DEF HuntInv, SweepsDiffer
  <2>. QED
    BY <2>1, <2>2 DEF Sweep
<1>. HIDE DEF Tell, new, u
<1>8. /\ runs' \in [Slots -> {NoRun} \cup HuntRunning]
      /\ runs'[s] = NoRun /\ \A o \in Slots \ {s} : runs'[o] = runs[o]
      /\ sweeps' \subseteq Sweep
  BY <1>1, <1>7 DEF HuntInv, HuntTypes
<1>9. HuntTypes'
  BY <1>1, <1>5, <1>8 DEF HuntInv, HuntTypes
<1>10. RunsFit'
  <2>. SUFFICES ASSUME NEW o \in Slots, runs'[o] # NoRun
                PROVE  RunFits(runs'[o], sweeps', clock', nruns')
    BY DEF RunsFit
  <2>1. /\ runs[o] \in HuntRunning /\ RunFits(runs[o], sweeps, clock, nruns)
        /\ runs'[o] = runs[o] /\ runs[o].n # r.n
    BY <1>0, <1>1, <1>8 DEF HuntInv, RunsFit, RunsDiffer, HuntTypes
  <2>2. /\ clock \in Nat /\ clock' \in Nat /\ clock <= clock'
        /\ nruns \in Nat /\ nruns' \in Nat /\ nruns <= nruns'
    BY <1>1, <1>3
  <2>3. /\ \A w \in sweeps : \E x \in sweeps' : x.n = w.n /\ x.hunt = w.hunt /\ x.at = w.at
        /\ \A x \in sweeps' : x.n = runs[o].n => \E w \in sweeps : w.n = runs[o].n
    BY <1>1, <1>7
  <2>4. SweepOf(runs[o]) \in sweeps => SweepOf(runs[o]) \in sweeps'
    <3>1. SweepOf(runs[o]).n = runs[o].n
      BY DEF SweepOf
    <3>. QED
      BY <1>1, <1>7, <2>1, <3>1
  <2>. QED
    BY <2>1, <2>2, <2>3, <2>4, RunGoesOn
<1>11. RunsDiffer'
  BY <1>8 DEF HuntInv, RunsDiffer
<1>12. SweepsDiffer'
  BY <1>1, <1>7 DEF HuntInv, SweepsDiffer
<1>13. LastIsSwept'
  BY <1>1, <1>7 DEF HuntInv, LastIsSwept
<1>14. \A g : Alerted(g) \subseteq Alerted(g)'
  BY <1>1 DEF Alerted
<1>15. ASSUME hunts[h].exists, NEW i \in r.saw PROVE Explained(h, i, r.n)'
  <2>1. CASE r.notify /\ i \in r.rows
    <3>1. \E a \in alerts' : a.hunt = h /\ i \in a.rows
      BY <1>1, <1>6, <1>15, <2>1
    <3>. QED
      BY <3>1 DEF Explained, Alerted
  <2>2. CASE i \in Alerted(r.hunt)
    BY <1>2, <1>14, <2>2 DEF Explained
  <2>3. ASSUME NEW o \in sweeps, o.hunt = r.hunt, o.n < r.n, o.at >= Born(i),
               i \notin o.saw \/ ~o.told
        PROVE  Explained(h, i, r.n)'
    <3>1. o.n # r.n
      BY <1>3, <2>3
    <3>2. o \in sweeps'
      BY <1>1, <1>7, <3>1
    <3>. QED
      BY <1>2, <2>3, <3>2 DEF Explained
  <2>4. ASSUME NEW o \in sweeps, o.hunt = r.hunt, ~o.notify \/ i \in o.cut
        PROVE  Explained(h, i, r.n)'
    <3>1. \E x \in sweeps' : x.hunt = h /\ (~x.notify \/ i \in x.cut)
      BY <1>1, <1>2, <1>7, <2>4
    <3>. QED
      BY <3>1 DEF Explained
  <2>. QED
    BY <1>1, <1>2, <1>3, <1>15, <2>1, <2>2, <2>3, <2>4, RunExplains
<1>16. AllExplained'
  <2>. SUFFICES ASSUME NEW x \in sweeps', x.told, hunts[x.hunt].exists, NEW i \in x.saw
                PROVE  Explained(x.hunt, i, x.n)'
    BY <1>1 DEF AllExplained
  <2>1. PICK w \in sweeps : x = Tell(w)
    BY <1>1
  <2>2. CASE w.n = r.n
    <3>1. x.hunt = h /\ x.n = r.n /\ i \in r.saw
      BY <1>4, <1>7, <2>1, <2>2
    <3>. QED
      BY <1>15, <3>1
  <2>3. CASE w.n # r.n
    <3>1. x = w /\ Explained(x.hunt, i, x.n)
      BY <1>7, <2>1, <2>3 DEF HuntInv, AllExplained
    <3>2. CASE i \in Alerted(x.hunt)
      BY <1>14, <3>2 DEF Explained
    <3>3. ASSUME NEW o \in sweeps, o.hunt = x.hunt, o.n < x.n, o.at >= Born(i),
                 i \notin o.saw \/ ~o.told
          PROVE  Explained(x.hunt, i, x.n)'
      <4>1. CASE o.n # r.n
        <5>1. o \in sweeps'
          BY <1>1, <1>7, <4>1
        <5>. QED
          BY <3>3, <5>1 DEF Explained
      <4>2. CASE o.n = r.n /\ i \notin o.saw
        <5>1. \E y \in sweeps' : /\ y.hunt = x.hunt /\ y.n < x.n /\ y.at >= Born(i)
                                 /\ i \notin y.saw
          BY <1>1, <1>7, <3>3, <4>2
        <5>. QED
          BY <5>1 DEF Explained
      <4>3. CASE o.n = r.n /\ i \in o.saw
        <5>1. o.hunt = h /\ i \in r.saw /\ x.hunt = h /\ r.n < x.n
          BY <1>4, <1>7, <3>3, <4>3
        <5>2. Explained(h, i, r.n)'
          BY <1>15, <5>1
        <5>3. \A y \in sweeps' : y.n \in Nat
          BY <1>8, SweepStates
        <5>4. \A y \in sweeps' : y.n < r.n => y.n < x.n
          BY <1>3, <5>1, <5>3
        <5>. QED
          BY <5>1, <5>2, <5>4 DEF Explained
      <4>. QED
        BY <4>1, <4>2, <4>3
    <3>4. ASSUME NEW o \in sweeps, o.hunt = x.hunt, ~o.notify \/ i \in o.cut
          PROVE  Explained(x.hunt, i, x.n)'
      <4>1. \E y \in sweeps' : y.hunt = x.hunt /\ (~y.notify \/ i \in y.cut)
        BY <1>1, <1>7, <3>4
      <4>. QED
        BY <4>1 DEF Explained
    <3>. QED
      BY <3>1, <3>2, <3>3, <3>4 DEF Explained
  <2>. QED
    BY <2>2, <2>3
<1>17. ASSUME h \notin crowded
       PROVE  /\ RunAlone(r, alerts, hunts[h].last)
              /\ \A o \in Slots \ {s} : ~Hunting(runs[o], h)
  <2>1. Hunting(runs[s], h)
    BY <1>0, <1>1, <1>2 DEF Hunting
  <2>. QED
    BY <1>0, <1>17, <2>1 DEF HuntInv, HuntsCalm
<1>18. \A i \in r.rows : Born(i) \in Nat /\ Born(i) > r.prev /\ Born(i) <= r.at
  BY <1>1, <1>3, HuntRunStates, SweepStates DEF RunFits
<1>19. HuntsCalm'
  <2>. SUFFICES ASSUME NEW g \in HuntIds \ crowded
                PROVE  /\ \A p, o \in Slots : Hunting(runs'[p], g) /\ Hunting(runs'[o], g) => p = o
                       /\ \A a \in alerts' : a.hunt = g => \A i \in a.rows : Born(i) <= hunts[g].last
                       /\ \A p \in Slots : Hunting(runs'[p], g) =>
                            RunAlone(runs'[p], alerts', hunts[g].last)
    BY <1>1 DEF HuntsCalm
  <2>1. /\ \A p, o \in Slots : Hunting(runs[p], g) /\ Hunting(runs[o], g) => p = o
        /\ \A a \in alerts : a.hunt = g => \A i \in a.rows : Born(i) <= hunts[g].last
        /\ \A p \in Slots : Hunting(runs[p], g) => RunAlone(runs[p], alerts, hunts[g].last)
    BY DEF HuntInv, HuntsCalm
  <2>2. \A p \in Slots : Hunting(runs'[p], g) => Hunting(runs[p], g) /\ runs'[p] = runs[p] /\ p # s
    BY <1>8 DEF Hunting
  <2>3. CASE g # h
    <3>1. \A a \in new : a.hunt # g
      BY <1>5, <2>3
    <3>2. \A p \in Slots : Hunting(runs'[p], g) => runs'[p].hunt = g
      BY DEF Hunting
    <3>. QED
      BY <1>1, <2>1, <2>2, <3>1, <3>2 DEF RunAlone
  <2>4. CASE g = h
    <3>1. \A p \in Slots : ~Hunting(runs'[p], g)
      BY <1>17, <2>2, <2>4
    <3>2. hunts[g].last = r.at
      BY <1>1, <1>17, <2>4 DEF RunAlone
    <3>. QED
      BY <1>1, <1>5, <1>18, <2>1, <3>1, <3>2
  <2>. QED
    BY <2>3, <2>4
<1>20. NoRepeatedAlert'
  <2>. SUFFICES ASSUME NEW a \in alerts', NEW b \in alerts', a.n # b.n, a.hunt = b.hunt,
                       a.hunt \notin crowded, NEW i \in a.rows \cap b.rows
                PROVE  FALSE
    BY <1>1 DEF NoRepeatedAlert
  <2>1. CASE a \in alerts /\ b \in alerts
    BY <2>1 DEF HuntInv, NoRepeatedAlert
  <2>2. ASSUME NEW x \in alerts, x.hunt = h, i \in x.rows, h \notin crowded, i \in r.rows
        PROVE  FALSE
    <3>1. Born(i) <= r.prev
      BY <1>2, <1>17, <2>2 DEF RunAlone
    <3>. QED
      BY <1>3, <1>18, <2>2, <3>1
  <2>3. CASE a \in new /\ b \in new
    <3>1. a = b
      BY <2>3 DEF new, AlertsOf
    <3>. QED
      BY <3>1
  <2>4. CASE a \in new /\ b \in alerts
    BY <1>5, <2>2, <2>4
  <2>5. CASE a \in alerts /\ b \in new
    BY <1>5, <2>2, <2>5
  <2>. QED
    BY <1>1, <2>1, <2>3, <2>4, <2>5
<1>. QED
  BY <1>9, <1>10, <1>11, <1>12, <1>13, <1>16, <1>19, <1>20 DEF HuntInv

LEMMA EditHuntKeeps ==
  ASSUME IngestTypes, HuntInv, NEW h \in HuntIds, EditHunt(h)
  PROVE  HuntInv'
<1>. DEFINE row == [hunts[h] EXCEPT !.notify = ~@]
<1>1. /\ hunts' = [hunts EXCEPT ![h] = row]
      /\ clock' = clock /\ UNCHANGED <<fits, runs, alerts, sweeps, nruns, crowded>>
  BY DEF EditHunt, Upset
<1>2. /\ row \in [exists : BOOLEAN, notify : BOOLEAN, last : Nat]
      /\ row.exists = hunts[h].exists /\ row.last = hunts[h].last
  BY DEF HuntInv, HuntTypes
<1>. HIDE DEF row
<1>3. /\ hunts' \in [HuntIds -> [exists : BOOLEAN, notify : BOOLEAN, last : Nat]]
      /\ \A g \in HuntIds : hunts'[g].exists = hunts[g].exists /\ hunts'[g].last = hunts[g].last
  BY <1>1, <1>2 DEF HuntInv, HuntTypes
<1>4. \A w \in sweeps : w.hunt \in HuntIds
  BY SweepStates DEF HuntInv, HuntTypes
<1>5. HuntTypes' /\ RunsFit' /\ RunsDiffer' /\ SweepsDiffer' /\ NoRepeatedAlert'
  BY <1>1, <1>3 DEF HuntInv, HuntTypes, RunsFit, RunsDiffer, SweepsDiffer, NoRepeatedAlert
<1>6. LastIsSwept'
  BY <1>1, <1>3 DEF HuntInv, LastIsSwept
<1>7. AllExplained'
  BY <1>1, <1>3, <1>4 DEF HuntInv, AllExplained, Explained, Alerted
<1>8. HuntsCalm'
  BY <1>1, <1>3 DEF HuntInv, HuntsCalm
<1>. QED
  BY <1>5, <1>6, <1>7, <1>8 DEF HuntInv

LEMMA DeleteHuntKeeps ==
  ASSUME IngestTypes, HuntInv, NEW h \in HuntIds, DeleteHunt(h)
  PROVE  HuntInv'
<1>. DEFINE row == [hunts[h] EXCEPT !.exists = FALSE]
<1>1. /\ hunts' = [hunts EXCEPT ![h] = row]
      /\ alerts' = {a \in alerts : a.hunt # h}
      /\ clock' = clock /\ UNCHANGED <<fits, runs, sweeps, nruns, crowded>>
  BY DEF DeleteHunt, Upset
<1>2. /\ row \in [exists : BOOLEAN, notify : BOOLEAN, last : Nat]
      /\ row.exists = FALSE /\ row.last = hunts[h].last
  BY DEF HuntInv, HuntTypes
<1>. HIDE DEF row
<1>3. /\ hunts' \in [HuntIds -> [exists : BOOLEAN, notify : BOOLEAN, last : Nat]]
      /\ \A g \in HuntIds : /\ hunts'[g].last = hunts[g].last
                            /\ hunts'[g].exists => hunts[g].exists /\ g # h
  BY <1>1, <1>2 DEF HuntInv, HuntTypes
<1>4. \A w \in sweeps : w.hunt \in HuntIds
  BY SweepStates DEF HuntInv, HuntTypes
<1>5. HuntTypes' /\ RunsFit' /\ RunsDiffer' /\ SweepsDiffer' /\ NoRepeatedAlert'
  BY <1>1, <1>3 DEF HuntInv, HuntTypes, RunsFit, RunsDiffer, SweepsDiffer, NoRepeatedAlert
<1>6. LastIsSwept'
  BY <1>1, <1>3 DEF HuntInv, LastIsSwept
<1>7. AllExplained'
  <2>. SUFFICES ASSUME NEW w \in sweeps, w.told, hunts'[w.hunt].exists, NEW i \in w.saw
                PROVE  Explained(w.hunt, i, w.n)'
    BY <1>1 DEF AllExplained
  <2>1. w.hunt # h /\ Explained(w.hunt, i, w.n)
    BY <1>3, <1>4 DEF HuntInv, AllExplained
  <2>2. Alerted(w.hunt)' = Alerted(w.hunt)
    BY <1>1, <2>1 DEF Alerted
  <2>. QED
    BY <1>1, <2>1, <2>2 DEF Explained
<1>8. HuntsCalm'
  BY <1>1, <1>3 DEF HuntInv, HuntsCalm, RunAlone
<1>. QED
  BY <1>5, <1>6, <1>7, <1>8 DEF HuntInv

\* Nothing of a hunt changes while the clock goes on, indicators come and go,
\* and a value begins or ceases to match.
LEMMA HuntWaits ==
  ASSUME IngestTypes, HuntInv, clock' \in Nat, clock <= clock', fits' \subseteq Values,
         UNCHANGED <<hunts, runs, alerts, sweeps, nruns, crowded>>
  PROVE  HuntInv'
<1>1. HuntTypes' /\ RunsDiffer' /\ SweepsDiffer' /\ NoRepeatedAlert' /\ HuntsCalm'
  BY DEF HuntInv, HuntTypes, RunsDiffer, SweepsDiffer, NoRepeatedAlert, HuntsCalm
<1>2. RunsFit'
  <2>. SUFFICES ASSUME NEW s \in Slots, runs[s] # NoRun
                PROVE  RunFits(runs[s], sweeps, clock', nruns)
    BY DEF RunsFit
  <2>1. /\ runs[s] \in HuntRunning /\ RunFits(runs[s], sweeps, clock, nruns)
        /\ clock \in Nat /\ nruns \in Nat
    BY DEF HuntInv, RunsFit, HuntTypes, IngestTypes
  <2>2. /\ \A w \in sweeps : \E x \in sweeps : x.n = w.n /\ x.hunt = w.hunt /\ x.at = w.at
        /\ \A x \in sweeps : x.n = runs[s].n => \E w \in sweeps : w.n = runs[s].n
    OBVIOUS
  <2>3. nruns <= nruns
    BY <2>1
  <2>. QED
    BY <2>1, <2>2, <2>3, RunGoesOn
<1>3. LastIsSwept'
  <2>1. \A h \in HuntIds : hunts[h].last \in Nat
    BY DEF HuntInv, HuntTypes
  <2>2. clock \in Nat
    BY DEF IngestTypes
  <2>. QED
    BY <2>1, <2>2 DEF HuntInv, LastIsSwept
<1>4. AllExplained'
  BY DEF HuntInv, AllExplained, Explained, Alerted
<1>. QED
  BY <1>1, <1>2, <1>3, <1>4 DEF HuntInv

LEMMA HuntStepKeeps ==
  ASSUME IngestTypes, HuntInv, HuntNext
  PROVE  HuntInv'
<1>1. ASSUME NEW v \in Values, Drift(v) PROVE HuntInv'
  <2>1. fits' \subseteq Values
    BY <1>1 DEF Drift, HuntInv, HuntTypes
  <2>2. /\ clock' \in Nat /\ clock <= clock'
        /\ UNCHANGED <<hunts, runs, alerts, sweeps, nruns, crowded>>
    BY <1>1 DEF Drift, Upset, IngestTypes
  <2>. QED
    BY <2>1, <2>2, HuntWaits
<1>. QED
  BY <1>1, LoadKeeps, FindKeeps, DateKeeps, WriteStampKeeps, AlertKeeps, HuntDiesKeeps,
     EditHuntKeeps, DeleteHuntKeeps DEF HuntNext

\* Every action of the ingests and of the hunts is one of the upsets, or calm.
LEMMA ActionsCalm ==
  ASSUME IngestNext \/ HuntNext
  PROVE  Calm \/ Upset
BY DEF IngestNext, Begin, SelectExisting, Insert, Touch, Abandon, DeleteRow, Whitelist,
       HuntNext, Load, Find, Date, WriteStamp, Alert, HuntDies, EditHunt, DeleteHunt, Drift

LEMMA HuntingKeeps ==
  ASSUME IngestInv, HuntInv, [HuntingNext]_<<environment, ingestVars, huntVars>>
  PROVE  IngestInv' /\ HuntInv'
<1>1. IngestTypes /\ clock \in Nat
  BY DEF IngestInv, IngestTypes
<1>2. ASSUME UNCHANGED huntVars, Calm \/ Upset \/ Pass PROVE HuntInv'
  <2>1. clock' \in Nat /\ clock <= clock'
    BY <1>1, <1>2 DEF Calm, Upset, Pass, environment
  <2>2. /\ fits' \subseteq Values
        /\ UNCHANGED <<hunts, runs, alerts, sweeps, nruns, crowded>>
    BY <1>2 DEF huntVars, HuntInv, HuntTypes
  <2>. QED
    BY <1>1, <2>1, <2>2, HuntWaits
<1>3. CASE IngestNext /\ UNCHANGED huntVars
  BY <1>2, <1>3, IngestStepKeeps, ActionsCalm
<1>4. CASE HuntNext /\ UNCHANGED ingestVars
  BY <1>1, <1>4, HuntStepKeeps, IngestWaits, ActionsCalm
<1>5. CASE HuntingElsewhere
  BY <1>2, <1>5, IngestWaits DEF HuntingElsewhere
<1>6. CASE UNCHANGED <<environment, ingestVars, huntVars>>
  BY <1>2, <1>6, IngestWaits DEF Calm
<1>. QED
  BY <1>3, <1>4, <1>5, <1>6 DEF HuntingNext

LEMMA HuntStarts == EnvironmentInit /\ HuntInit => HuntInv
<1>. SUFFICES ASSUME EnvironmentInit, HuntInit PROVE HuntInv
  OBVIOUS
<1>1. /\ hunts = [h \in HuntIds |-> [exists |-> TRUE, notify |-> TRUE, last |-> 0]]
      /\ fits = Values /\ runs = [s \in Slots |-> NoRun]
      /\ alerts = {} /\ sweeps = {} /\ nruns = 0 /\ clock = 1
  BY DEF HuntInit, EnvironmentInit
<1>2. HuntTypes /\ LastIsSwept
  BY <1>1 DEF HuntTypes, LastIsSwept
<1>3. RunsFit /\ RunsDiffer /\ SweepsDiffer /\ AllExplained /\ NoRepeatedAlert
  BY <1>1 DEF RunsFit, RunsDiffer, SweepsDiffer, AllExplained, NoRepeatedAlert
<1>4. HuntsCalm
  BY <1>1 DEF HuntsCalm, Hunting
<1>. QED
  BY <1>2, <1>3, <1>4 DEF HuntInv

LEMMA HuntsShow == HuntInv => NewMatchesAlerted /\ NoRepeatedAlert
<1>. SUFFICES ASSUME HuntInv PROVE NewMatchesAlerted
  BY DEF HuntInv
<1>. SUFFICES ASSUME NEW w \in sweeps, w.told, hunts[w.hunt].exists, NEW i \in w.saw
              PROVE  \/ i \in Alerted(w.hunt)
                     \/ \E o \in sweeps :
                          /\ o.hunt = w.hunt /\ o.at >= Born(i)
                          /\ i \notin o.saw \/ ~o.told
                     \/ \E o \in sweeps : o.hunt = w.hunt /\ (~o.notify \/ i \in o.cut)
  BY DEF NewMatchesAlerted
<1>. QED
  BY DEF HuntInv, AllExplained, Explained

LEMMA HuntsStay == HuntSpec => [](NewMatchesAlerted /\ NoRepeatedAlert)
<1>1. IngestInv /\ HuntInv /\ [HuntingNext]_<<environment, ingestVars, huntVars>>
        => (IngestInv /\ HuntInv)'
  BY HuntingKeeps
<1>2. EnvironmentInit /\ IngestInit /\ HuntInit => IngestInv /\ HuntInv
  BY IngestStarts, HuntStarts
<1>. QED
  BY <1>1, <1>2, HuntsShow, PTL DEF HuntSpec

\* What a finished run matched was alerted on, or is accounted for (see
\* NewMatchesAlerted), for any hunts, slots and overlapping runs.
THEOREM MatchesAreAlerted == HuntSpec => []NewMatchesAlerted
BY HuntsStay, PTL

\* A hunt whose runs do not overlap alerts on a row once (see NoRepeatedAlert),
\* whatever crashes and retries come between.
THEOREM AlertsAreNew == HuntSpec => []NoRepeatedAlert
BY HuntsStay, PTL
=============================================================================
