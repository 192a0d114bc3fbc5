------------------------------- MODULE Ingest -------------------------------
(***************************************************************************)
(* The single ingest path of src/lib/ioc/ingest.ts: a feed run, a paste,   *)
(* an upload and an API call read which of their values are stored, insert *)
(* the others with skipDuplicates and touch the stored ones by id.  Each   *)
(* of these is a statement of its own, so other ingests and an analyst's   *)
(* deletion come in between.  A row's createdAt is set when the INSERT is  *)
(* sent and the row is visible once it is committed.                       *)
(***************************************************************************)
EXTENDS Environment, FiniteSets

CONSTANTS
  Values,       \* normalized indicator values (type and value)
  Allowlisted,  \* the values whitelistReason names a reason for
  Ingests,      \* ingestParsed calls
  HalfLife,     \* decayHalfLifeDays of each source; 0 is none
  NoSource,     \* a paste or an API call: options.sourceId is absent
  Sightings,    \* what a call may bring: a source (or NoSource) and values
  MaxBirths     \* bound: how often a value is inserted

Sources == DOMAIN HalfLife
Never == MaxClock + 1000  \* expiresAt is null: the row does not expire

ASSUME IngestAssumption ==
  /\ Allowlisted \subseteq Values
  /\ HalfLife \in [Sources -> Nat]
  /\ NoSource \notin Sources
  /\ Sightings \subseteq (Sources \cup {NoSource}) \X SUBSET Values
  /\ MaxBirths \in Nat

VARIABLES
  table,    \* the Indicator table
  births,   \* how often each value was inserted: with the value, the row's id
  ingests,  \* the calls in progress
  claimed,  \* history: what the finished calls said of the stored row
  raced     \* history: values two calls handled at the same time

ingestVars == <<table, births, ingests, claimed, raced>>

Absent == [id |-> 0]
Row(n, created, at, exp, white) ==
  [id |-> n, born |-> created, seen |-> at, expires |-> exp, white |-> white]
Stored(v) == table[v].id # 0
NoClaim == [seen |-> 0, until |-> 0]
Resting == [st |-> "resting"]
Ended == [st |-> "ended"]
Busy(r) == ingests[r].st \notin {"resting", "ended"}

IngestInit ==
  /\ table = [v \in Values |-> Absent]
  /\ births = [v \in Values |-> 0]
  /\ ingests = [r \in Ingests |-> Resting]
  /\ claimed = [v \in Values |-> NoClaim]
  /\ raced = {}
-----------------------------------------------------------------------------
\* indicatorExpiresAt: no source, no half-life or zero means never.
ExpiryFrom(src, at) ==
  IF src = NoSource \/ HalfLife[src] = 0 THEN Never ELSE at + HalfLife[src]

\* now, the source's half-life; parseBulk has removed duplicates.
Begin(r, src, input) ==
  /\ ingests[r] = Resting
  /\ ingests' = [ingests EXCEPT ![r] =
       [st |-> "select", src |-> src, input |-> input, at |-> clock,
        exp |-> ExpiryFrom(src, clock)]]
  /\ raced' = raced \cup
       {v \in input : \E o \in Ingests : Busy(o) /\ v \in ingests[o].input}
  /\ Calm
  /\ UNCHANGED <<table, births, claimed>>

\* findMany: the ids of the values that exist.
SelectExisting(r) ==
  /\ ingests[r].st = "select"
  /\ LET input == ingests[r].input
     IN  ingests' = [ingests EXCEPT ![r] =
           [st |-> "insert", src |-> @.src, input |-> input, at |-> @.at,
            exp |-> @.exp, created |-> clock,
            hits |-> {<<v, table[v].id>> : v \in {w \in input : Stored(w)}}]]
  /\ Calm
  /\ UNCHANGED <<table, births, claimed, raced>>

Missing(r) == {v \in ingests[r].input : \A h \in ingests[r].hits : h[1] # v}

\* createMany reaches the database: rows another call inserted are skipped.
Inserted(r) == {v \in Missing(r) : ~Stored(v)}

Insert(r) ==
  /\ ingests[r].st = "insert"
  /\ \A v \in Inserted(r) : births[v] < MaxBirths
  /\ births' = [v \in Values |->
       IF v \in Inserted(r) THEN births[v] + 1 ELSE births[v]]
  /\ table' = [v \in Values |->
       IF v \in Inserted(r)
       THEN Row(births[v] + 1, ingests[r].created, ingests[r].at,
                ingests[r].exp, v \in Allowlisted)
       ELSE table[v]]
  /\ ingests' = [ingests EXCEPT ![r].st = "touch"]
  /\ Calm
  /\ UNCHANGED <<claimed, raced>>

\* updateMany by id; only a call with a source writes expiresAt.
TouchedNone(r, v) == FALSE
Touched(r, v) == \E h \in ingests[r].hits : h = <<v, table[v].id>>

Touch(r) ==
  /\ ingests[r].st = "touch"
  /\ table' = [v \in Values |->
       IF ~Touched(r, v) THEN table[v]
       ELSE [table[v] EXCEPT !.seen = ingests[r].at,
               !.expires = IF ingests[r].src = NoSource THEN @ ELSE ingests[r].exp]]
  /\ claimed' = [v \in Values |->
       IF v \notin ingests[r].input \/ ~Stored(v) THEN claimed[v]
       ELSE [seen |-> ingests[r].at,
             until |-> IF ingests[r].src = NoSource THEN claimed[v].until
                       ELSE ingests[r].exp]]
  /\ ingests' = [ingests EXCEPT ![r] = Ended]
  /\ Calm
  /\ UNCHANGED <<births, raced>>

\* The process dies, or a statement is rejected: what was written stays.
Abandon(r) ==
  /\ Busy(r)
  /\ Upset
  /\ ingests' = [ingests EXCEPT ![r] = Ended]
  /\ UNCHANGED <<table, births, claimed, raced>>

\* deleteIndicator.
DeleteRow(v) ==
  /\ Stored(v)
  /\ Upset
  /\ table' = [table EXCEPT ![v] = Absent]
  /\ claimed' = [claimed EXCEPT ![v] = NoClaim]
  /\ UNCHANGED <<births, ingests, raced>>

\* setWhitelisted.
Whitelist(v) ==
  /\ Stored(v)
  /\ Upset
  /\ table' = [table EXCEPT ![v].white = ~@]
  /\ UNCHANGED <<births, ingests, claimed, raced>>

IngestNext ==
  \/ \E r \in Ingests :
       \/ \E x \in Sightings : Begin(r, x[1], x[2])
       \/ SelectExisting(r)
       \/ Insert(r)
       \/ Touch(r)
       \/ Abandon(r)
  \/ \E v \in Values : DeleteRow(v) \/ Whitelist(v)
-----------------------------------------------------------------------------
RowType ==
  {Absent} \cup
  [id : 1 .. MaxBirths, born : 1 .. MaxClock, seen : 1 .. MaxClock,
   expires : Nat, white : BOOLEAN]
IngestTypeOK ==
  /\ table \in [Values -> RowType]
  /\ births \in [Values -> 0 .. MaxBirths]
  /\ raced \subseteq Values

\* What a finished call said of a stored row - when it was seen, and by a
\* source until when it is live - is lost only to a call that handled the
\* value at the same time, however calls, deletions and rejected statements
\* follow each other ("re-seeing an indicator is meaningful signal: it is
\* still live").
SightingsKept ==
  \A v \in Values : Stored(v) /\ v \notin raced =>
    /\ table[v].seen >= claimed[v].seen
    /\ claimed[v].until # 0 => table[v].expires = claimed[v].until
=============================================================================
