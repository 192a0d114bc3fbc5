-------------------------------- MODULE Hunts --------------------------------
(***************************************************************************)
(* Hunt execution, src/lib/hunting/run.ts: a scheduled run (hunts queue)   *)
(* and a "Run now" click both call runHunt, which loads the hunt, selects  *)
(* the matching indicators created since lastRunAt, writes lastRunAt and   *)
(* only then the alert.  Nothing keeps two runs of one hunt apart.  The    *)
(* indicators are those of module Ingest.                                  *)
(***************************************************************************)
EXTENDS Ingest

CONSTANTS
  HuntIds,   \* saved hunts
  Slots,     \* places a run executes: the hunt worker's slots and clicks
  Take,      \* findMany's take (500)
  MaxRuns    \* bound: hunt runs of a behaviour

ASSUME HuntAssumption == MaxRuns \in Nat /\ Take \in Nat

VARIABLES
  hunts,   \* the HuntQuery rows
  fits,    \* the values whose row the query matches now, by its other columns
  runs,    \* the runs in progress
  alerts,  \* the HuntAlert rows
  sweeps,  \* history: every run that wrote lastRunAt
  nruns,   \* how many runs there were
  crowded  \* history: hunts two runs of which overlapped

huntVars == <<hunts, fits, runs, alerts, sweeps, nruns, crowded>>

NoRun == [st |-> "none"]
Id(v) == <<v, table[v].id, table[v].born>>
Born(i) == i[3]

HuntInit ==
  /\ hunts = [h \in HuntIds |-> [exists |-> TRUE, notify |-> TRUE, last |-> 0]]
  /\ fits = Values
  /\ runs = [s \in Slots |-> NoRun]
  /\ alerts = {}
  /\ sweeps = {}
  /\ nruns = 0
  /\ crowded = {}
-----------------------------------------------------------------------------
\* compileWhere: whitelisted rows never match, whatever the query says.
Matches == {Id(v) : v \in {w \in fits : Stored(w) /\ ~table[w].white}}

\* Rows that match and were created after the previous run; all of them on a
\* first run (last = 0).  The newest `take` of them.
NewSince(prev) == {i \in Matches : Born(i) > prev}
Newest(S) ==
  {T \in SUBSET S :
     /\ Cardinality(T) = IF Cardinality(S) <= Take THEN Cardinality(S) ELSE Take
     /\ \A i \in T, j \in S \ T : Born(i) >= Born(j)}

\* findUnique; a missing hunt is an error and the run ends.
Load(s, h) ==
  /\ runs[s] = NoRun
  /\ nruns < MaxRuns
  /\ nruns' = nruns + 1
  /\ runs' = [runs EXCEPT ![s] =
       IF ~hunts[h].exists THEN NoRun
       ELSE [st |-> "find", n |-> nruns + 1, hunt |-> h, prev |-> hunts[h].last,
             notify |-> hunts[h].notify]]
  /\ crowded' = crowded \cup
       {g \in {h} : \E o \in Slots : runs[o] # NoRun /\ runs[o].hunt = h}
  /\ Calm
  /\ UNCHANGED <<hunts, fits, alerts, sweeps>>

\* The two counts and the findMany.
Find(s) ==
  /\ runs[s].st = "find"
  /\ \E T \in Newest(NewSince(runs[s].prev)) :
       runs' = [runs EXCEPT ![s] =
         [st |-> "found", n |-> @.n, hunt |-> @.hunt, prev |-> @.prev,
          notify |-> @.notify, rows |-> T, saw |-> Matches,
          cut |-> NewSince(runs[s].prev) \ T]]
  /\ Calm
  /\ UNCHANGED <<hunts, fits, alerts, sweeps, nruns, crowded>>

\* new Date(), then the update is sent.
StampEarly(s) == runs[s].prev + 1
Stamp(s) == clock

Date(s) ==
  /\ runs[s].st = "found"
  /\ runs' = [runs EXCEPT ![s] =
       [st |-> "stamping", n |-> @.n, hunt |-> @.hunt, prev |-> @.prev,
        notify |-> @.notify, rows |-> @.rows, saw |-> @.saw, cut |-> @.cut,
        at |-> Stamp(s)]]
  /\ Calm
  /\ UNCHANGED <<hunts, fits, alerts, sweeps, nruns, crowded>>

\* update: lastRunAt; rejected when the hunt is gone.
WriteStamp(s) ==
  /\ runs[s].st = "stamping"
  /\ LET r == runs[s]
     IN  IF hunts[r.hunt].exists
         THEN /\ hunts' = [hunts EXCEPT ![r.hunt].last = r.at]
              /\ runs' = [runs EXCEPT ![s].st = "alerting"]
              /\ sweeps' = sweeps \cup
                   {[n |-> r.n, hunt |-> r.hunt, prev |-> r.prev, at |-> r.at,
                     saw |-> r.saw, cut |-> r.cut, notify |-> r.notify,
                     told |-> FALSE]}
         ELSE /\ runs' = [runs EXCEPT ![s] = NoRun]
              /\ UNCHANGED <<hunts, sweeps>>
  /\ Calm
  /\ UNCHANGED <<fits, alerts, nruns, crowded>>

\* An alert only when the hunt opted in (as loaded) and something is new.
\* (LaterAlerts is silent about a first run.)
LaterAlerts(r) ==
  IF r.notify /\ r.rows # {} /\ r.prev # 0 /\ hunts[r.hunt].exists
  THEN {[n |-> r.n, hunt |-> r.hunt, rows |-> r.rows]} ELSE {}
AlertsOf(r) ==
  IF r.notify /\ r.rows # {} /\ hunts[r.hunt].exists
  THEN {[n |-> r.n, hunt |-> r.hunt, rows |-> r.rows]} ELSE {}

Alert(s) ==
  /\ runs[s].st = "alerting"
  /\ alerts' = alerts \cup AlertsOf(runs[s])
  /\ sweeps' = {IF w.n = runs[s].n THEN [w EXCEPT !.told = TRUE] ELSE w :
                  w \in sweeps}
  /\ runs' = [runs EXCEPT ![s] = NoRun]
  /\ Calm
  /\ UNCHANGED <<hunts, fits, nruns, crowded>>

\* The process dies or a query is rejected; the queue retries with a new run.
HuntDies(s) ==
  /\ runs[s] # NoRun
  /\ Upset
  /\ runs' = [runs EXCEPT ![s] = NoRun]
  /\ UNCHANGED <<hunts, fits, alerts, sweeps, nruns, crowded>>

\* saveHunt turns the alerts on or off; deleteHunt takes the alerts along.
EditHunt(h) ==
  /\ hunts[h].exists
  /\ Upset
  /\ hunts' = [hunts EXCEPT ![h].notify = ~@]
  /\ UNCHANGED <<fits, runs, alerts, sweeps, nruns, crowded>>

DeleteHunt(h) ==
  /\ hunts[h].exists
  /\ Upset
  /\ hunts' = [hunts EXCEPT ![h].exists = FALSE]
  /\ alerts' = {a \in alerts : a.hunt # h}
  /\ UNCHANGED <<fits, runs, sweeps, nruns, crowded>>

\* Enrichment, an edit of the row or of the query: a value begins or ceases
\* to match.
Drift(v) ==
  /\ Upset
  /\ fits' = IF v \in fits THEN fits \ {v} ELSE fits \cup {v}
  /\ UNCHANGED <<hunts, runs, alerts, sweeps, nruns, crowded>>

HuntNext ==
  \/ \E s \in Slots :
       \/ \E h \in HuntIds : Load(s, h)
       \/ Find(s)
       \/ Date(s)
       \/ WriteStamp(s)
       \/ Alert(s)
       \/ HuntDies(s)
  \/ \E h \in HuntIds : EditHunt(h) \/ DeleteHunt(h)
  \/ \E v \in Values : Drift(v)
-----------------------------------------------------------------------------
Alerted(h) == UNION {a.rows : a \in {b \in alerts : b.hunt = h}}

\* An indicator a finished run of a hunt matched was alerted on, unless the
\* run was silent or cut the list, or an earlier run wrote a lastRunAt at or
\* after the row's creation without having seen the row (the window between
\* a run's query and its write) or died before its alert.
NewMatchesAlerted ==
  \A w \in sweeps : w.told /\ hunts[w.hunt].exists =>
    \A i \in w.saw :
      \/ i \in Alerted(w.hunt)
      \/ \E o \in sweeps :
           /\ o.hunt = w.hunt /\ o.at >= Born(i)
           /\ i \notin o.saw \/ ~o.told
      \/ \E o \in sweeps : o.hunt = w.hunt /\ (~o.notify \/ i \in o.cut)

\* One indicator is alerted on twice only if runs of the hunt overlapped:
\* neither a crash at any step nor a retry repeats an alert ("a hunt that
\* re-alerts on the same 400 indicators every hour is noise").
NoRepeatedAlert ==
  \A a, b \in alerts :
    a.n # b.n /\ a.hunt = b.hunt /\ a.hunt \notin crowded =>
      a.rows \cap b.rows = {}
=============================================================================
