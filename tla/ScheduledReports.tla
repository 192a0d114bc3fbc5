-------------------------- MODULE ScheduledReports --------------------------
(***************************************************************************)
(* Scheduled summary reports, src/lib/reports/run.ts and generate.ts.  A   *)
(* run reads lastRunAt, takes the clock, queries what is dated inside the  *)
(* window, files the report under a slug it looked up first, and then      *)
(* writes lastRunAt.  The worker has two slots and "Run now" is another    *)
(* caller; a failed run is started again by the queue.                     *)
(***************************************************************************)
EXTENDS Environment, FiniteSets

CONSTANTS
  Schedules,  \* ScheduledReport rows
  NameOf,     \* their names: names are not unique
  RepSlots,   \* places a run executes
  News,       \* indicators, actors, campaigns, alerts: dated by createdAt
  RepDayLen,  \* ticks in a day
  MaxReports  \* bound: runs of a behaviour

ASSUME ReportAssumption == MaxReports \in Nat /\ RepDayLen \in Nat \ {0}

VARIABLES
  schedules,  \* [exists, last]; last is 0 before the first run
  items,      \* [st, dated]: what a summary counts; quiet (history): it was
              \* written with no run in progress
  repRuns,    \* the runs in progress
  filed,      \* the Report rows
  nreps,      \* how many runs there were
  blurred     \* history: schedules whose runs overlapped or were cut off

reportVars == <<schedules, items, repRuns, filed, nreps, blurred>>

NobodyRuns == \A s \in RepSlots : repRuns[s].st = "none"

Created == 1   \* createdAt of the schedules
NoRep == [st |-> "none"]
Day(t) == t \div RepDayLen

ReportInit ==
  /\ schedules = [q \in Schedules |-> [exists |-> TRUE, last |-> 0]]
  /\ items = [i \in News |-> [st |-> "none", dated |-> 0, quiet |-> TRUE]]
  /\ repRuns = [s \in RepSlots |-> NoRep]
  /\ filed = {}
  /\ nreps = 0
  /\ blurred = {}
-----------------------------------------------------------------------------
(* What the summary is about.                                              *)

\* A row is dated when its INSERT is sent and there once it is committed.
SendRow(i) ==
  /\ items[i].st = "none"
  /\ items' = [items EXCEPT ![i] = 
       [st |-> "sent", dated |-> clock, quiet |-> NobodyRuns]]
  /\ Calm
  /\ UNCHANGED <<schedules, repRuns, filed, nreps, blurred>>

CommitRow(i) ==
  /\ items[i].st = "sent"
  /\ items' = [items EXCEPT ![i].st = "there", ![i].quiet = @ /\ NobodyRuns]
  /\ Calm
  /\ UNCHANGED <<schedules, repRuns, filed, nreps, blurred>>

-----------------------------------------------------------------------------
(* runScheduledReport.                                                     *)

SinceOf(q) == IF schedules[q].last = 0 THEN Created ELSE schedules[q].last

\* findUnique, since and until; a missing schedule is an error.
LoadReport(s, q) ==
  /\ repRuns[s] = NoRep
  /\ nreps < MaxReports
  /\ nreps' = nreps + 1
  /\ repRuns' = [repRuns EXCEPT ![s] =
       IF ~schedules[q].exists THEN NoRep
       ELSE [st |-> "query", n |-> nreps + 1, sched |-> q, since |-> SinceOf(q),
             until |-> clock]]
  /\ blurred' = blurred \cup
       {p \in {q} : \E o \in RepSlots : repRuns[o] # NoRep /\ repRuns[o].sched = q}
  /\ items' = [i \in DOMAIN items |->
       [items[i] EXCEPT !.quiet = @ /\ items[i].st # "sent"]]
  /\ Calm
  /\ UNCHANGED <<schedules, filed>>

Inside(r, t) == r.since <= t /\ t < r.until

\* generateSummaryReport: the queries over [since, until).
Generate(s) ==
  /\ repRuns[s].st = "query"
  /\ LET r == repRuns[s]
         there == {i \in DOMAIN items : items[i].st = "there"}
     IN  repRuns' = [repRuns EXCEPT ![s] =
           [st |-> "slug", n |-> r.n, sched |-> r.sched, since |-> r.since,
            until |-> r.until,
            about |-> {i \in there : Inside(r, items[i].dated)}]]
  /\ Calm
  /\ UNCHANGED <<schedules, items, filed, nreps, blurred>>

DaySlug(r) == [name |-> NameOf[r.sched], day |-> Day(r.until), ms |-> 0]
TakenSlug(x) == \E f \in filed : f.slug = x

\* findUnique by slug; a taken one gets the millisecond appended.
ChooseSlug(s) ==
  /\ repRuns[s].st = "slug"
  /\ LET r == repRuns[s]
         slug == IF TakenSlug(DaySlug(r)) THEN [DaySlug(r) EXCEPT !.ms = r.until]
                 ELSE DaySlug(r)
     IN  repRuns' = [repRuns EXCEPT ![s] =
           [st |-> "file", n |-> r.n, sched |-> r.sched, since |-> r.since,
            until |-> r.until, about |-> r.about, slug |-> slug]]
  /\ Calm
  /\ UNCHANGED <<schedules, items, filed, nreps, blurred>>

ReportOf(r) == [n |-> r.n, sched |-> r.sched, since |-> r.since, until |-> r.until,
                slug |-> r.slug, about |-> r.about]

\* create: rejected (P2002) when another run took the slug meanwhile.
File(s) ==
  /\ repRuns[s].st = "file"
  /\ IF TakenSlug(repRuns[s].slug)
     THEN repRuns' = [repRuns EXCEPT ![s] = NoRep] /\ UNCHANGED filed
     ELSE /\ filed' = filed \cup {ReportOf(repRuns[s])}
          /\ repRuns' = [repRuns EXCEPT ![s].st = "mark"]
  /\ Calm
  /\ UNCHANGED <<schedules, items, nreps, blurred>>

\* update: lastRunAt = until; rejected when the schedule is gone.
\* (NowMark writes the clock of the update, StartMark the window's start.)
NowMark(r) == clock
StartMark(r) == r.since
Mark(r) == r.until

MarkRun(s) ==
  /\ repRuns[s].st = "mark"
  /\ LET r == repRuns[s]
     IN  schedules' = [schedules EXCEPT ![r.sched].last =
           IF schedules[r.sched].exists THEN Mark(r) ELSE @]
  /\ repRuns' = [repRuns EXCEPT ![s] = NoRep]
  /\ Calm
  /\ UNCHANGED <<items, filed, nreps, blurred>>

\* The process dies or a statement is rejected; the queue starts a new run.
ReportDies(s) ==
  /\ repRuns[s] # NoRep
  /\ repRuns' = [repRuns EXCEPT ![s] = NoRep]
  /\ blurred' = blurred \cup {repRuns[s].sched}
  /\ Upset
  /\ UNCHANGED <<schedules, items, filed, nreps>>

DeleteSchedule(q) ==
  /\ schedules[q].exists
  /\ schedules' = [schedules EXCEPT ![q].exists = FALSE]
  /\ Upset
  /\ UNCHANGED <<items, repRuns, filed, nreps, blurred>>

ReportNext ==
  \/ \E i \in News : SendRow(i) \/ CommitRow(i)
  \/ \E s \in RepSlots :
       \/ \E q \in Schedules : LoadReport(s, q)
       \/ Generate(s)
       \/ ChooseSlug(s)
       \/ File(s)
       \/ MarkRun(s)
       \/ ReportDies(s)
  \/ \E q \in Schedules : DeleteSchedule(q)
-----------------------------------------------------------------------------
FiledOf(q) == {f \in filed : f.sched = q}

Covered(q, t) == Created <= t /\ t < schedules[q].last

\* Every instant between a schedule's creation and its lastRunAt lies in the
\* window of a report that was filed: overlapping runs, a refused slug and a
\* crash at any step may file a window twice but never step over one.  And a
\* row written while no report was being generated, and dated inside the time
\* a schedule has covered, is in one of its reports.
NoWindowLost ==
  \A q \in Schedules : schedules[q].exists =>
    /\ \A t \in Created .. MaxClock : Covered(q, t) => \E f \in FiledOf(q) : Inside(f, t)
    /\ \A i \in News :
         items[i].st = "there" /\ items[i].quiet /\ Covered(q, items[i].dated) =>
           \E f \in FiledOf(q) : i \in f.about

\* A window is filed twice only if runs of the schedule overlapped or one
\* was cut off between filing and writing lastRunAt.
NoWindowTwice ==
  \A f, g \in filed :
    f.n # g.n /\ f.sched = g.sched /\ f.sched \notin blurred =>
      f.until <= g.since \/ g.until <= f.since
=============================================================================
