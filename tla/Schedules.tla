------------------------------ MODULE Schedules ------------------------------
(***************************************************************************)
(* syncSchedules, syncHuntSchedules and syncReportSchedules of src/        *)
(* worker.ts: the same steps for the feeds, the hunts and the scheduled    *)
(* reports.  A sync reads the rows, lists the queue's job schedulers,      *)
(* removes those it does not want and upserts the others, one command      *)
(* each.  main() waits for the first; later ones start every five minutes  *)
(* and nobody waits for them, so two may overlap.                          *)
(***************************************************************************)
EXTENDS Environment, FiniteSets

CONSTANTS
  Plans,      \* rows with a schedule: sources, hunts, scheduled reports
  Patterns,   \* cron patterns, as typed: nothing reads them before they are saved
  BadPatterns,\* those the queue rejects when it is asked to install them
  Syncs       \* sync calls that may be in progress at once

Off == "off"   \* the row is gone, disabled, or has no schedule

ASSUME ScheduleAssumption ==
  Off \notin Patterns /\ BadPatterns \subseteq Patterns /\ IsFiniteSet(Plans)

VARIABLES
  rows,       \* what each row asks for: a pattern or Off
  schedulers, \* BullMQ's job schedulers: the pattern installed, or Off
  syncs,      \* the syncs in progress
  settled,    \* history: a sync has ended that read the current rows and
              \* listed the schedulers with no sync of other rows beside it
  up          \* whether a worker runs

scheduleVars == <<rows, schedulers, syncs, settled, up>>

Asleep == [st |-> "asleep"]
Pattern == Patterns \cup {Off}

ScheduleInit ==
  /\ rows \in [Plans -> Pattern]
  /\ schedulers \in [Plans -> Pattern \ BadPatterns]
  /\ syncs = [y \in Syncs |-> Asleep]
  /\ settled = FALSE
  /\ up = FALSE
-----------------------------------------------------------------------------
\* saveSource, toggleSource, saveHunt, deleteHunt, saveScheduledReport,
\* toggleScheduledReport, deleteScheduledReport: the row asks for another
\* pattern, which may be one nobody can install.  None of them touches the
\* queue.
EditRow(x) ==
  /\ \E p \in Pattern \ {rows[x]} : rows' = [rows EXCEPT ![x] = p]
  /\ settled' = FALSE
  /\ Upset
  /\ UNCHANGED <<schedulers, syncs, up>>

\* findMany.  The worker comes up with its first sync; the interval starts
\* the others, whether or not an earlier one has ended.
ReadRows(y) ==
  /\ syncs[y] = Asleep
  /\ up \/ \A o \in Syncs : syncs[o] = Asleep
  /\ syncs' = [o \in Syncs |->
       IF o = y THEN [st |-> "list", want |-> rows]
       ELSE IF syncs[o].st = "apply"
       THEN [syncs[o] EXCEPT !.alone = @ /\ syncs[o].want = rows]
       ELSE syncs[o]]
  /\ Calm
  /\ UNCHANGED <<rows, schedulers, settled, up>>

\* getJobSchedulers; (ForgetDisabled keeps what is no longer wanted).
ForgetDisabled(y) == {}
Unwanted(y) ==
  {x \in Plans : schedulers[x] # Off /\ syncs[y].want[x] = Off}

NoOlder(y) == \A o \in Syncs : syncs[o] = Asleep \/ syncs[o].want = syncs[y].want

List(y) ==
  /\ syncs[y].st = "list"
  /\ syncs' = [syncs EXCEPT ![y] =
       [st |-> "apply", want |-> @.want, alone |-> NoOlder(y),
        remove |-> Unwanted(y), add |-> {x \in Plans : syncs[y].want[x] # Off}]]
  /\ Calm
  /\ UNCHANGED <<rows, schedulers, settled, up>>

\* removeJobScheduler, one key at a time, before any upsert.
RemoveUnwanted(y) ==
  /\ syncs[y].st = "apply"
  /\ \E x \in syncs[y].remove :
       /\ schedulers' = [schedulers EXCEPT ![x] = Off]
       /\ syncs' = [syncs EXCEPT ![y].remove = @ \ {x}]
  /\ Calm
  /\ UNCHANGED <<rows, settled, up>>

\* upsertJobScheduler, one row at a time, in the order the query happened to
\* return them.
Upsert(y) ==
  /\ syncs[y].st = "apply" /\ syncs[y].remove = {}
  /\ \E x \in syncs[y].add :
       /\ syncs[y].want[x] \notin BadPatterns
       /\ schedulers' = [schedulers EXCEPT ![x] = syncs[y].want[x]]
       /\ syncs' = [syncs EXCEPT ![y].add = @ \ {x}]
  /\ Calm
  /\ UNCHANGED <<rows, settled, up>>

\* At a row with a bad pattern it throws, before anything is stored: the sync
\* ends there, the rows after it are not reached, and the first sync takes the
\* worker down with it.  Every later sync meets the same row.
UpsertThrows(y) ==
  /\ syncs[y].st = "apply" /\ syncs[y].remove = {}
  /\ \E x \in syncs[y].add : syncs[y].want[x] \in BadPatterns
  /\ syncs' = [syncs EXCEPT ![y] = Asleep]
  /\ Calm
  /\ UNCHANGED <<rows, schedulers, settled, up>>

EndSync(y) ==
  /\ syncs[y].st = "apply" /\ syncs[y].remove = {} /\ syncs[y].add = {}
  /\ settled' = (settled \/ (syncs[y].alone /\ syncs[y].want = rows))
  /\ syncs' = [syncs EXCEPT ![y] = Asleep]
  /\ up' = TRUE
  /\ Calm
  /\ UNCHANGED <<rows, schedulers>>

\* A query or a command fails: the error is logged and the next interval
\* tries again (the first sync takes the worker down with it).
SyncFails(y) ==
  /\ syncs[y] # Asleep
  /\ syncs' = [syncs EXCEPT ![y] = Asleep]
  /\ Upset
  /\ UNCHANGED <<rows, schedulers, settled, up>>

\* The worker stops: its syncs are cut off, the schedulers stay in Redis.
StopWorker ==
  /\ up
  /\ up' = FALSE
  /\ syncs' = [y \in Syncs |-> Asleep]
  /\ Upset
  /\ UNCHANGED <<rows, schedulers, settled>>

ScheduleNext ==
  \/ \E x \in Plans : EditRow(x)
  \/ \E y \in Syncs :
       \/ ReadRows(y)
       \/ List(y)
       \/ RemoveUnwanted(y)
       \/ Upsert(y)
       \/ UpsertThrows(y)
       \/ EndSync(y)
       \/ SyncFails(y)
  \/ StopWorker

SyncStep(y) ==
  \/ ReadRows(y) \/ List(y) \/ RemoveUnwanted(y)
  \/ Upsert(y) \/ UpsertThrows(y) \/ EndSync(y)
-----------------------------------------------------------------------------
\* Once a sync that read the current rows has ended, with no sync of other
\* rows beside it since it listed the schedulers, the schedulers are exactly
\* what the rows ask for - and stay so while later syncs run: a re-sync never
\* takes a wanted scheduler down, not even between two of its commands.
SettledSchedules == settled => schedulers = rows

Installable(x) == rows[x] \notin BadPatterns

\* After the last edit the schedulers become what the rows ask for, and stay
\* so, if every row can be installed: a row that cannot stops the syncs before
\* those after it.  Whatever the rows hold, what was disabled or deleted is taken
\* down for good, the removals of a sync coming before its upserts ("otherwise a
\* disabled feed keeps firing forever").
SchedulesConverge ==
  /\ <>[](\A x \in Plans : Installable(x)) => <>[](schedulers = rows)
  /\ \A x \in Plans : <>[](rows[x] = Off) => <>[](schedulers[x] = Off)
=============================================================================
