------------------------ MODULE AdministrationProofs ------------------------
(*****************************************************************************)
(* What the parts an administrator sets up keep: SettledSchedules,           *)
(* NoWindowLost, NoWindowTwice, FreshCache, KeysRotate, OldSessionsGone,     *)
(* WindowHeld and CountersEnd, for any rows, patterns, schedules, slots,     *)
(* processes, secrets, actions, logins, changes, keys and requests, in any   *)
(* system whose other parts share with each no more than the clock and the   *)
(* upsets.                                                                   *)
(*                                                                           *)
(* Each part has an inductive invariant of its own, described where it       *)
(* begins.                                                                   *)
(*****************************************************************************)
EXTENDS Schedules, ScheduledReports, Credentials, Accounts, ApiAccess, FiniteSetTheorems, TLAPS

\* The clock and the upsets stay within their bounds.
LEMMA ClockWithin ==
  ASSUME EnvironmentTypeOK, Calm \/ Upset \/ Pass
  PROVE  EnvironmentTypeOK'
BY EnvironmentAssumption DEF EnvironmentTypeOK, Calm, Upset, Pass, environment

-----------------------------------------------------------------------------
(* Schedules. The property speaks of the moment a sync ends; what makes it   *)
(* true is what the syncs hold before: one that is still alone has the       *)
(* schedulers right wherever it has nothing left to do, and every other      *)
(* sync in progress wants the same rows, so none of their commands undoes    *)
(* that.                                                                     *)

ScheduleSpec == ScheduleInit /\ [][ScheduleNext]_scheduleVars

Listing == [st : {"list"}, want : [Plans -> Pattern]]
Applying ==
  [st : {"apply"}, want : [Plans -> Pattern], alone : BOOLEAN,
   remove : SUBSET Plans, add : SUBSET Plans]
SyncState == {Asleep} \cup Listing \cup Applying

ScheduleTypes ==
  /\ rows \in [Plans -> Pattern]
  /\ schedulers \in [Plans -> Pattern]
  /\ syncs \in [Syncs -> SyncState]
  /\ settled \in BOOLEAN

Applies(y) == syncs[y].st = "apply"

\* The commands left to a sync do what its reading of the rows asks for.
CommandsFit ==
  \A y \in Syncs : Applies(y) =>
    /\ \A x \in syncs[y].remove : syncs[y].want[x] = Off
    /\ \A x \in syncs[y].add : syncs[y].want[x] # Off

\* Every sync in progress read the rows w.
AllWant(w) == \A o \in Syncs : syncs[o] = Asleep \/ syncs[o].want = w

\* Beside a sync that is alone every other one read the same rows.
AloneIsAlone ==
  \A y \in Syncs : Applies(y) /\ syncs[y].alone => AllWant(syncs[y].want)

\* Where a sync that is alone has nothing left to do, the schedulers are right.
DoneIsRight ==
  \A y \in Syncs : Applies(y) /\ syncs[y].alone =>
    \A x \in Plans \ (syncs[y].remove \cup syncs[y].add) : schedulers[x] = syncs[y].want[x]

\* Once settled, every sync in progress wants the rows as they are.
SettledIsAgreed == settled => schedulers = rows /\ AllWant(rows)

ScheduleInv ==
  ScheduleTypes /\ CommandsFit /\ AloneIsAlone /\ DoneIsRight /\ SettledIsAgreed
-----------------------------------------------------------------------------
LEMMA SyncStates ==
  /\ Asleep.st = "asleep"
  /\ \A s \in Listing : s # Asleep /\ s.st = "list"
  /\ \A s \in Applying : s # Asleep /\ s.st = "apply"
BY DEF Asleep, Listing, Applying

\* An edit of a row unsettles the schedulers and touches no sync.
LEMMA EditKeeps ==
  ASSUME ScheduleInv, NEW x \in Plans, EditRow(x)
  PROVE  ScheduleInv'
<1>1. ScheduleTypes'
  BY DEF ScheduleInv, ScheduleTypes, EditRow
<1>2. CommandsFit' /\ AloneIsAlone' /\ DoneIsRight'
  BY DEF ScheduleInv, EditRow, CommandsFit, AloneIsAlone, DoneIsRight, Applies, AllWant
<1>. QED
  BY <1>1, <1>2 DEF ScheduleInv, EditRow, SettledIsAgreed

\* A sync that starts is one more reading of the rows: those it disagrees
\* with are alone no longer.
LEMMA ReadKeeps ==
  ASSUME ScheduleInv, NEW y \in Syncs, ReadRows(y)
  PROVE  ScheduleInv'
<1>. DEFINE Put(o) == [syncs[o] EXCEPT !.alone = @ /\ syncs[o].want = rows]
<1>. ScheduleTypes
  BY DEF ScheduleInv
<1>1. /\ syncs' \in [Syncs -> SyncState]
      /\ syncs'[y] \in Listing /\ syncs'[y].want = rows
      /\ \A o \in Syncs \ {y} : Applies(o) =>
           /\ syncs'[o] \in Applying
           /\ syncs'[o].want = syncs[o].want
           /\ syncs'[o].remove = syncs[o].remove /\ syncs'[o].add = syncs[o].add
           /\ syncs'[o].alone = (syncs[o].alone /\ syncs[o].want = rows)
      /\ \A o \in Syncs \ {y} : ~Applies(o) => syncs'[o] = syncs[o]
  <2>1. \A o \in Syncs : Applies(o) => Put(o) \in Applying
    <3>1. \A o \in Syncs : Applies(o) => syncs[o] \in Applying
      BY SyncStates DEF ScheduleTypes, SyncState, Applies
    <3>2. ASSUME NEW r \in Applying, NEW b \in BOOLEAN
          PROVE  [r EXCEPT !.alone = b] \in Applying
      BY DEF Applying
    <3>3. \A o \in Syncs : (syncs[o].alone /\ syncs[o].want = rows) \in BOOLEAN
      OBVIOUS
    <3>. QED
      BY <3>1, <3>2, <3>3
  <2>2. [st |-> "list", want |-> rows] \in Listing
    BY DEF ScheduleTypes, Listing
  <2>. QED
    BY <2>1, <2>2 DEF ReadRows, ScheduleTypes, SyncState, Applies, Applying
<1>2. \A o \in Syncs : Applies(o)' => o # y /\ Applies(o)
  BY <1>1, SyncStates DEF Applies
<1>3. ScheduleTypes' /\ rows' = rows /\ schedulers' = schedulers /\ settled' = settled
  BY <1>1 DEF ReadRows, ScheduleTypes
<1>4. CommandsFit'
  BY <1>1, <1>2 DEF ScheduleInv, CommandsFit
<1>5. ASSUME NEW w, AllWant(w), w = rows PROVE AllWant(w)'
  BY <1>1, <1>5, SyncStates DEF AllWant, Applies
<1>6. AloneIsAlone'
  BY <1>1, <1>2, <1>5 DEF ScheduleInv, AloneIsAlone
<1>7. DoneIsRight'
  <2>1. ASSUME NEW o \in Syncs, Applies(o)', syncs'[o].alone,
               NEW x \in Plans \ (syncs'[o].remove \cup syncs'[o].add)
        PROVE  schedulers'[x] = syncs'[o].want[x]
    <3>1. o # y /\ Applies(o)
      BY <1>2, <2>1
    <3>2. syncs[o].alone /\ x \notin syncs[o].remove \cup syncs[o].add
      BY <1>1, <2>1, <3>1
    <3>. QED
      BY <1>1, <1>3, <3>1, <3>2 DEF ScheduleInv, DoneIsRight
  <2>. QED
    BY <2>1 DEF DoneIsRight
<1>8. SettledIsAgreed'
  BY <1>3, <1>5 DEF ScheduleInv, SettledIsAgreed, AllWant
<1>. QED
  BY <1>3, <1>4, <1>6, <1>7, <1>8 DEF ScheduleInv

\* What is listed covers every scheduler that is not as the rows ask.
LEMMA ListKeeps ==
  ASSUME ScheduleInv, NEW y \in Syncs, List(y)
  PROVE  ScheduleInv'
<1>. ScheduleTypes
  BY DEF ScheduleInv
<1>1. /\ syncs[y] \in Listing /\ ~Applies(y)
      /\ syncs'[y] \in Applying
      /\ syncs'[y].want = syncs[y].want
      /\ syncs'[y].remove = Unwanted(y)
      /\ syncs'[y].add = {x \in Plans : syncs[y].want[x] # Off}
      /\ syncs'[y].alone = NoOlder(y)
      /\ syncs' \in [Syncs -> SyncState]
      /\ \A o \in Syncs \ {y} : syncs'[o] = syncs[o]
  <2>1. syncs[y] \in Listing /\ ~Applies(y)
    BY SyncStates DEF List, ScheduleTypes, SyncState, Applies
  <2>2. [st |-> "apply", want |-> syncs[y].want, alone |-> NoOlder(y),
         remove |-> Unwanted(y), add |-> {x \in Plans : syncs[y].want[x] # Off}] \in Applying
    BY <2>1 DEF Listing, Applying, Unwanted, NoOlder
  <2>. QED
    BY <2>1, <2>2 DEF List, ScheduleTypes, SyncState
<1>2. ScheduleTypes' /\ rows' = rows /\ schedulers' = schedulers /\ settled' = settled
  BY <1>1 DEF List, ScheduleTypes
<1>3. CommandsFit'
  BY <1>1 DEF ScheduleInv, CommandsFit, Applies, Unwanted
<1>4. \A w : AllWant(w) => AllWant(w)'
  BY <1>1, SyncStates DEF AllWant
<1>5. AloneIsAlone'
  <2>1. NoOlder(y) => AllWant(syncs[y].want)
    BY DEF NoOlder, AllWant
  <2>. QED
    BY <1>1, <1>4, <2>1 DEF ScheduleInv, AloneIsAlone, Applies
<1>6. DoneIsRight'
  <2>1. \A x \in Plans \ (syncs'[y].remove \cup syncs'[y].add) :
          schedulers[x] = syncs[y].want[x]
    BY <1>1 DEF Unwanted
  <2>. QED
    BY <1>1, <1>2, <2>1 DEF ScheduleInv, DoneIsRight, Applies
<1>7. SettledIsAgreed'
  BY <1>2, <1>4 DEF ScheduleInv, SettledIsAgreed
<1>. QED
  BY <1>2, <1>3, <1>5, <1>6, <1>7 DEF ScheduleInv

\* y gives the scheduler of x what its reading of the rows asks for, and has
\* one command less to give.
Gives(y, x) ==
  /\ Applies(y)
  /\ schedulers' = [schedulers EXCEPT ![x] = syncs[y].want[x]]
  /\ \/ syncs' = [syncs EXCEPT ![y].remove = @ \ {x}]
     \/ syncs' = [syncs EXCEPT ![y].add = @ \ {x}]
  /\ UNCHANGED <<rows, settled, up>>

LEMMA CommandKeeps ==
  ASSUME ScheduleInv, NEW y \in Syncs, NEW x \in Plans, Gives(y, x)
  PROVE  ScheduleInv'
<1>. ScheduleTypes
  BY DEF ScheduleInv
<1>0. syncs[y] \in Applying
  BY SyncStates DEF ScheduleTypes, SyncState, Gives, Applies
<1>1. /\ syncs' \in [Syncs -> SyncState]
      /\ syncs'[y] \in Applying
      /\ syncs'[y].want = syncs[y].want /\ syncs'[y].alone = syncs[y].alone
      /\ syncs'[y].remove \subseteq syncs[y].remove
      /\ syncs'[y].add \subseteq syncs[y].add
      /\ \A z \in (syncs[y].remove \cup syncs[y].add)
                    \ (syncs'[y].remove \cup syncs'[y].add) : z = x
      /\ \A o \in Syncs \ {y} : syncs'[o] = syncs[o]
  <2>1. CASE syncs' = [syncs EXCEPT ![y].remove = @ \ {x}]
    BY <1>0, <2>1 DEF ScheduleTypes, SyncState, Applying
  <2>2. CASE syncs' = [syncs EXCEPT ![y].add = @ \ {x}]
    BY <1>0, <2>2 DEF ScheduleTypes, SyncState, Applying
  <2>. QED
    BY <2>1, <2>2 DEF Gives
<1>2. /\ schedulers' \in [Plans -> Pattern]
      /\ schedulers'[x] = syncs[y].want[x]
      /\ \A z \in Plans \ {x} : schedulers'[z] = schedulers[z]
  BY <1>0 DEF ScheduleTypes, Gives, Applying
<1>3. ScheduleTypes' /\ rows' = rows /\ settled' = settled
  BY <1>1, <1>2 DEF Gives, ScheduleTypes
<1>4. \A o \in Syncs : Applies(o)' => Applies(o)
  BY <1>0, <1>1, SyncStates DEF Applies
<1>5. CommandsFit'
  BY <1>0, <1>1, <1>4, SyncStates DEF ScheduleInv, CommandsFit, Applies
<1>6. \A w : AllWant(w) => AllWant(w)' /\ syncs[y].want = w
  BY <1>0, <1>1, SyncStates DEF AllWant
<1>7. AloneIsAlone'
  BY <1>0, <1>1, <1>4, <1>6, SyncStates DEF ScheduleInv, AloneIsAlone, Applies
<1>8. DoneIsRight'
  <2>1. ASSUME NEW o \in Syncs, Applies(o)', syncs'[o].alone,
               NEW z \in Plans \ (syncs'[o].remove \cup syncs'[o].add)
        PROVE  schedulers'[z] = syncs'[o].want[z]
    <3>1. Applies(o) /\ syncs[o].alone /\ syncs'[o].want = syncs[o].want
      BY <1>1, <1>4, <2>1
    <3>2. syncs[y].want = syncs[o].want
      BY <1>6, <3>1 DEF ScheduleInv, AloneIsAlone
    <3>3. CASE z = x
      BY <1>2, <3>1, <3>2, <3>3
    <3>4. CASE z # x
      <4>1. z \notin syncs[o].remove \cup syncs[o].add
        BY <1>1, <2>1, <3>4
      <4>. QED
        BY <1>2, <3>1, <3>4, <4>1 DEF ScheduleInv, DoneIsRight
    <3>. QED
      BY <3>3, <3>4
  <2>. QED
    BY <2>1 DEF DoneIsRight
<1>9. SettledIsAgreed'
  <2>1. ASSUME settled PROVE schedulers' = schedulers
    <3>1. schedulers = rows /\ syncs[y].want = rows
      BY <1>6, <2>1 DEF ScheduleInv, SettledIsAgreed
    <3>. QED
      BY <3>1 DEF ScheduleTypes, Gives
  <2>. QED
    BY <1>3, <1>6, <2>1 DEF ScheduleInv, SettledIsAgreed
<1>. QED
  BY <1>3, <1>5, <1>7, <1>8, <1>9 DEF ScheduleInv

\* Syncs that fall asleep, at their end or by a failure, leave the others as
\* they were.
Sleeps ==
  /\ UNCHANGED <<rows, schedulers>>
  /\ syncs' \in [Syncs -> SyncState]
  /\ \A o \in Syncs : syncs'[o] \in {syncs[o], Asleep}

LEMMA SleepKeeps ==
  ASSUME ScheduleInv, Sleeps, settled' = settled
  PROVE  ScheduleInv'
<1>1. \A o \in Syncs : Applies(o)' => syncs'[o] = syncs[o] /\ Applies(o)
  BY SyncStates DEF Sleeps, Applies
<1>2. \A w : AllWant(w) => AllWant(w)'
  BY DEF AllWant, Sleeps
<1>3. ScheduleTypes' /\ CommandsFit'
  BY <1>1 DEF ScheduleInv, ScheduleTypes, CommandsFit, Sleeps
<1>4. AloneIsAlone' /\ DoneIsRight'
  BY <1>1, <1>2 DEF ScheduleInv, AloneIsAlone, DoneIsRight, Sleeps
<1>. QED
  BY <1>2, <1>3, <1>4 DEF ScheduleInv, SettledIsAgreed, Sleeps

LEMMA EndKeeps ==
  ASSUME ScheduleInv, NEW y \in Syncs, EndSync(y)
  PROVE  ScheduleInv'
<1>. ScheduleTypes
  BY DEF ScheduleInv
<1>1. Sleeps
  BY DEF Sleeps, EndSync, ScheduleTypes, SyncState
<1>2. CASE settled' = settled
  BY <1>1, <1>2, SleepKeeps
<1>3. CASE syncs[y].alone /\ syncs[y].want = rows
  <2>1. syncs[y] \in Applying /\ Applies(y)
    BY SyncStates DEF EndSync, ScheduleTypes, SyncState, Applies
  <2>2. \A x \in Plans : schedulers[x] = rows[x]
    BY <1>3, <2>1 DEF ScheduleInv, DoneIsRight, EndSync
  <2>3. schedulers = rows
    BY <2>2 DEF ScheduleTypes
  <2>4. AllWant(rows) /\ rows' = rows /\ schedulers' = schedulers /\ settled' \in BOOLEAN
    BY <1>3, <2>1 DEF ScheduleInv, AloneIsAlone, EndSync, ScheduleTypes
  <2>5. AllWant(rows)'
    BY <1>1, <2>4 DEF AllWant, Sleeps
  <2>6. \A o \in Syncs : Applies(o)' => syncs'[o] = syncs[o] /\ Applies(o)
    BY <1>1, SyncStates DEF Sleeps, Applies
  <2>7. ScheduleTypes' /\ CommandsFit'
    BY <1>1, <2>4, <2>6 DEF ScheduleInv, ScheduleTypes, CommandsFit, Sleeps
  <2>8. \A w : AllWant(w) => AllWant(w)'
    BY <1>1 DEF AllWant, Sleeps
  <2>9. AloneIsAlone' /\ DoneIsRight'
    BY <2>4, <2>6, <2>8 DEF ScheduleInv, AloneIsAlone, DoneIsRight
  <2>. QED
    BY <2>3, <2>4, <2>5, <2>7, <2>9 DEF ScheduleInv, SettledIsAgreed
<1>. QED
  BY <1>2, <1>3 DEF EndSync, ScheduleTypes
-----------------------------------------------------------------------------
LEMMA ScheduleStep ==
  ASSUME ScheduleInv, [ScheduleNext]_scheduleVars
  PROVE  ScheduleInv'
<1>. ScheduleTypes
  BY DEF ScheduleInv
<1>1. CASE \E x \in Plans : EditRow(x)
  BY <1>1, EditKeeps
<1>2. ASSUME NEW y \in Syncs, RemoveUnwanted(y) \/ Upsert(y) PROVE ScheduleInv'
  <2>1. syncs[y] \in Applying /\ Applies(y)
    BY <1>2, SyncStates DEF RemoveUnwanted, Upsert, ScheduleTypes, SyncState, Applies
  <2>2. CASE RemoveUnwanted(y)
    <3>1. PICK x \in syncs[y].remove :
            /\ schedulers' = [schedulers EXCEPT ![x] = Off]
            /\ syncs' = [syncs EXCEPT ![y].remove = @ \ {x}]
      BY <2>2 DEF RemoveUnwanted
    <3>2. x \in Plans /\ syncs[y].want[x] = Off
      BY <2>1 DEF Applying, ScheduleInv, CommandsFit
    <3>. QED
      BY <2>1, <2>2, <3>1, <3>2, CommandKeeps DEF RemoveUnwanted, Gives
  <2>3. CASE Upsert(y)
    <3>1. PICK x \in syncs[y].add :
            /\ schedulers' = [schedulers EXCEPT ![x] = syncs[y].want[x]]
            /\ syncs' = [syncs EXCEPT ![y].add = @ \ {x}]
      BY <2>3 DEF Upsert
    <3>. QED
      BY <2>1, <2>3, <3>1, CommandKeeps DEF Upsert, Gives, Applying
  <2>. QED
    BY <1>2, <2>2, <2>3
<1>3. ASSUME NEW y \in Syncs, SyncFails(y) \/ UpsertThrows(y) PROVE ScheduleInv'
  <2>1. Sleeps /\ settled' = settled
    BY <1>3 DEF Sleeps, SyncFails, UpsertThrows, ScheduleTypes, SyncState
  <2>. QED
    BY <2>1, SleepKeeps
<1>4. CASE StopWorker
  <2>1. Sleeps /\ settled' = settled
    BY <1>4 DEF Sleeps, StopWorker, ScheduleTypes, SyncState
  <2>. QED
    BY <2>1, SleepKeeps
<1>5. CASE UNCHANGED scheduleVars
  <2>1. Sleeps /\ settled' = settled
    BY <1>5 DEF Sleeps, scheduleVars, ScheduleTypes
  <2>. QED
    BY <2>1, SleepKeeps
<1>. QED
  BY <1>1, <1>2, <1>3, <1>4, <1>5, ReadKeeps, ListKeeps, EndKeeps DEF ScheduleNext

\* Once a sync of the current rows has ended beside no sync of other rows, the
\* schedulers are what the rows ask for until the next edit, whatever syncs
\* start, fail, stop at a bad pattern or are cut off meanwhile (syncSchedules and its two siblings in
\* src/worker.ts).
THEOREM SchedulesSettle == ScheduleSpec => []SettledSchedules
<1>1. ScheduleInit => ScheduleInv
  BY SyncStates DEF ScheduleInit, ScheduleInv, ScheduleTypes, SyncState, CommandsFit,
     AloneIsAlone, DoneIsRight, SettledIsAgreed, Applies
<1>2. ScheduleInv => SettledSchedules
  BY DEF ScheduleInv, SettledIsAgreed, SettledSchedules
<1>. QED
  BY <1>1, <1>2, ScheduleStep, PTL DEF ScheduleSpec
-----------------------------------------------------------------------------
(* Scheduled reports. lastRunAt alone does not say what was filed: between   *)
(* its reading and its writing stands a run whose window begins where the    *)
(* schedule stood when it was loaded. The invariants speak of that window:   *)
(* everything before it is filed; what is in it and was written in peace     *)
(* is in the run's account; and no earlier report reaches into it.           *)

\* Another component's step: time passes or something is upset.
Elsewhere == (Pass \/ Upset) /\ UNCHANGED reportVars

reports == <<environment, reportVars>>
ReportSpec ==
  EnvironmentInit /\ ReportInit /\ [][ReportNext \/ Elsewhere]_reports

Slug == [name : {NameOf[q] : q \in Schedules}, day : {Day(t) : t \in Int}, ms : Int]
Queried == [st : {"query"}, n : Int, sched : Schedules, since : Int, until : Int]
Generated ==
  [st : {"slug"}, n : Int, sched : Schedules, since : Int, until : Int,
   about : SUBSET News]
Slugged ==
  [st : {"file", "mark"}, n : Int, sched : Schedules, since : Int, until : Int,
   about : SUBSET News, slug : Slug]
Running == Queried \cup Generated \cup Slugged
ReportRow ==
  [n : Int, sched : Schedules, since : Int, until : Int, slug : Slug,
   about : SUBSET News]

Runs(s) == repRuns[s] # NoRep
CountedIn(s) == repRuns[s].st \in {"slug", "file", "mark"}
Marks(s) == repRuns[s].st = "mark"

ReportTypes ==
  /\ clock \in Int /\ nreps \in Int
  /\ schedules \in [Schedules -> [exists : BOOLEAN, last : Int]]
  /\ items \in [News -> [st : {"none", "sent", "there"}, dated : Int, quiet : BOOLEAN]]
  /\ repRuns \in [RepSlots -> {NoRep} \cup Running]
  /\ filed \subseteq ReportRow

\* No window ends after now, and none begins after its end.
InTime ==
  /\ Created <= clock
  /\ \A q \in Schedules : schedules[q].last <= clock
  /\ \A s \in RepSlots : Runs(s) =>
       repRuns[s].since <= repRuns[s].until /\ repRuns[s].until <= clock
  /\ \A f \in filed : f.until <= clock

Base == ReportTypes /\ InTime
-----------------------------------------------------------------------------
LEMMA RunStates ==
  /\ NoRep \notin Running /\ NoRep.st = "none"
  /\ \A r \in Running :
       /\ r.st \in {"query", "slug", "file", "mark"}
       /\ r.n \in Int /\ r.sched \in Schedules /\ r.since \in Int /\ r.until \in Int
       /\ r.st # "query" => r.about \in SUBSET News
       /\ r.st = "query" => r \in Queried
       /\ r.st = "slug" => r \in Generated
       /\ r.st \in {"file", "mark"} => r \in Slugged
<1>1. NoRep.st = "none"
  BY DEF NoRep
<1>2. \A r \in Running :
       /\ r.st \in {"query", "slug", "file", "mark"}
       /\ r.n \in Int /\ r.sched \in Schedules /\ r.since \in Int /\ r.until \in Int
       /\ r.st # "query" => r.about \in SUBSET News
       /\ r.st = "query" => r \in Queried
       /\ r.st = "slug" => r \in Generated
       /\ r.st \in {"file", "mark"} => r \in Slugged
  BY DEF Running, Queried, Generated, Slugged
<1>. QED
  BY <1>1, <1>2

LEMMA RunType ==
  ASSUME ReportTypes, NEW s \in RepSlots, repRuns[s].st # "none"
  PROVE  repRuns[s] \in Running /\ Runs(s)
BY RunStates DEF ReportTypes, Runs

\* The steps that take a run over to r, within its window.
Continues(s, r) ==
  /\ repRuns' = [repRuns EXCEPT ![s] = r]
  /\ r \in Running /\ Runs(s)
  /\ r.sched = repRuns[s].sched /\ r.n = repRuns[s].n
  /\ r.since = repRuns[s].since /\ r.until = repRuns[s].until

LEMMA GenerateContinues ==
  ASSUME ReportTypes, NEW s \in RepSlots, Generate(s)
  PROVE  \E r : /\ Continues(s, r) /\ r.st = "slug"
                /\ r.about = {i \in News : items[i].st = "there"
                                           /\ Inside(r, items[i].dated)}
<1>. DEFINE c == repRuns[s]
            r == [st |-> "slug", n |-> c.n, sched |-> c.sched, since |-> c.since,
                  until |-> c.until,
                  about |-> {i \in News : items[i].st = "there"
                                          /\ Inside(c, items[i].dated)}]
<1>1. c \in Running /\ Runs(s)
  BY RunType DEF Generate
<1>2. r \in Generated
  BY <1>1, RunStates DEF Generated
<1>3. {i \in {i \in DOMAIN items : items[i].st = "there"} : Inside(c, items[i].dated)}
        = {i \in News : items[i].st = "there" /\ Inside(c, items[i].dated)}
  BY DEF ReportTypes
<1>4. repRuns' = [repRuns EXCEPT ![s] = r]
  BY <1>3 DEF Generate
<1>5. Continues(s, r)
  BY <1>1, <1>2, <1>4 DEF Continues, Running
<1>6. r.about = {i \in News : items[i].st = "there" /\ Inside(r, items[i].dated)}
  BY DEF Inside
<1>. QED
  BY <1>5, <1>6

LEMMA SlugContinues ==
  ASSUME ReportTypes, NEW s \in RepSlots, ChooseSlug(s)
  PROVE  \E r : /\ Continues(s, r) /\ r.st = "file"
                /\ repRuns[s].st = "slug" /\ r.about = repRuns[s].about
<1>. DEFINE c == repRuns[s]
            slug == IF TakenSlug(DaySlug(c)) THEN [DaySlug(c) EXCEPT !.ms = c.until]
                    ELSE DaySlug(c)
            r == [st |-> "file", n |-> c.n, sched |-> c.sched, since |-> c.since,
                  until |-> c.until, about |-> c.about, slug |-> slug]
<1>1. c \in Running /\ Runs(s) /\ c.st = "slug" /\ c \in Generated
  BY RunType, RunStates DEF ChooseSlug
<1>2. DaySlug(c) \in Slug
  BY <1>1, RunStates DEF DaySlug, Slug
<1>3. [DaySlug(c) EXCEPT !.ms = c.until] \in Slug
  BY <1>1, <1>2, RunStates DEF Slug
<1>4. slug \in Slug
  BY <1>2, <1>3
<1>. HIDE DEF slug
<1>5. r \in Slugged
  BY <1>1, <1>4 DEF Slugged, Generated
<1>6. repRuns' = [repRuns EXCEPT ![s] = r]
  BY DEF ChooseSlug, slug
<1>7. Continues(s, r)
  BY <1>1, <1>5, <1>6 DEF Continues, Running
<1>8. r.st = "file" /\ r.about = repRuns[s].about
  OBVIOUS
<1>. HIDE DEF r
<1>. QED
  BY <1>1, <1>7, <1>8

\* A report is filed: the run goes on to mark its window.
Files(s) ==
  /\ filed' = filed \cup {ReportOf(repRuns[s])}
  /\ \E r : Continues(s, r) /\ r.st = "mark" /\ r.about = repRuns[s].about
  /\ repRuns[s].st = "file"
  /\ UNCHANGED <<clock, schedules, items, blurred>>

\* A run ends early.
DropsFiling(s) ==
  /\ repRuns' = [repRuns EXCEPT ![s] = NoRep]
  /\ Runs(s)
  /\ blurred \subseteq blurred'
  /\ Marks(s) => repRuns[s].sched \in blurred'
  /\ UNCHANGED <<clock, schedules, items, filed>>

LEMMA FileCases ==
  ASSUME ReportTypes, NEW s \in RepSlots, File(s)
  PROVE  /\ Files(s) \/ DropsFiling(s)
         /\ ReportOf(repRuns[s]) \in ReportRow
         /\ nreps' = nreps
<1>. DEFINE r == [repRuns[s] EXCEPT !.st = "mark"]
<1>1. repRuns[s] \in Running /\ Runs(s) /\ repRuns[s].st = "file" /\ repRuns[s] \in Slugged
  BY RunType, RunStates DEF File
<1>2. ReportOf(repRuns[s]) \in ReportRow
  BY <1>1 DEF ReportOf, ReportRow, Slugged
<1>3. UNCHANGED <<clock, schedules, items, blurred, nreps>>
  BY DEF File, Calm, environment
<1>4. CASE TakenSlug(repRuns[s].slug)
  BY <1>1, <1>2, <1>3, <1>4 DEF File, DropsFiling, Marks
<1>5. CASE ~TakenSlug(repRuns[s].slug)
  <2>1. filed' = filed \cup {ReportOf(repRuns[s])} /\ repRuns' = [repRuns EXCEPT ![s] = r]
    BY <1>5 DEF File
  <2>2. r \in Slugged /\ r.st = "mark" /\ r.about = repRuns[s].about
        /\ r.sched = repRuns[s].sched /\ r.n = repRuns[s].n
        /\ r.since = repRuns[s].since /\ r.until = repRuns[s].until
    BY <1>1 DEF Slugged
  <2>3. Continues(s, r)
    BY <1>1, <2>1, <2>2 DEF Continues, Running
  <2>. QED
    BY <1>1, <1>2, <1>3, <2>1, <2>2, <2>3 DEF Files
<1>. QED
  BY <1>4, <1>5

LEMMA DiesDrops ==
  ASSUME NEW s \in RepSlots, ReportDies(s)
  PROVE  DropsFiling(s) /\ nreps' = nreps
BY DEF ReportDies, DropsFiling, Runs, Upset

\* A run starts at where its schedule stands.
Starts(s, q, r) ==
  /\ repRuns[s] = NoRep /\ repRuns' = [repRuns EXCEPT ![s] = r]
  /\ r \in Queried /\ r.sched = q /\ schedules[q].exists
  /\ r.since = SinceOf(q) /\ r.until = clock

LEMMA LoadCases ==
  ASSUME ReportTypes, NEW s \in RepSlots, NEW q \in Schedules, LoadReport(s, q)
  PROVE  repRuns' = repRuns \/ \E r : Starts(s, q, r)
<1>. DEFINE r == [st |-> "query", n |-> nreps + 1, sched |-> q, since |-> SinceOf(q),
                  until |-> clock]
<1>1. CASE ~schedules[q].exists
  BY <1>1 DEF LoadReport, ReportTypes
<1>2. CASE schedules[q].exists
  <2>1. SinceOf(q) \in Int
    BY DEF SinceOf, Created, ReportTypes
  <2>2. r \in Queried
    BY <2>1 DEF Queried, ReportTypes
  <2>3. repRuns' = [repRuns EXCEPT ![s] = r] /\ repRuns[s] = NoRep
    BY <1>2 DEF LoadReport
  <2>4. Starts(s, q, r)
    BY <1>2, <2>2, <2>3 DEF Starts
  <2>. HIDE DEF r
  <2>. QED
    BY <2>4
<1>. QED
  BY <1>1, <1>2
-----------------------------------------------------------------------------
LEMMA SinceInTime ==
  ASSUME Base, NEW q \in Schedules
  PROVE  /\ SinceOf(q) \in Int /\ SinceOf(q) <= clock
         /\ schedules[q].last <= SinceOf(q) \/ schedules[q].last <= 0
         /\ SinceOf(q) = schedules[q].last \/ SinceOf(q) = Created
BY DEF Base, ReportTypes, InTime, SinceOf, Created

LEMMA ContinueBase ==
  ASSUME Base, NEW s \in RepSlots, NEW r, Continues(s, r),
         UNCHANGED <<clock, schedules>>
  PROVE  /\ repRuns' \in [RepSlots -> {NoRep} \cup Running]
         /\ \A o \in RepSlots : Runs(o)' =>
              repRuns'[o].since <= repRuns'[o].until /\ repRuns'[o].until <= clock'
BY DEF Base, ReportTypes, InTime, Continues, Runs

LEMMA BaseStep ==
  ASSUME Base, [ReportNext \/ Elsewhere]_reports
  PROVE  Base'
<1>. ReportTypes /\ InTime
  BY DEF Base
<1>1. ASSUME NEW i \in News, SendRow(i) \/ CommitRow(i) PROVE Base'
  <2>1. UNCHANGED <<clock, schedules, repRuns, filed, nreps>>
    BY <1>1 DEF SendRow, CommitRow, Calm, environment
  <2>2. items' \in [News -> [st : {"none", "sent", "there"}, dated : Int, quiet : BOOLEAN]]
    <3>1. NobodyRuns \in BOOLEAN
      BY DEF NobodyRuns
    <3>2. CASE SendRow(i)
      BY <3>1, <3>2 DEF SendRow, ReportTypes
    <3>3. CASE CommitRow(i)
      <4>1. (items[i].quiet /\ NobodyRuns) \in BOOLEAN
        BY <3>1 DEF ReportTypes
      <4>. QED
        BY <3>3, <4>1 DEF CommitRow, ReportTypes
    <3>. QED
      BY <1>1, <3>2, <3>3
  <2>. QED
    BY <2>1, <2>2 DEF Base, ReportTypes, InTime, Runs
<1>2. ASSUME NEW s \in RepSlots, NEW q \in Schedules, LoadReport(s, q) PROVE Base'
  <2>1. UNCHANGED <<clock, schedules, filed>> /\ nreps' = nreps + 1
    BY <1>2 DEF LoadReport, Calm, environment
  <2>2. items' \in [News -> [st : {"none", "sent", "there"}, dated : Int, quiet : BOOLEAN]]
    <3>1. \A i \in News : (items[i].quiet /\ items[i].st # "sent") \in BOOLEAN
      BY DEF ReportTypes
    <3>. QED
      BY <1>2, <3>1 DEF LoadReport, ReportTypes
  <2>3. /\ repRuns' \in [RepSlots -> {NoRep} \cup Running]
        /\ \A o \in RepSlots : Runs(o)' =>
             repRuns'[o].since <= repRuns'[o].until /\ repRuns'[o].until <= clock'
    <3>1. CASE repRuns' = repRuns
      BY <2>1, <3>1 DEF ReportTypes, InTime, Runs
    <3>2. ASSUME NEW r, Starts(s, q, r)
          PROVE  /\ repRuns' \in [RepSlots -> {NoRep} \cup Running]
                 /\ \A o \in RepSlots : Runs(o)' =>
                      /\ repRuns'[o].since <= repRuns'[o].until
                      /\ repRuns'[o].until <= clock'
      <4>1. r \in Running /\ r.since <= r.until /\ r.until = clock
        BY <3>2, SinceInTime DEF Starts, Running
      <4>. QED
        BY <2>1, <3>2, <4>1 DEF Starts, ReportTypes, InTime, Runs
    <3>. QED
      BY <1>2, <3>1, <3>2, LoadCases
  <2>. QED
    BY <2>1, <2>2, <2>3 DEF Base, ReportTypes, InTime
<1>3. ASSUME NEW s \in RepSlots, Generate(s) \/ ChooseSlug(s) PROVE Base'
  <2>1. UNCHANGED <<clock, schedules, items, filed, nreps>>
    BY <1>3 DEF Generate, ChooseSlug, Calm, environment
  <2>2. \E r : Continues(s, r)
    BY <1>3, GenerateContinues, SlugContinues
  <2>. QED
    BY <2>1, <2>2, ContinueBase DEF Base, ReportTypes, InTime
<1>4. ASSUME NEW s \in RepSlots, DropsFiling(s), nreps' = nreps PROVE Base'
  BY <1>4 DEF Base, ReportTypes, InTime, DropsFiling, Runs
<1>5. ASSUME NEW s \in RepSlots, File(s) PROVE Base'
  <2>1. CASE Files(s)
    <3>1. ReportOf(repRuns[s]) \in ReportRow /\ nreps' = nreps
          /\ filed' = filed \cup {ReportOf(repRuns[s])}
          /\ UNCHANGED <<clock, schedules, items>>
      BY <1>5, <2>1, FileCases DEF Files
    <3>2. ReportOf(repRuns[s]).until <= clock
      BY <2>1 DEF Files, Continues, InTime, ReportOf
    <3>3. \E r : Continues(s, r)
      BY <2>1 DEF Files
    <3>. QED
      BY <3>1, <3>2, <3>3, ContinueBase DEF Base, ReportTypes, InTime
  <2>. QED
    BY <1>4, <1>5, <2>1, FileCases
<1>6. ASSUME NEW s \in RepSlots, MarkRun(s) PROVE Base'
  <2>1. repRuns[s] \in Running /\ Runs(s)
    BY <1>6, RunType DEF MarkRun
  <2>2. repRuns[s].sched \in Schedules /\ repRuns[s].until \in Int
        /\ repRuns[s].until <= clock
    BY <2>1, RunStates DEF InTime
  <2>3. /\ repRuns' = [repRuns EXCEPT ![s] = NoRep]
        /\ schedules' = [schedules EXCEPT ![repRuns[s].sched].last =
             IF schedules[repRuns[s].sched].exists THEN repRuns[s].until ELSE @]
        /\ UNCHANGED <<clock, items, filed, nreps>>
    BY <1>6 DEF MarkRun, Mark, Calm, environment
  <2>4. schedules' \in [Schedules -> [exists : BOOLEAN, last : Int]]
    BY <2>2, <2>3 DEF ReportTypes
  <2>5. \A q \in Schedules : schedules'[q].last <= clock
    BY <2>2, <2>3 DEF ReportTypes, InTime
  <2>. QED
    BY <2>3, <2>4, <2>5 DEF Base, ReportTypes, InTime, Runs
<1>7. ASSUME NEW q \in Schedules, DeleteSchedule(q) PROVE Base'
  <2>1. /\ schedules' \in [Schedules -> [exists : BOOLEAN, last : Int]]
        /\ \A p \in Schedules : schedules'[p].last = schedules[p].last
    BY <1>7 DEF DeleteSchedule, ReportTypes
  <2>2. UNCHANGED <<clock, items, repRuns, filed, nreps>>
    BY <1>7 DEF DeleteSchedule, Upset
  <2>. QED
    BY <2>1, <2>2 DEF Base, ReportTypes, InTime, Runs
<1>8. CASE Elsewhere
  <2>1. clock' \in Int /\ clock <= clock'
    BY <1>8 DEF Elsewhere, Pass, Upset, ReportTypes
  <2>2. UNCHANGED reportVars
    BY <1>8 DEF Elsewhere
  <2>3. ReportTypes'
    BY <2>1, <2>2 DEF ReportTypes, reportVars
  <2>4. InTime'
    <3>1. \A q \in Schedules : schedules[q].last \in Int
      BY DEF ReportTypes
    <3>2. \A s \in RepSlots : Runs(s) => repRuns[s].until \in Int
      BY RunStates DEF ReportTypes, Runs
    <3>3. \A f \in filed : f.until \in Int
      BY DEF ReportTypes, ReportRow
    <3>4. Created <= clock'
      BY <2>1 DEF InTime, ReportTypes, Created
    <3>. QED
      BY <2>1, <2>2, <3>1, <3>2, <3>3, <3>4 DEF ReportTypes, InTime, Runs, reportVars
  <2>. QED
    BY <2>3, <2>4 DEF Base
<1>9. CASE UNCHANGED reports
  BY <1>9 DEF reports, environment, reportVars, Base, ReportTypes, InTime, Runs
<1>10. ASSUME NEW s \in RepSlots, ReportDies(s) PROVE Base'
  BY <1>4, <1>10, DiesDrops
<1>. QED
  BY <1>1, <1>2, <1>3, <1>5, <1>6, <1>7, <1>8, <1>9, <1>10 DEF ReportNext
-----------------------------------------------------------------------------
(* Every instant a schedule has left behind is filed.                      *)

Held(fs, q, u) == \E f \in fs : f.sched = q /\ Inside(f, u)

\* Every instant before t is in the window of a report of q in fs.
FiledUpTo(fs, q, t) == \A u \in Int : Created <= u /\ u < t => Held(fs, q, u)

\* So is what lies before the window of a run, the window included once the
\* run has filed it.
WindowInv ==
  /\ \A q \in Schedules : FiledUpTo(filed, q, schedules[q].last)
  /\ \A s \in RepSlots : Runs(s) => FiledUpTo(filed, repRuns[s].sched, repRuns[s].since)
  /\ \A s \in RepSlots : Marks(s) => FiledUpTo(filed, repRuns[s].sched, repRuns[s].until)

LEMMA FiledStays ==
  ASSUME NEW fs, NEW more, fs \subseteq more, NEW q, NEW t, FiledUpTo(fs, q, t)
  PROVE  FiledUpTo(more, q, t)
BY DEF FiledUpTo, Held

\* A report whose window begins where the filed ones end takes them further.
LEMMA FiledFurther ==
  ASSUME NEW fs, NEW f, f.since \in Int, f.until \in Int, FiledUpTo(fs, f.sched, f.since)
  PROVE  FiledUpTo(fs \cup {f}, f.sched, f.until)
BY DEF FiledUpTo, Held, Inside

\* A step that files nothing and moves no schedule, after which every run
\* has the window it had or stands where its schedule stands.
LEMMA WindowFrame ==
  ASSUME Base, WindowInv, filed' = filed,
         \A q \in Schedules : schedules'[q].last = schedules[q].last,
         \A s \in RepSlots : Runs(s)' =>
           \/ /\ Runs(s) /\ (Marks(s)' => Marks(s))
              /\ repRuns'[s].sched = repRuns[s].sched
              /\ repRuns'[s].since = repRuns[s].since
              /\ repRuns'[s].until = repRuns[s].until
           \/ /\ ~Marks(s)' /\ repRuns'[s].sched \in Schedules
              /\ repRuns'[s].since = SinceOf(repRuns'[s].sched)
  PROVE  WindowInv'
<1>1. \A s \in RepSlots : Marks(s)' => Runs(s)'
  BY RunStates DEF Marks, Runs
<1>2. \A q \in Schedules : FiledUpTo(filed, q, SinceOf(q))
  <2>1. \A q \in Schedules : FiledUpTo(filed, q, Created)
    BY DEF FiledUpTo, Created
  <2>. QED
    BY <2>1, SinceInTime DEF WindowInv
<1>3. \A s \in RepSlots : Runs(s)' => FiledUpTo(filed, repRuns'[s].sched, repRuns'[s].since)
  BY <1>2 DEF WindowInv
<1>4. \A s \in RepSlots : Marks(s)' => FiledUpTo(filed, repRuns'[s].sched, repRuns'[s].until)
  BY <1>1 DEF WindowInv
<1>5. \A q \in Schedules : FiledUpTo(filed, q, schedules'[q].last)
  BY DEF WindowInv
<1>. QED
  BY <1>3, <1>4, <1>5 DEF WindowInv

LEMMA WindowStep ==
  ASSUME Base, WindowInv, [ReportNext \/ Elsewhere]_reports
  PROVE  WindowInv'
<1>. ReportTypes /\ InTime
  BY DEF Base
<1>1. CASE UNCHANGED <<schedules, repRuns, filed>>
  BY <1>1, WindowFrame DEF Runs, Marks
<1>2. ASSUME NEW s \in RepSlots, NEW q \in Schedules, LoadReport(s, q) PROVE WindowInv'
  <2>1. UNCHANGED <<schedules, filed>>
    BY <1>2 DEF LoadReport
  <2>2. ASSUME NEW r, Starts(s, q, r) PROVE WindowInv'
    <3>1. repRuns'[s] = r /\ \A o \in RepSlots \ {s} : repRuns'[o] = repRuns[o]
      BY <2>2 DEF Starts, ReportTypes
    <3>2. r.st # "mark" /\ r.sched = q /\ r.since = SinceOf(q)
      BY <2>2 DEF Starts, Queried
    <3>. QED
      BY <2>1, <3>1, <3>2, WindowFrame DEF Runs, Marks
  <2>. QED
    BY <1>1, <1>2, <2>1, <2>2, LoadCases
<1>3. ASSUME NEW s \in RepSlots, Generate(s) \/ ChooseSlug(s) PROVE WindowInv'
  <2>1. UNCHANGED <<schedules, filed>>
    BY <1>3 DEF Generate, ChooseSlug
  <2>2. PICK r : Continues(s, r) /\ r.st # "mark"
    BY <1>3, GenerateContinues, SlugContinues
  <2>3. repRuns'[s] = r /\ \A o \in RepSlots \ {s} : repRuns'[o] = repRuns[o]
    BY <2>2 DEF Continues, ReportTypes
  <2>. QED
    BY <2>1, <2>2, <2>3, WindowFrame DEF Continues, Runs, Marks
<1>4. ASSUME NEW s \in RepSlots, DropsFiling(s) PROVE WindowInv'
  <2>1. repRuns'[s] = NoRep /\ \A o \in RepSlots \ {s} : repRuns'[o] = repRuns[o]
    BY <1>4 DEF DropsFiling, ReportTypes
  <2>. QED
    BY <1>4, <2>1, WindowFrame DEF DropsFiling, Runs, Marks
<1>5. ASSUME NEW s \in RepSlots, Files(s) PROVE WindowInv'
  <2>. DEFINE f == ReportOf(repRuns[s])
  <2>1. PICK r : Continues(s, r)
    BY <1>5 DEF Files
  <2>2. repRuns[s] \in Running /\ repRuns[s].since \in Int /\ repRuns[s].until \in Int
    BY <2>1, RunStates DEF Continues, ReportTypes, Runs
  <2>3. f.sched = repRuns[s].sched /\ f.since = repRuns[s].since /\ f.until = repRuns[s].until
    BY DEF ReportOf
  <2>4. filed' = filed \cup {f} /\ schedules' = schedules
    BY <1>5 DEF Files
  <2>5. FiledUpTo(filed', repRuns[s].sched, repRuns[s].until)
    <3>1. FiledUpTo(filed, f.sched, f.since)
      BY <2>1, <2>3 DEF WindowInv, Continues
    <3>. HIDE DEF f
    <3>. QED
      BY <2>2, <2>3, <2>4, <3>1, FiledFurther
  <2>6. \A q, t : FiledUpTo(filed, q, t) => FiledUpTo(filed', q, t)
    BY <2>4, FiledStays
  <2>7. /\ repRuns'[s].sched = repRuns[s].sched
        /\ repRuns'[s].since = repRuns[s].since /\ repRuns'[s].until = repRuns[s].until
        /\ \A o \in RepSlots \ {s} : repRuns'[o] = repRuns[o]
    BY <2>1 DEF Continues, ReportTypes
  <2>8. \A q \in Schedules : FiledUpTo(filed', q, schedules'[q].last)
    BY <2>4, <2>6 DEF WindowInv
  <2>9. \A o \in RepSlots : Runs(o)' => FiledUpTo(filed', repRuns'[o].sched, repRuns'[o].since)
    BY <2>1, <2>6, <2>7 DEF WindowInv, Runs, Continues
  <2>10. \A o \in RepSlots : Marks(o)' =>
           FiledUpTo(filed', repRuns'[o].sched, repRuns'[o].until)
    BY <2>5, <2>6, <2>7 DEF WindowInv, Marks
  <2>. QED
    BY <2>8, <2>9, <2>10 DEF WindowInv
<1>6. ASSUME NEW s \in RepSlots, MarkRun(s) PROVE WindowInv'
  <2>1. repRuns[s] \in Running /\ repRuns[s].sched \in Schedules /\ Marks(s)
    BY <1>6, RunType, RunStates DEF MarkRun, Marks
  <2>2. /\ filed' = filed
        /\ repRuns'[s] = NoRep /\ \A o \in RepSlots \ {s} : repRuns'[o] = repRuns[o]
        /\ schedules' = [schedules EXCEPT ![repRuns[s].sched].last =
             IF schedules[repRuns[s].sched].exists THEN repRuns[s].until ELSE @]
    BY <1>6 DEF MarkRun, Mark, ReportTypes
  <2>3. ASSUME NEW q \in Schedules, schedules'[q].last # schedules[q].last
        PROVE  q = repRuns[s].sched /\ schedules'[q].last = repRuns[s].until
    BY <2>1, <2>2, <2>3 DEF ReportTypes
  <2>4. \A q \in Schedules : FiledUpTo(filed', q, schedules'[q].last)
    BY <2>1, <2>2, <2>3 DEF WindowInv
  <2>5. \A o \in RepSlots : Runs(o)' => FiledUpTo(filed', repRuns'[o].sched, repRuns'[o].since)
    BY <2>2 DEF WindowInv, Runs
  <2>6. \A o \in RepSlots : Marks(o)' =>
          FiledUpTo(filed', repRuns'[o].sched, repRuns'[o].until)
    BY <2>2, RunStates DEF WindowInv, Marks
  <2>. QED
    BY <2>4, <2>5, <2>6 DEF WindowInv
<1>7. ASSUME NEW q \in Schedules, DeleteSchedule(q) PROVE WindowInv'
  <2>1. /\ UNCHANGED <<repRuns, filed>>
        /\ \A p \in Schedules : schedules'[p].last = schedules[p].last
    BY <1>7 DEF DeleteSchedule, ReportTypes
  <2>. QED
    BY <2>1, WindowFrame DEF Runs, Marks
<1>8. ASSUME NEW s \in RepSlots, File(s) \/ ReportDies(s) PROVE WindowInv'
  BY <1>4, <1>5, <1>8, FileCases, DiesDrops
<1>9. CASE \/ Elsewhere \/ UNCHANGED reports
           \/ \E i \in News : SendRow(i) \/ CommitRow(i)
  BY <1>1, <1>9 DEF Elsewhere, reports, reportVars, SendRow, CommitRow
<1>. QED
  BY <1>2, <1>3, <1>6, <1>7, <1>8, <1>9 DEF ReportNext
-----------------------------------------------------------------------------
(* What was written in peace is in the account of its window.              *)

StoredRow(i) == items[i].st = "there" /\ items[i].quiet
Sent(i) == items[i].st = "sent" /\ items[i].quiet

\* A row sent in peace has no run beside it and is dated after every report; a
\* row stored in peace is in every account whose window it is dated in.
PeaceInv ==
  /\ \A i \in News : Sent(i) =>
       /\ \A s \in RepSlots : ~Runs(s)
       /\ \A f \in filed : f.until <= items[i].dated
  /\ \A i \in News : StoredRow(i) =>
       /\ \A f \in filed : Inside(f, items[i].dated) => i \in f.about
       /\ \A s \in RepSlots : CountedIn(s) /\ Inside(repRuns[s], items[i].dated) =>
            i \in repRuns[s].about

\* A step that files nothing and counts nothing, and starts a run only when no
\* row is sent in peace.
LEMMA PeaceFrame ==
  ASSUME PeaceInv, filed' = filed,
         \A i \in News : Sent(i)' => Sent(i) /\ \A s \in RepSlots : Runs(s)' => Runs(s),
         \A i \in News : StoredRow(i)' => StoredRow(i),
         \A i \in News : Sent(i)' \/ StoredRow(i)' => items'[i].dated = items[i].dated,
         \A s \in RepSlots : CountedIn(s)' => CountedIn(s) /\ repRuns'[s].about = repRuns[s].about
           /\ repRuns'[s].since = repRuns[s].since /\ repRuns'[s].until = repRuns[s].until
  PROVE  PeaceInv'
<1>1. \A i \in News : Sent(i)' =>
        (\A s \in RepSlots : ~Runs(s)') /\ \A f \in filed : f.until <= items'[i].dated
  BY DEF PeaceInv
<1>2. \A i \in News : StoredRow(i)' =>
        /\ \A f \in filed : Inside(f, items'[i].dated) => i \in f.about
        /\ \A s \in RepSlots : CountedIn(s)' /\ Inside(repRuns'[s], items'[i].dated) =>
             i \in repRuns'[s].about
  BY DEF PeaceInv, Inside
<1>. QED
  BY <1>1, <1>2 DEF PeaceInv, Inside

LEMMA PeaceStep ==
  ASSUME Base, PeaceInv, [ReportNext \/ Elsewhere]_reports
  PROVE  PeaceInv'
<1>. ReportTypes /\ InTime
  BY DEF Base
<1>1. CASE UNCHANGED <<items, repRuns, filed>>
  BY <1>1, PeaceFrame DEF Sent, StoredRow, Runs, CountedIn
<1>2. ASSUME NEW i \in News, SendRow(i) PROVE PeaceInv'
  <2>1. /\ items'[i].st = "sent" /\ items'[i].dated = clock /\ items'[i].quiet = NobodyRuns
        /\ \A j \in News \ {i} : items'[j] = items[j]
        /\ UNCHANGED <<repRuns, filed>>
    BY <1>2 DEF SendRow, ReportTypes
  <2>2. NobodyRuns => \A s \in RepSlots : ~Runs(s)
    BY RunStates DEF NobodyRuns, Runs, ReportTypes
  <2>3. \A j \in News : Sent(j)' =>
          (\A s \in RepSlots : ~Runs(s)') /\ \A f \in filed' : f.until <= items'[j].dated
    BY <2>1, <2>2 DEF PeaceInv, Sent, Runs, InTime
  <2>4. \A j \in News : StoredRow(j)' => j # i
    BY <2>1 DEF StoredRow
  <2>5. \A j \in News : StoredRow(j)' =>
          /\ \A f \in filed' : Inside(f, items'[j].dated) => j \in f.about
          /\ \A s \in RepSlots : CountedIn(s)' /\ Inside(repRuns'[s], items'[j].dated) =>
               j \in repRuns'[s].about
    BY <2>1, <2>4 DEF PeaceInv, StoredRow, CountedIn
  <2>. QED
    BY <2>3, <2>5 DEF PeaceInv, Inside
<1>3. ASSUME NEW i \in News, CommitRow(i) PROVE PeaceInv'
  <2>1. /\ items[i].st = "sent" /\ items'[i].st = "there"
        /\ items'[i].dated = items[i].dated
        /\ items'[i].quiet = (items[i].quiet /\ NobodyRuns)
        /\ \A j \in News \ {i} : items'[j] = items[j]
        /\ UNCHANGED <<repRuns, filed>>
    BY <1>3 DEF CommitRow, ReportTypes
  <2>2. \A j \in News : Sent(j)' => Sent(j) /\ items'[j] = items[j]
    BY <2>1 DEF Sent
  <2>3. \A j \in News : StoredRow(j)' =>
          (StoredRow(j) /\ items'[j] = items[j]) \/ (j = i /\ Sent(i))
    BY <2>1 DEF Sent, StoredRow
  <2>4. Sent(i) =>
          /\ \A f \in filed : ~Inside(f, items'[i].dated)
          /\ \A s \in RepSlots : ~CountedIn(s)
    <3>1. \A f \in filed : f.until \in Int
      BY DEF ReportTypes, ReportRow
    <3>2. items[i].dated \in Int
      BY DEF ReportTypes
    <3>3. \A s \in RepSlots : ~Runs(s) => ~CountedIn(s)
      BY RunStates DEF Runs, CountedIn
    <3>. QED
      BY <2>1, <3>1, <3>2, <3>3 DEF PeaceInv, Inside
  <2>5. \A j \in News : Sent(j)' =>
          (\A s \in RepSlots : ~Runs(s)') /\ \A f \in filed' : f.until <= items'[j].dated
    BY <2>1, <2>2 DEF PeaceInv, Runs
  <2>6. \A j \in News : StoredRow(j)' =>
          /\ \A f \in filed' : Inside(f, items'[j].dated) => j \in f.about
          /\ \A s \in RepSlots : CountedIn(s)' /\ Inside(repRuns'[s], items'[j].dated) =>
               j \in repRuns'[s].about
    BY <2>1, <2>3, <2>4 DEF PeaceInv, CountedIn
  <2>. QED
    BY <2>5, <2>6 DEF PeaceInv, Inside
<1>4. ASSUME NEW s \in RepSlots, NEW q \in Schedules, LoadReport(s, q) PROVE PeaceInv'
  <2>1. /\ filed' = filed
        /\ \A i \in News : ~Sent(i)'
        /\ \A i \in News : StoredRow(i)' => StoredRow(i)
        /\ \A i \in News : items'[i].dated = items[i].dated
    BY <1>4 DEF LoadReport, ReportTypes, Sent, StoredRow
  <2>2. ASSUME NEW r, Starts(s, q, r) PROVE PeaceInv'
    <3>1. repRuns'[s] = r /\ r.st = "query"
          /\ \A o \in RepSlots \ {s} : repRuns'[o] = repRuns[o]
      BY <2>2 DEF Starts, ReportTypes, Queried
    <3>. QED
      BY <2>1, <3>1, PeaceFrame DEF CountedIn
  <2>. QED
    BY <1>4, <2>1, <2>2, LoadCases, PeaceFrame DEF CountedIn
<1>5. ASSUME NEW s \in RepSlots, Generate(s) PROVE PeaceInv'
  <2>1. UNCHANGED <<items, filed>>
    BY <1>5 DEF Generate
  <2>2. PICK r : /\ Continues(s, r)
                 /\ r.about = {i \in News : items[i].st = "there"
                                            /\ Inside(r, items[i].dated)}
    BY <1>5, GenerateContinues
  <2>3. repRuns'[s] = r /\ \A o \in RepSlots \ {s} : repRuns'[o] = repRuns[o]
    BY <2>2 DEF Continues, ReportTypes
  <2>4. \A i \in News : Sent(i)' =>
          (\A o \in RepSlots : ~Runs(o)') /\ \A f \in filed' : f.until <= items'[i].dated
    BY <2>1, <2>2, <2>3 DEF PeaceInv, Sent, Runs, Continues
  <2>5. \A i \in News : StoredRow(i)' =>
          /\ \A f \in filed' : Inside(f, items'[i].dated) => i \in f.about
          /\ \A o \in RepSlots : CountedIn(o)' /\ Inside(repRuns'[o], items'[i].dated) =>
               i \in repRuns'[o].about
    BY <2>1, <2>2, <2>3 DEF PeaceInv, StoredRow, CountedIn
  <2>. QED
    BY <2>4, <2>5 DEF PeaceInv, Inside
<1>6. ASSUME NEW s \in RepSlots, ChooseSlug(s) PROVE PeaceInv'
  <2>1. UNCHANGED <<items, filed>>
    BY <1>6 DEF ChooseSlug
  <2>2. PICK r : Continues(s, r) /\ repRuns[s].st = "slug" /\ r.about = repRuns[s].about
    BY <1>6, SlugContinues
  <2>3. repRuns'[s] = r /\ \A o \in RepSlots \ {s} : repRuns'[o] = repRuns[o]
    BY <2>2 DEF Continues, ReportTypes
  <2>. QED
    BY <2>1, <2>2, <2>3, PeaceFrame DEF Continues, Sent, StoredRow, Runs, CountedIn
<1>7. ASSUME NEW s \in RepSlots, DropsFiling(s) PROVE PeaceInv'
  <2>1. repRuns'[s] = NoRep /\ \A o \in RepSlots \ {s} : repRuns'[o] = repRuns[o]
    BY <1>7 DEF DropsFiling, ReportTypes
  <2>. QED
    BY <1>7, <2>1, RunStates, PeaceFrame DEF DropsFiling, Sent, StoredRow, Runs, CountedIn
<1>8. ASSUME NEW s \in RepSlots, Files(s) PROVE PeaceInv'
  <2>. DEFINE f == ReportOf(repRuns[s])
  <2>1. /\ f.since = repRuns[s].since /\ f.until = repRuns[s].until
        /\ f.about = repRuns[s].about
    BY DEF ReportOf
  <2>2. filed' = filed \cup {f} /\ items' = items
    BY <1>8 DEF Files
  <2>3. PICK r : Continues(s, r) /\ r.about = repRuns[s].about
    BY <1>8 DEF Files
  <2>4. repRuns'[s] = r /\ \A o \in RepSlots \ {s} : repRuns'[o] = repRuns[o]
    BY <2>3 DEF Continues, ReportTypes
  <2>5. CountedIn(s) /\ Runs(s)
    BY <1>8, <2>3 DEF Files, CountedIn, Continues
  <2>. HIDE DEF f
  <2>6. \A i \in News : ~Sent(i)'
    BY <2>2, <2>5 DEF PeaceInv, Sent
  <2>7. \A i \in News : StoredRow(i)' =>
          /\ \A g \in filed' : Inside(g, items'[i].dated) => i \in g.about
          /\ \A o \in RepSlots : CountedIn(o)' /\ Inside(repRuns'[o], items'[i].dated) =>
               i \in repRuns'[o].about
    BY <2>1, <2>2, <2>3, <2>4, <2>5 DEF PeaceInv, StoredRow, CountedIn, Inside, Continues
  <2>. QED
    BY <2>6, <2>7 DEF PeaceInv, Inside
<1>9. ASSUME NEW s \in RepSlots, MarkRun(s) PROVE PeaceInv'
  <2>1. repRuns'[s] = NoRep /\ \A o \in RepSlots \ {s} : repRuns'[o] = repRuns[o]
    BY <1>9 DEF MarkRun, ReportTypes
  <2>2. UNCHANGED <<items, filed>>
    BY <1>9 DEF MarkRun
  <2>. QED
    BY <2>1, <2>2, RunStates, PeaceFrame DEF Sent, StoredRow, Runs, CountedIn
<1>10. ASSUME NEW s \in RepSlots, File(s) \/ ReportDies(s) PROVE PeaceInv'
  BY <1>7, <1>8, <1>10, FileCases, DiesDrops
<1>11. CASE Elsewhere \/ UNCHANGED reports \/ \E q \in Schedules : DeleteSchedule(q)
  BY <1>1, <1>11 DEF Elsewhere, reports, reportVars, DeleteSchedule
<1>. QED
  BY <1>2, <1>3, <1>4, <1>5, <1>6, <1>9, <1>10, <1>11 DEF ReportNext
-----------------------------------------------------------------------------
(* A window is filed once.                                                 *)

\* As long as no runs of a schedule overlapped and none was cut off, it has one
\* run at most, no report reaches into the run's window, and without one none
\* reaches beyond where the schedule stands.
OnceInv ==
  /\ \A s, o \in RepSlots : Runs(s) /\ Runs(o) /\ s # o
       /\ repRuns[s].sched = repRuns[o].sched => repRuns[s].sched \in blurred
  /\ \A s \in RepSlots : Runs(s) /\ repRuns[s].sched \notin blurred =>
       \A f \in filed : f.sched = repRuns[s].sched =>
         f.until <= IF Marks(s) THEN repRuns[s].until ELSE repRuns[s].since
  /\ \A q \in Schedules \ blurred : schedules[q].exists =>
       \A f \in filed : f.sched = q =>
         \/ f.until <= schedules[q].last
         \/ \E s \in RepSlots : Marks(s) /\ repRuns[s].sched = q
  /\ NoWindowTwice

\* A step that files nothing, moves no schedule and starts no run.
LEMMA OnceFrame ==
  ASSUME OnceInv, filed' = filed, blurred \subseteq blurred',
         \A q \in Schedules : /\ schedules'[q].last = schedules[q].last
                              /\ schedules'[q].exists => schedules[q].exists,
         \A s \in RepSlots : Runs(s)' =>
           /\ Runs(s) /\ (Marks(s)' <=> Marks(s)) /\ repRuns'[s].sched = repRuns[s].sched
           /\ repRuns'[s].since = repRuns[s].since /\ repRuns'[s].until = repRuns[s].until,
         \A s \in RepSlots : Marks(s) /\ ~Runs(s)' => repRuns[s].sched \in blurred'
  PROVE  OnceInv'
<1>1. \A s, o \in RepSlots : Runs(s)' /\ Runs(o)' /\ s # o
       /\ repRuns'[s].sched = repRuns'[o].sched => repRuns'[s].sched \in blurred'
  BY DEF OnceInv
<1>2. \A s \in RepSlots : Runs(s)' /\ repRuns'[s].sched \notin blurred' =>
       \A f \in filed : f.sched = repRuns'[s].sched =>
         f.until <= IF Marks(s)' THEN repRuns'[s].until ELSE repRuns'[s].since
  BY DEF OnceInv
<1>3. ASSUME NEW q \in Schedules \ blurred', schedules'[q].exists,
             NEW f \in filed, f.sched = q
      PROVE  \/ f.until <= schedules'[q].last
             \/ \E s \in RepSlots : Marks(s)' /\ repRuns'[s].sched = q
  <2>1. \/ f.until <= schedules[q].last
        \/ \E s \in RepSlots : Marks(s) /\ repRuns[s].sched = q
    BY <1>3 DEF OnceInv
  <2>2. ASSUME NEW s \in RepSlots, Marks(s), repRuns[s].sched = q
        PROVE  Marks(s)' /\ repRuns'[s].sched = q
    BY <1>3, <2>2
  <2>. QED
    BY <2>1, <2>2
<1>4. NoWindowTwice'
  BY DEF OnceInv, NoWindowTwice
<1>. QED
  BY <1>1, <1>2, <1>3, <1>4 DEF OnceInv

\* A schedule nobody runs is loaded where it stands.
LEMMA OnceStarts ==
  ASSUME Base, OnceInv, NEW s \in RepSlots, NEW q \in Schedules, NEW r,
         LoadReport(s, q), Starts(s, q, r)
  PROVE  OnceInv'
<1>. ReportTypes /\ InTime
  BY DEF Base
<1>1. /\ repRuns'[s] = r /\ ~Marks(s)' /\ ~Runs(s)
      /\ r.sched = q /\ r.since = SinceOf(q) /\ schedules[q].exists
      /\ \A o \in RepSlots \ {s} : repRuns'[o] = repRuns[o]
  BY DEF Starts, ReportTypes, Queried, Runs, Marks
<1>2. UNCHANGED <<schedules, filed>> /\ blurred \subseteq blurred'
  BY DEF LoadReport
<1>3. q \notin blurred' => \A o \in RepSlots : Runs(o) => repRuns[o].sched # q
  BY DEF LoadReport, Runs
<1>4. ~Marks(s)
  BY <1>1, RunStates DEF Runs, Marks
<1>5. \A o, p \in RepSlots : Runs(o)' /\ Runs(p)' /\ o # p
       /\ repRuns'[o].sched = repRuns'[p].sched => repRuns'[o].sched \in blurred'
  BY <1>1, <1>2, <1>3 DEF OnceInv, Runs
<1>6. q \notin blurred' => \A f \in filed : f.sched = q => f.until <= SinceOf(q)
  <2>1. ASSUME q \notin blurred', NEW f \in filed, f.sched = q PROVE f.until <= SinceOf(q)
    <3>1. \A o \in RepSlots : Marks(o) => Runs(o)
      BY RunStates DEF Marks, Runs
    <3>2. f.until <= schedules[q].last
      BY <1>1, <1>2, <1>3, <2>1, <3>1 DEF OnceInv
    <3>3. f.until \in Int /\ schedules[q].last \in Int
      BY DEF ReportTypes, ReportRow
    <3>4. schedules[q].last <= SinceOf(q)
      BY <3>3 DEF SinceOf, Created
    <3>. QED
      BY <3>2, <3>3, <3>4, SinceInTime
  <2>. QED
    BY <2>1
<1>7. \A o \in RepSlots : Runs(o)' /\ repRuns'[o].sched \notin blurred' =>
       \A f \in filed' : f.sched = repRuns'[o].sched =>
         f.until <= IF Marks(o)' THEN repRuns'[o].until ELSE repRuns'[o].since
  BY <1>1, <1>2, <1>6 DEF OnceInv, Runs, Marks
<1>8. \A p \in Schedules \ blurred' : schedules'[p].exists =>
       \A f \in filed' : f.sched = p =>
         \/ f.until <= schedules'[p].last
         \/ \E o \in RepSlots : Marks(o)' /\ repRuns'[o].sched = p
  BY <1>1, <1>2, <1>4 DEF OnceInv, Marks
<1>9. NoWindowTwice'
  BY <1>2 DEF OnceInv, NoWindowTwice
<1>. QED
  BY <1>5, <1>7, <1>8, <1>9 DEF OnceInv

\* What is filed begins where the earlier reports of the schedule ended.
LEMMA OnceFiles ==
  ASSUME Base, OnceInv, NEW s \in RepSlots, Files(s), filed' \subseteq ReportRow
  PROVE  OnceInv'
<1>. ReportTypes /\ InTime
  BY DEF Base
<1>. DEFINE f == ReportOf(repRuns[s])
            q == repRuns[s].sched
<1>1. f.sched = q /\ f.since = repRuns[s].since /\ f.until = repRuns[s].until
  BY DEF ReportOf
<1>2. filed' = filed \cup {f} /\ UNCHANGED <<schedules, blurred>>
  BY DEF Files
<1>3. PICK r : Continues(s, r) /\ r.st = "mark"
  BY DEF Files
<1>4. /\ repRuns'[s] = r /\ Runs(s)' /\ Runs(s) /\ Marks(s)' /\ ~Marks(s)
      /\ repRuns'[s].sched = q
      /\ repRuns'[s].since = repRuns[s].since /\ repRuns'[s].until = repRuns[s].until
      /\ \A o \in RepSlots \ {s} : repRuns'[o] = repRuns[o]
  BY <1>3, RunStates DEF Continues, ReportTypes, Runs, Marks, Files
<1>5. f.since \in Int /\ f.until \in Int /\ f.since <= f.until
  BY <1>1, <1>3, RunStates DEF Continues, ReportTypes, InTime, Runs
<1>6. \A g \in filed : g.until \in Int
  BY DEF ReportTypes, ReportRow
<1>. HIDE DEF f
<1>7. q \notin blurred => \A g \in filed : g.sched = q => g.until <= f.since
  BY <1>1, <1>4 DEF OnceInv
<1>8. \A o, p \in RepSlots : Runs(o)' /\ Runs(p)' /\ o # p
       /\ repRuns'[o].sched = repRuns'[p].sched => repRuns'[o].sched \in blurred'
  BY <1>2, <1>4 DEF OnceInv, Runs
<1>9. ASSUME NEW o \in RepSlots, Runs(o)', repRuns'[o].sched \notin blurred',
             NEW g \in filed', g.sched = repRuns'[o].sched
      PROVE  g.until <= IF Marks(o)' THEN repRuns'[o].until ELSE repRuns'[o].since
  <2>1. CASE o = s
    BY <1>1, <1>2, <1>4, <1>5, <1>6, <1>7, <1>9, <2>1
  <2>2. CASE o # s
    <3>1. Runs(o) /\ repRuns'[o] = repRuns[o]
      BY <1>4, <1>9, <2>2 DEF Runs
    <3>2. repRuns[o].sched # q
      BY <1>2, <1>4, <1>9, <2>2, <3>1 DEF OnceInv
    <3>3. g \in filed
      BY <1>1, <1>2, <1>9, <3>1, <3>2
    <3>. QED
      BY <1>2, <1>9, <3>1, <3>3 DEF OnceInv, Marks
  <2>. QED
    BY <2>1, <2>2
<1>10. ASSUME NEW p \in Schedules \ blurred', schedules'[p].exists,
              NEW g \in filed', g.sched = p
       PROVE  \/ g.until <= schedules'[p].last
              \/ \E o \in RepSlots : Marks(o)' /\ repRuns'[o].sched = p
  <2>1. CASE p = q
    BY <1>4, <2>1
  <2>2. CASE p # q
    <3>1. \/ g.until <= schedules[p].last
          \/ \E o \in RepSlots : Marks(o) /\ repRuns[o].sched = p
      BY <1>1, <1>2, <1>10, <2>2 DEF OnceInv
    <3>. QED
      BY <1>2, <1>4, <3>1 DEF Marks
  <2>. QED
    BY <2>1, <2>2
<1>11. NoWindowTwice'
  BY <1>1, <1>2, <1>7 DEF OnceInv, NoWindowTwice
<1>. QED
  BY <1>8, <1>9, <1>10, <1>11 DEF OnceInv

\* The schedule comes to stand where the filed window ended.
LEMMA OnceMarks ==
  ASSUME Base, OnceInv, NEW s \in RepSlots, MarkRun(s)
  PROVE  OnceInv'
<1>. ReportTypes /\ InTime
  BY DEF Base
<1>. DEFINE q == repRuns[s].sched
<1>1. q \in Schedules /\ Runs(s) /\ Marks(s)
  BY RunType, RunStates DEF MarkRun, Marks
<1>2. /\ repRuns'[s] = NoRep /\ \A o \in RepSlots \ {s} : repRuns'[o] = repRuns[o]
      /\ UNCHANGED <<filed, blurred>>
      /\ schedules' = [schedules EXCEPT ![q].last =
           IF schedules[q].exists THEN repRuns[s].until ELSE @]
  BY DEF MarkRun, Mark, ReportTypes
<1>3. /\ schedules[q].exists => schedules'[q].last = repRuns[s].until
      /\ schedules'[q].exists = schedules[q].exists
      /\ \A p \in Schedules \ {q} : schedules'[p] = schedules[p]
  BY <1>1, <1>2 DEF ReportTypes
<1>4. ~Runs(s)' /\ ~Marks(s)'
  BY <1>2, RunStates DEF Runs, Marks
<1>5. \A o, p \in RepSlots : Runs(o)' /\ Runs(p)' /\ o # p
       /\ repRuns'[o].sched = repRuns'[p].sched => repRuns'[o].sched \in blurred'
  BY <1>2, <1>4 DEF OnceInv, Runs
<1>6. \A o \in RepSlots : Runs(o)' /\ repRuns'[o].sched \notin blurred' =>
       \A f \in filed' : f.sched = repRuns'[o].sched =>
         f.until <= IF Marks(o)' THEN repRuns'[o].until ELSE repRuns'[o].since
  BY <1>2, <1>4 DEF OnceInv, Runs, Marks
<1>7. ASSUME NEW p \in Schedules \ blurred', schedules'[p].exists,
             NEW f \in filed', f.sched = p
      PROVE  \/ f.until <= schedules'[p].last
             \/ \E o \in RepSlots : Marks(o)' /\ repRuns'[o].sched = p
  <2>1. CASE p = q
    BY <1>1, <1>2, <1>3, <1>7, <2>1 DEF OnceInv
  <2>2. CASE p # q
    <3>1. \/ f.until <= schedules[p].last
          \/ \E o \in RepSlots : Marks(o) /\ repRuns[o].sched = p
      BY <1>2, <1>3, <1>7, <2>2 DEF OnceInv
    <3>. QED
      BY <1>2, <1>3, <2>2, <3>1 DEF Marks
  <2>. QED
    BY <2>1, <2>2
<1>8. NoWindowTwice'
  BY <1>2 DEF OnceInv, NoWindowTwice
<1>. QED
  BY <1>5, <1>6, <1>7, <1>8 DEF OnceInv

LEMMA OnceStep ==
  ASSUME Base, Base', OnceInv, [ReportNext \/ Elsewhere]_reports
  PROVE  OnceInv'
<1>. ReportTypes /\ InTime
  BY DEF Base
<1>1. CASE UNCHANGED <<schedules, repRuns, filed, blurred>>
  BY <1>1, RunStates, OnceFrame DEF Runs, Marks
<1>2. ASSUME NEW s \in RepSlots, NEW q \in Schedules, LoadReport(s, q) PROVE OnceInv'
  <2>1. CASE repRuns' = repRuns
    <3>1. UNCHANGED <<schedules, repRuns, filed>> /\ blurred \subseteq blurred'
      BY <1>2, <2>1 DEF LoadReport
    <3>. QED
      BY <3>1, RunStates, OnceFrame DEF Runs, Marks
  <2>. QED
    BY <1>2, <2>1, LoadCases, OnceStarts
<1>3. ASSUME NEW s \in RepSlots, Generate(s) \/ ChooseSlug(s) PROVE OnceInv'
  <2>1. UNCHANGED <<schedules, filed, blurred>> /\ ~Marks(s)
    BY <1>3 DEF Generate, ChooseSlug, Marks
  <2>2. PICK r : Continues(s, r) /\ r.st # "mark"
    BY <1>3, GenerateContinues, SlugContinues
  <2>3. repRuns'[s] = r /\ \A o \in RepSlots \ {s} : repRuns'[o] = repRuns[o]
    BY <2>2 DEF Continues, ReportTypes
  <2>4. \A o \in RepSlots : Runs(o)' =>
           /\ Runs(o) /\ (Marks(o)' <=> Marks(o)) /\ repRuns'[o].sched = repRuns[o].sched
           /\ repRuns'[o].since = repRuns[o].since /\ repRuns'[o].until = repRuns[o].until
    BY <2>1, <2>2, <2>3 DEF Continues, Runs, Marks
  <2>5. \A o \in RepSlots : Marks(o) => Runs(o)'
    BY <2>1, <2>3, RunStates DEF Runs, Marks
  <2>. QED
    BY <2>1, <2>4, <2>5, OnceFrame
<1>4. ASSUME NEW s \in RepSlots, DropsFiling(s) PROVE OnceInv'
  <2>1. repRuns'[s] = NoRep /\ \A o \in RepSlots \ {s} : repRuns'[o] = repRuns[o]
    BY <1>4 DEF DropsFiling, ReportTypes
  <2>2. \A o \in RepSlots : Marks(o) /\ ~Runs(o)' => repRuns[o].sched \in blurred'
    BY <1>4, <2>1, RunStates DEF DropsFiling, Runs, Marks
  <2>3. \A o \in RepSlots : Runs(o)' => o # s /\ Runs(o) /\ repRuns'[o] = repRuns[o]
    BY <2>1 DEF Runs
  <2>4. UNCHANGED <<schedules, filed>> /\ blurred \subseteq blurred'
    BY <1>4 DEF DropsFiling
  <2>. QED
    BY <2>2, <2>3, <2>4, OnceFrame DEF Marks
<1>5. ASSUME NEW s \in RepSlots, File(s) \/ ReportDies(s) PROVE OnceInv'
  BY <1>4, <1>5, FileCases, DiesDrops, OnceFiles DEF Base, ReportTypes
<1>6. ASSUME NEW q \in Schedules, DeleteSchedule(q) PROVE OnceInv'
  <2>1. /\ UNCHANGED <<repRuns, filed, blurred>>
        /\ \A p \in Schedules : /\ schedules'[p].last = schedules[p].last
                                /\ schedules'[p].exists => schedules[p].exists
    BY <1>6 DEF DeleteSchedule, ReportTypes
  <2>. QED
    BY <2>1, RunStates, OnceFrame DEF Runs, Marks
<1>7. CASE \/ Elsewhere \/ UNCHANGED reports
           \/ \E i \in News : SendRow(i) \/ CommitRow(i)
  BY <1>1, <1>7 DEF Elsewhere, reports, reportVars, SendRow, CommitRow
<1>. QED
  BY <1>2, <1>3, <1>5, <1>6, <1>7, OnceMarks DEF ReportNext
-----------------------------------------------------------------------------
ReportInv == Base /\ WindowInv /\ PeaceInv /\ OnceInv

LEMMA ReportStart ==
  ASSUME EnvironmentInit, ReportInit
  PROVE  ReportInv
<1>1. \A s \in RepSlots : repRuns[s] = NoRep /\ repRuns[s].st = "none"
  BY RunStates DEF ReportInit
<1>2. Base
  BY <1>1 DEF EnvironmentInit, ReportInit, Base, ReportTypes, InTime, Runs, Created
<1>3. WindowInv
  BY <1>1 DEF ReportInit, WindowInv, FiledUpTo, Runs, Marks, Created
<1>4. PeaceInv /\ OnceInv
  BY <1>1 DEF ReportInit, PeaceInv, OnceInv, NoWindowTwice, Sent, StoredRow, Runs, Marks, CountedIn
<1>. QED
  BY <1>2, <1>3, <1>4 DEF ReportInv

LEMMA ReportSafety == ReportSpec => []ReportInv
<1>1. ReportInv /\ [ReportNext \/ Elsewhere]_reports => ReportInv'
  BY BaseStep, WindowStep, PeaceStep, OnceStep DEF ReportInv
<1>. QED
  BY <1>1, ReportStart, PTL DEF ReportSpec

\* However runs overlap, are refused a slug or die at any step, every instant
\* before lastRunAt lies in the window of a filed report, and a row written
\* beside no run is in one of those reports (runScheduledReport in
\* src/lib/reports/run.ts).
THEOREM NoWindowIsLost == ReportSpec => []NoWindowLost
<1>1. ReportInv => NoWindowLost
  <2>1. ASSUME ReportInv, NEW q \in Schedules, NEW t \in Int, Covered(q, t)
        PROVE  \E f \in FiledOf(q) : Inside(f, t)
    BY <2>1 DEF ReportInv, WindowInv, FiledUpTo, Held, Covered, FiledOf
  <2>2. ASSUME ReportInv, NEW q \in Schedules, NEW i \in News,
               items[i].st = "there", items[i].quiet, Covered(q, items[i].dated)
        PROVE  \E f \in FiledOf(q) : i \in f.about
    <3>1. items[i].dated \in Int
      BY <2>2 DEF ReportInv, Base, ReportTypes
    <3>2. PICK f \in FiledOf(q) : Inside(f, items[i].dated)
      BY <2>1, <2>2, <3>1
    <3>. QED
      BY <2>2, <3>2 DEF ReportInv, PeaceInv, StoredRow, FiledOf
  <2>3. Created .. MaxClock \subseteq Int
    BY DEF Created
  <2>. QED
    BY <2>1, <2>2, <2>3 DEF NoWindowLost
<1>. QED
  BY <1>1, ReportSafety, PTL

\* A schedule whose runs never overlapped and were never cut off has no
\* instant in two of its reports.
THEOREM NoWindowIsFiledTwice == ReportSpec => []NoWindowTwice
<1>1. ReportInv => NoWindowTwice
  BY DEF ReportInv, OnceInv
<1>. QED
  BY <1>1, ReportSafety, PTL
-----------------------------------------------------------------------------
(* Credentials. A load holds its reading of the row across an await. The     *)
(* invariant says what the readings in flight are worth: one that is         *)
(* current is the row, beside one that is current and alone every other of   *)
(* its process is current, and a fresh process has none that is not.         *)

CredentialSpec == CredentialInit /\ [][CredentialNext]_credentialVars

\* Loads, caches and the row have the shape the steps rely on.
CredentialTypes ==
  /\ caches \in [Procs -> Secrets \cup {NoSecret}]
  /\ loads \in [Loads -> UNION
       { {Idle}, [st : {"load"}],
         [st : {"write"}, secret : Secrets, exists : BOOLEAN],
         [st : {"hold"}, seen : Secrets \cup {Unreadable, NoSecret}, now : BOOLEAN,
          alone : BOOLEAN] }]
  /\ fresh \subseteq Procs

Holding ==
  [st : {"hold"}, seen : Secrets \cup {Unreadable, NoSecret}, now : BOOLEAN,
   alone : BOOLEAN]
HoldsSlot(l) == loads[l].st = "hold"

\* A current reading is the row.
NowIsStored == \A l \in Loads : HoldsSlot(l) /\ loads[l].now => loads[l].seen = stored

\* Beside a reading that is current and alone there is none that is older.
AloneIsCurrent ==
  \A l, o \in Loads :
    /\ HoldsSlot(l) /\ loads[l].now /\ loads[l].alone
    /\ HoldsSlot(o) /\ LoadIn[o] = LoadIn[l]
    => loads[o].now

\* A fresh process has no older reading in flight.
FreshIsCurrent == \A l \in Loads : HoldsSlot(l) /\ LoadIn[l] \in fresh => loads[l].now

CacheInv ==
  /\ CredentialTypes /\ stored \in Secrets \cup {Unreadable, NoSecret}
  /\ NowIsStored /\ AloneIsCurrent /\ FreshIsCurrent /\ FreshCache
-----------------------------------------------------------------------------
LEMMA LoadStates ==
  /\ Idle.st = "idle"
  /\ \A x \in Holding : x.st = "hold" /\ x # Idle
BY DEF Idle, Holding

LEMMA HoldType ==
  ASSUME CacheInv, NEW l \in Loads, HoldsSlot(l)
  PROVE  loads[l] \in Holding
BY LoadStates DEF CacheInv, CredentialTypes, HoldsSlot, Holding

\* Steps of the readings that only drop some: the rest is as it was, nothing
\* becomes fresh and the caches of the fresh stay.
DropsSlot ==
  /\ CredentialTypes'
  /\ stored' = stored
  /\ \A l \in Loads : HoldsSlot(l)' => loads'[l] = loads[l]
  /\ fresh' \subseteq fresh
  /\ \A p \in fresh' : caches'[p] = caches[p]

LEMMA DropKeeps ==
  ASSUME CacheInv, DropsSlot
  PROVE  CacheInv'
<1>1. \A l \in Loads : HoldsSlot(l)' => HoldsSlot(l) /\ loads'[l] = loads[l]
  BY DEF DropsSlot, HoldsSlot
<1>2. NowIsStored' /\ AloneIsCurrent' /\ FreshIsCurrent'
  BY <1>1 DEF CacheInv, DropsSlot, NowIsStored, AloneIsCurrent, FreshIsCurrent
<1>3. FreshCache'
  BY DEF CacheInv, DropsSlot, FreshCache, View
<1>. QED
  BY <1>2, <1>3 DEF CacheInv, DropsSlot

\* A changed row makes every reading old and no process fresh.
LEMMA ChangeKeeps ==
  ASSUME CacheInv, NEW l \in Loads, NEW to \in Secrets \cup {NoSecret},
         Changed(l, to), caches' = caches
  PROVE  CacheInv'
<1>. CredentialTypes
  BY DEF CacheInv
<1>1. \A o \in Loads : HoldsSlot(o) => Aged[o] \in Holding /\ ~Aged[o].now
  <2>1. \A r \in Holding : [r EXCEPT !.now = FALSE] \in Holding
                           /\ ~[r EXCEPT !.now = FALSE].now
    BY DEF Holding
  <2>. QED
    BY <2>1, HoldType DEF Aged, HoldsSlot
<1>2. \A o \in Loads : ~HoldsSlot(o) => Aged[o] = loads[o]
  BY DEF Aged, HoldsSlot
<1>3. loads' = [o \in Loads |-> IF o = l THEN [st |-> "load"] ELSE Aged[o]]
  BY DEF Changed, Aged
<1>4. [st |-> "load"] \in [st : {"load"}] /\ [st |-> "load"].st # "hold"
  OBVIOUS
<1>5. CredentialTypes'
  <2>1. \A o \in Loads : loads'[o] \in UNION
       { {Idle}, [st : {"load"}],
         [st : {"write"}, secret : Secrets, exists : BOOLEAN], Holding }
    BY <1>1, <1>2, <1>3, <1>4 DEF CredentialTypes, Holding
  <2>. QED
    BY <1>3, <2>1 DEF CredentialTypes, Changed, Holding
<1>6. \A o \in Loads : HoldsSlot(o)' => ~loads'[o].now
  BY <1>1, <1>2, <1>3, <1>4 DEF HoldsSlot
<1>7. fresh' = {} /\ stored' \in Secrets \cup {Unreadable, NoSecret}
  BY DEF Changed
<1>8. NowIsStored' /\ AloneIsCurrent' /\ FreshIsCurrent' /\ FreshCache'
  BY <1>6, <1>7 DEF NowIsStored, AloneIsCurrent, FreshIsCurrent, FreshCache
<1>. QED
  BY <1>5, <1>7, <1>8 DEF CacheInv

\* A new reading is current, and alone when those beside it are.
LEMMA ReadSecretKeeps ==
  ASSUME CacheInv, NEW l \in Loads, ReadCredentials(l)
  PROVE  CacheInv'
<1>. DEFINE new == [st |-> "hold", seen |-> stored, now |-> TRUE,
                    alone |-> \A o \in Beside(l) : loads[o].now]
<1>1. new \in Holding /\ new.now /\ new.seen = stored
  BY DEF Holding, CacheInv
<1>2. /\ loads'[l] = new
      /\ \A o \in Loads \ {l} : loads'[o] = loads[o]
  BY DEF ReadCredentials, CacheInv, CredentialTypes
<1>3. stored' = stored /\ fresh' = fresh /\ caches' = caches
  BY DEF ReadCredentials
<1>4. CredentialTypes'
  BY <1>1, <1>3 DEF CacheInv, CredentialTypes, ReadCredentials, Holding
<1>5. NowIsStored' /\ FreshIsCurrent'
  BY <1>1, <1>2, <1>3 DEF CacheInv, NowIsStored, FreshIsCurrent, HoldsSlot
<1>6. AloneIsCurrent'
  <2>1. ASSUME NEW k \in Loads, NEW o \in Loads, HoldsSlot(k)', loads'[k].now, loads'[k].alone,
               HoldsSlot(o)', LoadIn[o] = LoadIn[k]
        PROVE  loads'[o].now
    <3>1. CASE o = l
      BY <1>1, <1>2, <3>1
    <3>2. CASE o # l /\ k = l
      <4>1. o \in Beside(l)
        BY <1>2, <2>1, <3>2 DEF Beside, HoldsSlot
      <4>2. new.alone
        BY <1>2, <2>1, <3>2
      <4>. QED
        BY <1>2, <3>2, <4>1, <4>2
    <3>3. CASE o # l /\ k # l
      BY <1>2, <2>1, <3>3 DEF CacheInv, AloneIsCurrent, HoldsSlot
    <3>. QED
      BY <3>1, <3>2, <3>3
  <2>. QED
    BY <2>1 DEF AloneIsCurrent
<1>7. FreshCache'
  BY <1>3 DEF CacheInv, FreshCache, View
<1>. QED
  BY <1>3, <1>4, <1>5, <1>6, <1>7 DEF CacheInv

\* What is stored in a fresh process, or makes a process fresh, is the row.
LEMMA StoreKeeps ==
  ASSUME CacheInv, NEW l \in Loads, StoreCache(l)
  PROVE  CacheInv'
<1>. DEFINE p == LoadIn[l]
<1>1. loads[l] \in Holding /\ HoldsSlot(l)
  BY HoldType DEF StoreCache, HoldsSlot
<1>2. p \in Procs
  BY DEF Procs
<1>3. /\ caches' \in [Procs -> Secrets \cup {NoSecret}]
      /\ caches'[p] = Decrypted(l)
      /\ \A q \in Procs \ {p} : caches'[q] = caches[q]
  BY <1>1, <1>2 DEF StoreCache, CacheInv, CredentialTypes, Decrypted
<1>4. /\ loads'[l] = Idle
      /\ \A o \in Loads \ {l} : loads'[o] = loads[o]
      /\ stored' = stored
  BY DEF StoreCache, CacheInv, CredentialTypes
<1>5. CredentialTypes'
  BY <1>2, <1>3 DEF StoreCache, CacheInv, CredentialTypes
<1>6. \A o \in Loads : HoldsSlot(o)' => o # l /\ HoldsSlot(o) /\ loads'[o] = loads[o]
  BY <1>4, LoadStates DEF HoldsSlot
<1>7. NowIsStored' /\ AloneIsCurrent'
  BY <1>4, <1>6 DEF CacheInv, NowIsStored, AloneIsCurrent
<1>8. loads[l].now => Decrypted(l) = View
  BY <1>1 DEF CacheInv, NowIsStored, Decrypted, View
<1>9. CASE loads[l].now /\ loads[l].alone
  <2>1. fresh' = fresh \cup {p}
    BY <1>9 DEF StoreCache
  <2>2. FreshIsCurrent'
    BY <1>1, <1>6, <1>9, <2>1 DEF CacheInv, AloneIsCurrent, FreshIsCurrent
  <2>3. FreshCache'
    BY <1>3, <1>4, <1>8, <1>9, <2>1 DEF CacheInv, CredentialTypes, FreshCache, View
  <2>. QED
    BY <1>4, <1>5, <1>7, <2>2, <2>3 DEF CacheInv
<1>10. CASE ~(loads[l].now /\ loads[l].alone)
  <2>1. fresh' = fresh
    BY <1>10 DEF StoreCache
  <2>2. FreshIsCurrent'
    BY <1>6, <2>1 DEF CacheInv, FreshIsCurrent
  <2>3. p \in fresh => caches'[p] = View
    BY <1>1, <1>3, <1>8 DEF CacheInv, FreshIsCurrent
  <2>4. FreshCache'
    BY <1>3, <1>4, <2>1, <2>3 DEF CacheInv, CredentialTypes, FreshCache, View
  <2>. QED
    BY <1>4, <1>5, <1>7, <2>2, <2>4 DEF CacheInv
<1>. QED
  BY <1>9, <1>10
-----------------------------------------------------------------------------
LEMMA CredentialStep ==
  ASSUME CacheInv, [CredentialNext]_credentialVars
  PROVE  CacheInv'
<1>. CredentialTypes
  BY DEF CacheInv
<1>1. ASSUME NEW l \in Loads, NEW v \in Secrets, FindCredential(l, v) PROVE CacheInv'
  <2>1. DropsSlot
    BY <1>1 DEF FindCredential, DropsSlot, CredentialTypes, HoldsSlot
  <2>. QED
    BY <2>1, DropKeeps
<1>2. ASSUME NEW l \in Loads, WriteCredential(l) PROVE CacheInv'
  <2>1. loads[l].secret \in Secrets /\ caches' = caches
    BY <1>2 DEF WriteCredential, CredentialTypes, Idle
  <2>2. CASE Changed(l, loads[l].secret)
    BY <2>1, <2>2, ChangeKeeps
  <2>3. CASE loads' = [loads EXCEPT ![l] = Idle] /\ UNCHANGED <<stored, fresh>>
    <3>1. DropsSlot
      BY <2>1, <2>3, LoadStates DEF DropsSlot, CredentialTypes, HoldsSlot
    <3>. QED
      BY <3>1, DropKeeps
  <2>. QED
    BY <1>2, <2>2, <2>3 DEF WriteCredential
<1>3. ASSUME NEW l \in Loads, ClearCredential(l) PROVE CacheInv'
  BY <1>3, ChangeKeeps DEF ClearCredential
<1>4. ASSUME NEW l \in Loads, LoadFails(l) PROVE CacheInv'
  <2>1. DropsSlot
    BY <1>4, LoadStates DEF LoadFails, DropsSlot, CredentialTypes, HoldsSlot
  <2>. QED
    BY <2>1, DropKeeps
<1>5. ASSUME NEW p \in Procs, ProcessDies(p) PROVE CacheInv'
  <2>1. CredentialTypes' /\ stored' = stored /\ fresh' = fresh \ {p}
    BY <1>5 DEF ProcessDies, CredentialTypes
  <2>2. \A l \in Loads : HoldsSlot(l)' => loads'[l] = loads[l]
    BY <1>5, LoadStates DEF ProcessDies, HoldsSlot
  <2>3. \A q \in fresh' : caches'[q] = caches[q]
    BY <1>5, <2>1 DEF ProcessDies, CredentialTypes
  <2>. QED
    BY <2>1, <2>2, <2>3, DropKeeps DEF DropsSlot
<1>6. ASSUME NEW k \in Lookups, StartLookup(k) \/ KeySpent(k) \/ KeyAnswers(k) PROVE CacheInv'
  <2>1. UNCHANGED <<stored, caches, loads, fresh>>
    BY <1>6 DEF StartLookup, KeySpent, KeyAnswers
  <2>. QED
    BY <2>1, DropKeeps DEF DropsSlot, CredentialTypes
<1>7. CASE UNCHANGED credentialVars
  BY <1>7, DropKeeps DEF DropsSlot, CredentialTypes, credentialVars
<1>. QED
  BY <1>1, <1>2, <1>3, <1>4, <1>5, <1>6, <1>7, ReadSecretKeeps, StoreKeeps
     DEF CredentialNext, LoadStep

LEMMA CacheStart == CredentialInit => CacheInv
BY LoadStates DEF CredentialInit, CacheInv, CredentialTypes, NowIsStored,
   AloneIsCurrent, FreshIsCurrent, FreshCache, HoldsSlot

\* Once a process has loaded the stored row beside no older reading, its cache
\* is what the row decrypts to until the row changes, whatever loads, crashes,
\* refused writes and lookups come in between (loadCredentialCache in
\* src/lib/enrichment/secrets.ts).
THEOREM CacheStaysFresh == CredentialSpec => []FreshCache
<1>1. CacheInv => FreshCache
  BY DEF CacheInv
<1>. QED
  BY <1>1, CacheStart, CredentialStep, PTL DEF CredentialSpec
-----------------------------------------------------------------------------
(* Key rotation. The index of a process is its number of lookups modulo      *)
(* the number of keys, so the keys that were not tried are the ones that     *)
(* are due longest, and the counts of two keys differ by one at most.        *)

AskingKey ==
  [st : {"asked", "exhausted"}, n : Nat \ {0}, left : Nat, tried : SUBSET Nat,
   alone : BOOLEAN]

LookupTypes ==
  /\ turn \in [Procs -> Nat]
  /\ lookups \in [Lookups -> {Idle} \cup AskingKey]

\* The key i attempts after key t of n keys in rotation was due.
Behind(t, i, n) == (t - 1 - i) % n

\* The key that is due.
Due(t, n) == t % n

\* The keys that came last, m of them.
LastKeys(t, m, n) == {i \in 0 .. n - 1 : Behind(t, i, n) < m}

\* A lookup that had its index to itself tried the keys that came last.
TriedInTurn ==
  \A k \in Lookups : lookups[k].st # "idle" /\ lookups[k].alone =>
    /\ lookups[k].left < lookups[k].n
    /\ lookups[k].st = "asked" =>
         lookups[k].tried =
           LastKeys(turn[LookupIn[k]], lookups[k].n - lookups[k].left, lookups[k].n)
    /\ lookups[k].st = "exhausted" => lookups[k].tried = 0 .. lookups[k].n - 1

\* Since the number of keys changed, the keys that came last were taken once
\* more than the others.
Rounds(t, n, c, m) == [i \in 0 .. n - 1 |-> IF Behind(t, i, n) < m THEN c + 1 ELSE c]
OneMore(f, t, n) == [i \in 0 .. n - 1 |-> f[i] + IF i = Due(t, n) THEN 1 ELSE 0]
TakenInTurn ==
  \A p \in Procs :
    \/ picks[p] = <<>>
    \/ \E n \in Nat \ {0}, c \in Nat : \E m \in 1 .. n : picks[p] = Rounds(turn[p], n, c, m)

RotationInv ==
  /\ LookupTypes /\ picks = [p \in Procs |-> picks[p]]
  /\ TriedInTurn /\ TakenInTurn
-----------------------------------------------------------------------------
LEMMA RemainderOf ==
  ASSUME NEW n \in Nat \ {0}, NEW q \in Int, NEW s \in 0 .. n - 1
  PROVE  (n * q + s) % n = s
<1>. DEFINE a == n * q + s
            d == a \div n
            r == a % n
<1>1. d \in Int /\ r \in 0 .. n - 1 /\ a = n * d + r /\ a \in Int
  OBVIOUS
<1>. HIDE DEF d, r
<1>2. n * d \in Int /\ n * q \in Int
  BY <1>1
<1>. DEFINE u == n * d
            v == n * q
<1>3. u \in Int /\ v \in Int /\ v + s = u + r
  BY <1>1, <1>2
<1>4. u - v = s - r
  <2>. HIDE DEF u, v
  <2>. QED
    BY <1>1, <1>3
<1>. HIDE DEF a
<1>5. CASE d > q
  <2>1. PICK e \in Nat : d = q + 1 + e
    <3>1. d - q - 1 \in Nat /\ d = q + 1 + (d - q - 1)
      BY <1>1, <1>5
    <3>. QED
      BY <3>1
  <2>2. n * d = n * q + n + n * e /\ n * e \in Nat
    BY <2>1
  <2>. QED
    BY <1>1, <1>3, <1>4, <2>2
<1>6. CASE d < q
  <2>1. PICK e \in Nat : q = d + 1 + e
    <3>1. q - d - 1 \in Nat /\ q = d + 1 + (q - d - 1)
      BY <1>1, <1>6
    <3>. QED
      BY <3>1
  <2>2. n * q = n * d + n + n * e /\ n * e \in Nat
    BY <1>1, <2>1
  <2>. QED
    BY <1>1, <1>3, <1>4, <2>2
<1>7. CASE d = q
  BY <1>1, <1>3, <1>4, <1>7 DEF r
<1>. QED
  BY <1>1, <1>5, <1>6, <1>7

LEMMA Remainder ==
  ASSUME NEW n \in Nat \ {0}, NEW a \in Int
  PROVE  /\ a % n \in 0 .. n - 1
         /\ (a + 1) % n = IF a % n = n - 1 THEN 0 ELSE (a % n) + 1
<1>. DEFINE q == a \div n
            r == a % n
<1>1. q \in Int /\ r \in 0 .. n - 1 /\ a = n * q + r
  OBVIOUS
<1>2. n * (q + 1) = n * q + n
  BY <1>1
<1>3. CASE r = n - 1
  <2>1. a + 1 = n * (q + 1)
    BY <1>1, <1>2, <1>3
  <2>2. (n * (q + 1) + 0) % n = 0
    BY <1>1, RemainderOf
  <2>. QED
    BY <1>1, <1>3, <2>1, <2>2
<1>4. CASE r # n - 1
  <2>1. a + 1 = n * q + (r + 1) /\ r + 1 \in 0 .. n - 1
    BY <1>1, <1>4
  <2>2. (n * q + (r + 1)) % n = r + 1
    BY <1>1, <2>1, RemainderOf
  <2>. QED
    BY <1>1, <1>4, <2>1, <2>2
<1>. QED
  BY <1>1, <1>3, <1>4

\* The key that is due is the one that was taken longest ago, and every other
\* is one further behind then.
LEMMA BehindNext ==
  ASSUME NEW n \in Nat \ {0}, NEW t \in Nat, NEW i \in 0 .. n - 1
  PROVE  /\ Behind(t, i, n) \in 0 .. n - 1 /\ Behind(t + 1, i, n) \in 0 .. n - 1
         /\ Due(t, n) \in 0 .. n - 1
         /\ i = Due(t, n) => Behind(t, i, n) = n - 1 /\ Behind(t + 1, i, n) = 0
         /\ i # Due(t, n) => Behind(t + 1, i, n) = Behind(t, i, n) + 1
<1>. DEFINE a == t - 1 - i
            q == t \div n
            p == (t - i) \div n
<1>1. /\ a \in Int
      /\ a % n \in 0 .. n - 1
      /\ (a + 1) % n = IF a % n = n - 1 THEN 0 ELSE (a % n) + 1
  <2>1. a \in Int
    OBVIOUS
  <2>. HIDE DEF a
  <2>. QED
    BY <2>1, Remainder
<1>2. a + 1 = t + 1 - 1 - i /\ a + 1 = t - i
  OBVIOUS
<1>3. Behind(t, i, n) = a % n /\ Behind(t + 1, i, n) = (a + 1) % n
  BY <1>2 DEF Behind
<1>4. Due(t, n) \in 0 .. n - 1 /\ q \in Int /\ t = n * q + Due(t, n)
  BY DEF Due
<1>5. p \in Int /\ t - i = n * p + ((t - i) % n)
  OBVIOUS
<1>6. ASSUME i = Due(t, n) PROVE (t - i) % n = 0
  <2>. HIDE DEF q
  <2>1. n * q \in Int
    BY <1>4
  <2>2. t - i = n * q + 0
    BY <1>4, <1>6, <2>1
  <2>3. (n * q + 0) % n = 0
    BY <1>4, RemainderOf
  <2>. QED
    BY <2>2, <2>3
<1>7. ASSUME (t - i) % n = 0 PROVE i = Due(t, n)
  <2>. HIDE DEF p
  <2>1. n * p \in Int
    BY <1>5
  <2>2. t = n * p + i
    BY <1>5, <1>7, <2>1
  <2>3. (n * p + i) % n = i
    BY <1>5, RemainderOf
  <2>. QED
    BY <2>2, <2>3 DEF Due
<1>8. (a + 1) % n = 0 <=> i = Due(t, n)
  BY <1>2, <1>6, <1>7
<1>. DEFINE x == a % n
            y == (a + 1) % n
<1>9. /\ x \in 0 .. n - 1 /\ (y = 0 <=> i = Due(t, n))
      /\ y = IF x = n - 1 THEN 0 ELSE x + 1
      /\ Behind(t, i, n) = x /\ Behind(t + 1, i, n) = y
  BY <1>1, <1>3, <1>8
<1>. HIDE DEF x, y
<1>. QED
  BY <1>4, <1>9

LEMMA LastKeysGrow ==
  ASSUME NEW n \in Nat \ {0}, NEW t \in Nat, NEW m \in 0 .. n - 1
  PROVE  LastKeys(t + 1, m + 1, n) = LastKeys(t, m, n) \cup {Due(t, n)}
<1>1. Due(t, n) \in 0 .. n - 1
  BY BehindNext
<1>2. ASSUME NEW i \in 0 .. n - 1
      PROVE  Behind(t + 1, i, n) < m + 1 <=> Behind(t, i, n) < m \/ i = Due(t, n)
  <2>. DEFINE x == Behind(t, i, n)
              y == Behind(t + 1, i, n)
  <2>1. /\ x \in 0 .. n - 1
        /\ i = Due(t, n) => x = n - 1 /\ y = 0
        /\ i # Due(t, n) => y = x + 1
    BY BehindNext
  <2>. HIDE DEF x, y
  <2>2. y < m + 1 <=> x < m \/ i = Due(t, n)
    BY <2>1
  <2>. QED
    BY <2>2 DEF x, y
<1>. QED
  BY <1>1, <1>2 DEF LastKeys

LEMMA LastKeysNone ==
  ASSUME NEW n \in Nat \ {0}, NEW t \in Nat
  PROVE  LastKeys(t, 0, n) = {} /\ LastKeys(t, n, n) = 0 .. n - 1
BY BehindNext DEF LastKeys

\* Taking the next key keeps the shape of the counts.
LEMMA RoundsGo ==
  ASSUME NEW n \in Nat \ {0}, NEW t \in Nat, NEW c \in Nat, NEW m \in 1 .. n
  PROVE  \E d \in Nat : \E l \in 1 .. n :
           OneMore(Rounds(t, n, c, m), t, n) = Rounds(t + 1, n, d, l)
<1>. DEFINE f == OneMore(Rounds(t, n, c, m), t, n)
<1>1. CASE m < n
  <2>1. ASSUME NEW i \in 0 .. n - 1
        PROVE  f[i] = Rounds(t + 1, n, c, m + 1)[i]
    <3>1. /\ f[i] = (IF Behind(t, i, n) < m THEN c + 1 ELSE c)
                      + (IF i = Due(t, n) THEN 1 ELSE 0)
          /\ Rounds(t + 1, n, c, m + 1)[i] = IF Behind(t + 1, i, n) < m + 1 THEN c + 1 ELSE c
      BY DEF Rounds, OneMore
    <3>. DEFINE x == Behind(t, i, n)
                y == Behind(t + 1, i, n)
    <3>2. /\ x \in 0 .. n - 1
          /\ i = Due(t, n) => x = n - 1 /\ y = 0
          /\ i # Due(t, n) => y = x + 1
      BY BehindNext
    <3>. HIDE DEF x, y
    <3>3. (IF x < m THEN c + 1 ELSE c) + (IF i = Due(t, n) THEN 1 ELSE 0)
            = IF y < m + 1 THEN c + 1 ELSE c
      BY <1>1, <3>2
    <3>. QED
      BY <3>1, <3>3 DEF x, y
  <2>2. f = Rounds(t + 1, n, c, m + 1)
    BY <2>1 DEF Rounds, OneMore
  <2>. QED
    BY <1>1, <2>2
<1>2. CASE m = n
  <2>1. ASSUME NEW i \in 0 .. n - 1
        PROVE  f[i] = Rounds(t + 1, n, c + 1, 1)[i]
    <3>1. /\ f[i] = (IF Behind(t, i, n) < m THEN c + 1 ELSE c)
                      + (IF i = Due(t, n) THEN 1 ELSE 0)
          /\ Rounds(t + 1, n, c + 1, 1)[i] = IF Behind(t + 1, i, n) < 1 THEN c + 2 ELSE c + 1
      BY DEF Rounds, OneMore
    <3>. DEFINE x == Behind(t, i, n)
                y == Behind(t + 1, i, n)
    <3>2. /\ x \in 0 .. n - 1 /\ y \in 0 .. n - 1
          /\ i = Due(t, n) => x = n - 1 /\ y = 0
          /\ i # Due(t, n) => y = x + 1
      BY BehindNext
    <3>. HIDE DEF x, y
    <3>3. (IF x < m THEN c + 1 ELSE c) + (IF i = Due(t, n) THEN 1 ELSE 0)
            = IF y < 1 THEN c + 2 ELSE c + 1
      BY <1>2, <3>2
    <3>. QED
      BY <3>1, <3>3 DEF x, y
  <2>2. f = Rounds(t + 1, n, c + 1, 1)
    BY <2>1 DEF Rounds, OneMore
  <2>. QED
    BY <2>2
<1>. QED
  BY <1>1, <1>2

LEMMA RoundsStart ==
  ASSUME NEW n \in Nat \ {0}, NEW t \in Nat
  PROVE  OneMore([i \in 0 .. n - 1 |-> 0], t, n) = Rounds(t + 1, n, 0, 1)
<1>1. ASSUME NEW i \in 0 .. n - 1
      PROVE  Behind(t + 1, i, n) < 1 <=> i = Due(t, n)
  <2>. DEFINE x == Behind(t, i, n)
              y == Behind(t + 1, i, n)
  <2>1. /\ x \in 0 .. n - 1
        /\ i = Due(t, n) => x = n - 1 /\ y = 0
        /\ i # Due(t, n) => y = x + 1
    BY BehindNext
  <2>. HIDE DEF x, y
  <2>2. y < 1 <=> i = Due(t, n)
    BY <2>1
  <2>. QED
    BY <2>2 DEF x, y
<1>. QED
  BY <1>1 DEF Rounds, OneMore
-----------------------------------------------------------------------------
LEMMA LookupStates ==
  /\ Idle.st = "idle"
  /\ \A x \in AskingKey : /\ x.st \in {"asked", "exhausted"} /\ x.n \in Nat \ {0} /\ x.left \in Nat
                       /\ x.tried \in SUBSET Nat /\ x.alone \in BOOLEAN
BY DEF Idle, AskingKey

LEMMA AskingOf ==
  ASSUME LookupTypes, NEW k \in Lookups, lookups[k].st # "idle"
  PROVE  lookups[k] \in AskingKey
BY LookupStates DEF LookupTypes

LEMMA TakeKeyKeeps ==
  ASSUME RotationInv, NEW k \in Lookups, NEW n \in Nat \ {0}, NEW left \in Nat \ {0},
         NEW tried \in SUBSET Nat, NEW alone \in BOOLEAN,
         TakeKey(k, n, left, tried, alone),
         alone => left <= n /\ tried = LastKeys(turn[LookupIn[k]], n - left, n)
  PROVE  RotationInv'
<1>. DEFINE p == LookupIn[k]
            t == turn[p]
            key == Due(t, n)
            x == [st |-> "asked", n |-> n, left |-> left - 1, tried |-> tried \cup {key},
                  alone |-> alone]
<1>1. p \in Procs
  BY DEF Procs
<1>2. t \in Nat /\ key \in 0 .. n - 1
  BY <1>1 DEF RotationInv, LookupTypes, Due
<1>3. /\ turn' = [turn EXCEPT ![p] = t + 1]
      /\ picks' = [picks EXCEPT ![p] = Counted(p, key, n)]
      /\ lookups' = [o \in Lookups |->
           IF o = k THEN x
           ELSE IF lookups[o].st = "asked" /\ LookupIn[o] = p
                THEN [lookups[o] EXCEPT !.alone = FALSE] ELSE lookups[o]]
  BY DEF TakeKey, Advanced, Due
<1>4. x \in AskingKey /\ x.st = "asked" /\ x.n = n /\ x.left = left - 1 /\ x.alone = alone
      /\ x.tried = tried \cup {key}
  <2>. HIDE DEF key
  <2>1. key \in Nat
    BY <1>2
  <2>2. tried \cup {key} \in SUBSET Nat
    BY <2>1
  <2>3. left - 1 \in Nat
    OBVIOUS
  <2>4. x \in AskingKey
    BY <2>2, <2>3 DEF AskingKey
  <2>. QED
    BY <2>4
<1>. HIDE DEF x
<1>5. \A y \in AskingKey : /\ [y EXCEPT !.alone = FALSE] \in AskingKey
                        /\ ~[y EXCEPT !.alone = FALSE].alone
  BY DEF AskingKey
<1>6. ASSUME NEW o \in Lookups \ {k}
      PROVE  /\ lookups'[o] \in {Idle} \cup AskingKey
             /\ lookups'[o] # lookups[o] => lookups'[o] \in AskingKey /\ ~lookups'[o].alone
             /\ lookups'[o] = lookups[o] =>
                  lookups[o].st # "asked" \/ LookupIn[o] # p \/ ~lookups[o].alone
  <2>1. CASE lookups[o].st = "asked" /\ LookupIn[o] = p
    <3>1. lookups[o] \in AskingKey
      BY <2>1, AskingOf DEF RotationInv
    <3>2. lookups'[o] = [lookups[o] EXCEPT !.alone = FALSE]
      BY <1>3, <2>1
    <3>3. lookups'[o] \in AskingKey /\ ~lookups'[o].alone
      BY <1>5, <3>1, <3>2
    <3>. QED
      BY <3>3
  <2>2. CASE ~(lookups[o].st = "asked" /\ LookupIn[o] = p)
    BY <1>3, <2>2 DEF RotationInv, LookupTypes
  <2>. QED
    BY <2>1, <2>2
<1>7. turn' \in [Procs -> Nat] /\ turn'[p] = t + 1 /\ \A q \in Procs \ {p} : turn'[q] = turn[q]
  BY <1>1, <1>2, <1>3 DEF RotationInv, LookupTypes
<1>8. LookupTypes'
  BY <1>3, <1>4, <1>6, <1>7 DEF LookupTypes
<1>9. TriedInTurn'
  <2>. SUFFICES ASSUME NEW o \in Lookups, lookups'[o].st # "idle", lookups'[o].alone
                PROVE  /\ lookups'[o].left < lookups'[o].n
                       /\ lookups'[o].st = "asked" =>
                            lookups'[o].tried =
                              LastKeys(turn'[LookupIn[o]], lookups'[o].n - lookups'[o].left,
                                       lookups'[o].n)
                       /\ lookups'[o].st = "exhausted" =>
                            lookups'[o].tried = 0 .. lookups'[o].n - 1
    BY DEF TriedInTurn
  <2>1. CASE o = k
    <3>1. lookups'[o] = x /\ alone
      BY <1>3, <1>4, <2>1
    <3>2. LastKeys(t + 1, (n - left) + 1, n) = LastKeys(t, n - left, n) \cup {key}
      <4>1. n - left \in 0 .. n - 1
        BY <3>1
      <4>. QED
        BY <1>2, <4>1, LastKeysGrow
    <3>3. (n - left) + 1 = n - (left - 1) /\ left - 1 < n
      BY <3>1
    <3>4. turn'[LookupIn[o]] = t + 1
      BY <1>7, <2>1
    <3>5. x.tried = LastKeys(t + 1, n - (left - 1), n)
      BY <1>4, <3>1, <3>2, <3>3
    <3>. QED
      BY <1>4, <3>1, <3>3, <3>4, <3>5
  <2>2. CASE o # k
    <3>1. lookups'[o] = lookups[o]
      BY <1>6, <2>2
    <3>2. lookups[o].st = "asked" => LookupIn[o] # p
      BY <1>6, <2>2, <3>1
    <3>3. lookups[o].st = "asked" => turn'[LookupIn[o]] = turn[LookupIn[o]]
      BY <1>7, <3>2 DEF Procs
    <3>4. /\ lookups[o].left < lookups[o].n
          /\ lookups[o].st = "asked" =>
               lookups[o].tried =
                 LastKeys(turn[LookupIn[o]], lookups[o].n - lookups[o].left, lookups[o].n)
          /\ lookups[o].st = "exhausted" => lookups[o].tried = 0 .. lookups[o].n - 1
      BY <3>1 DEF RotationInv, TriedInTurn
    <3>. QED
      BY <3>1, <3>3, <3>4
  <2>. QED
    BY <2>1, <2>2
<1>10. picks'[p] = Counted(p, key, n) /\ \A q \in Procs \ {p} : picks'[q] = picks[q]
  BY <1>1, <1>3 DEF RotationInv
<1>11. \E c \in Nat : \E m \in 1 .. n : Counted(p, key, n) = Rounds(t + 1, n, c, m)
  <2>1. CASE DOMAIN picks[p] = 0 .. n - 1
    <3>1. picks[p] # <<>>
      BY <2>1
    <3>2. PICK n0 \in Nat \ {0}, c \in Nat : \E m \in 1 .. n0 : picks[p] = Rounds(t, n0, c, m)
      BY <1>1, <3>1 DEF RotationInv, TakenInTurn
    <3>3. PICK m \in 1 .. n0 : picks[p] = Rounds(t, n0, c, m)
      BY <3>2
    <3>4. 0 .. n0 - 1 = 0 .. n - 1
      BY <2>1, <3>3 DEF Rounds
    <3>5. n0 = n
      <4>1. n0 - 1 \in 0 .. n - 1 /\ n - 1 \in 0 .. n0 - 1
        BY <3>4
      <4>. QED
        BY <4>1
    <3>6. Counted(p, key, n) = OneMore(Rounds(t, n, c, m), t, n)
      BY <2>1, <3>3, <3>5 DEF Counted, OneMore
    <3>7. m \in 1 .. n
      BY <3>5
    <3>. DEFINE f == Counted(p, key, n)
    <3>. HIDE DEF t, f
    <3>8. \E d \in Nat : \E l \in 1 .. n : f = Rounds(t + 1, n, d, l)
      <4>1. f = OneMore(Rounds(t, n, c, m), t, n)
        BY <3>6 DEF f
      <4>2. \E d \in Nat : \E l \in 1 .. n :
              OneMore(Rounds(t, n, c, m), t, n) = Rounds(t + 1, n, d, l)
        <5>. PICK u \in Nat : u = t
          BY <1>2
        <5>. PICK size \in Nat \ {0} : size = n
          BY <1>2
        <5>. PICK last \in 1 .. size : last = m
          BY <3>7
        <5>1. \E d \in Nat : \E l \in 1 .. size :
                OneMore(Rounds(u, size, c, last), u, size) = Rounds(u + 1, size, d, l)
          BY ONLY u \in Nat, size \in Nat \ {0}, c \in Nat, last \in 1 .. size, RoundsGo, ZenonT(60)
        <5>. QED
          BY <5>1
      <4>. QED
        BY <4>1, <4>2
    <3>. QED
      BY <3>8 DEF f
  <2>2. CASE DOMAIN picks[p] # 0 .. n - 1
    <3>1. Counted(p, key, n) = OneMore([i \in 0 .. n - 1 |-> 0], t, n)
      BY <2>2 DEF Counted, OneMore
    <3>2. Counted(p, key, n) = Rounds(t + 1, n, 0, 1)
      BY <1>2, <3>1, RoundsStart
    <3>. QED
      BY <3>2
  <2>. QED
    BY <2>1, <2>2
<1>12. TakenInTurn'
  <2>. SUFFICES ASSUME NEW q \in Procs
                PROVE  \/ picks'[q] = <<>>
                       \/ \E l \in Nat \ {0}, c \in Nat :
                            \E m \in 1 .. l : picks'[q] = Rounds(turn'[q], l, c, m)
    BY DEF TakenInTurn
  <2>1. CASE q = p
    <3>1. \E c \in Nat : \E m \in 1 .. n : picks'[q] = Rounds(turn'[q], n, c, m)
      BY <1>7, <1>10, <1>11, <2>1
    <3>. QED
      BY <3>1
  <2>2. CASE q # p
    BY <1>7, <1>10, <2>2 DEF RotationInv, TakenInTurn
  <2>. QED
    BY <2>1, <2>2
<1>13. (picks = [q \in Procs |-> picks[q]])'
  BY <1>3 DEF RotationInv
<1>. QED
  BY <1>8, <1>9, <1>12, <1>13 DEF RotationInv

\* A lookup ends, or says that all keys are exhausted; nothing else moves.
LEMMA LookupEnds ==
  ASSUME RotationInv, NEW k \in Lookups, NEW x,
         UNCHANGED <<turn, picks>>, lookups' = [lookups EXCEPT ![k] = x],
         \/ x = Idle
         \/ /\ x \in AskingKey /\ x.st = "exhausted"
            /\ x.alone => x.left < x.n /\ x.tried = 0 .. x.n - 1
  PROVE  RotationInv'
<1>1. LookupTypes'
  BY DEF RotationInv, LookupTypes
<1>2. TakenInTurn' /\ (picks = [q \in Procs |-> picks[q]])'
  BY DEF RotationInv, TakenInTurn
<1>3. ASSUME NEW o \in Lookups, lookups'[o].st # "idle", lookups'[o].alone
      PROVE  /\ lookups'[o].left < lookups'[o].n
             /\ lookups'[o].st = "asked" =>
                  lookups'[o].tried =
                    LastKeys(turn[LookupIn[o]], lookups'[o].n - lookups'[o].left, lookups'[o].n)
             /\ lookups'[o].st = "exhausted" => lookups'[o].tried = 0 .. lookups'[o].n - 1
  <2>1. CASE o = k
    <3>1. lookups'[o] = x
      BY <2>1 DEF RotationInv, LookupTypes
    <3>2. x # Idle
      BY <1>3, <3>1, LookupStates
    <3>. QED
      BY <1>3, <3>1, <3>2
  <2>2. CASE o # k
    <3>1. lookups'[o] = lookups[o]
      BY <2>2 DEF RotationInv, LookupTypes
    <3>. QED
      BY <1>3, <3>1 DEF RotationInv, TriedInTurn
  <2>. QED
    BY <2>1, <2>2
<1>4. TriedInTurn'
  BY <1>3 DEF TriedInTurn
<1>. QED
  BY <1>1, <1>2, <1>4 DEF RotationInv

LEMMA StartLookupKeeps ==
  ASSUME CacheInv, RotationInv, NEW k \in Lookups, StartLookup(k)
  PROVE  RotationInv'
<1>. DEFINE p == LookupIn[k]
            n == KeyCount(p)
<1>1. p \in Procs
  BY DEF Procs
<1>2. n \in Nat \ {0}
  BY <1>1, CredentialAssumption DEF StartLookup, KeyCount, CacheInv, CredentialTypes
<1>3. TakeKey(k, n, n, {}, Alone(k))
  BY DEF StartLookup
<1>4. Alone(k) \in BOOLEAN
  BY DEF Alone
<1>. HIDE DEF n
<1>5. LastKeys(turn[p], n - n, n) = {}
  BY <1>1, <1>2, LastKeysNone DEF RotationInv, LookupTypes
<1>6. n <= n /\ {} = LastKeys(turn[LookupIn[k]], n - n, n) /\ {} \in SUBSET Nat
  BY <1>2, <1>5
<1>. HIDE DEF p
<1>. QED
  BY <1>2, <1>3, <1>4, <1>6, TakeKeyKeeps

LEMMA KeySpentKeeps ==
  ASSUME RotationInv, NEW k \in Lookups, KeySpent(k)
  PROVE  RotationInv'
<1>. DEFINE x == lookups[k]
            t == turn[LookupIn[k]]
<1>1. x \in AskingKey /\ x.st = "asked"
  BY AskingOf DEF KeySpent, RotationInv
<1>2. x.alone => x.left < x.n /\ x.tried = LastKeys(t, x.n - x.left, x.n)
  BY <1>1 DEF RotationInv, TriedInTurn
<1>3. t \in Nat
  BY DEF RotationInv, LookupTypes, Procs
<1>4. CASE x.left > 0
  <2>1. TakeKey(k, x.n, x.left, x.tried, x.alone)
    BY <1>4 DEF KeySpent
  <2>2. /\ x.n \in Nat \ {0} /\ x.left \in Nat \ {0} /\ x.tried \in SUBSET Nat
        /\ x.alone \in BOOLEAN
    BY <1>1, <1>4, LookupStates
  <2>3. x.alone => x.left <= x.n /\ x.tried = LastKeys(t, x.n - x.left, x.n)
    BY <1>2, <2>2
  <2>. QED
    BY <2>1, <2>2, <2>3, TakeKeyKeeps
<1>5. CASE ~(x.left > 0)
  <2>1. x.left = 0 /\ x.n \in Nat \ {0}
    BY <1>1, <1>5, LookupStates
  <2>2. x.alone => x.tried = 0 .. x.n - 1
    <3>1. LastKeys(t, x.n, x.n) = 0 .. x.n - 1
      BY <1>3, <2>1, LastKeysNone
    <3>2. x.n - x.left = x.n
      BY <2>1
    <3>. QED
      BY <1>2, <3>1, <3>2
  <2>. DEFINE y == [x EXCEPT !.st = "exhausted"]
  <2>3. /\ y \in AskingKey /\ y.st = "exhausted" /\ y.alone = x.alone /\ y.left = x.left
        /\ y.n = x.n /\ y.tried = x.tried
    BY <1>1 DEF AskingKey
  <2>4. lookups' = [lookups EXCEPT ![k] = y] /\ UNCHANGED <<turn, picks>>
    BY <1>5 DEF KeySpent
  <2>5. y.alone => y.left < y.n /\ y.tried = 0 .. y.n - 1
    BY <1>2, <2>2, <2>3
  <2>. HIDE DEF y
  <2>. QED
    BY <2>3, <2>4, <2>5, LookupEnds
<1>. QED
  BY <1>4, <1>5

LEMMA DeathKeepsRotation ==
  ASSUME RotationInv, NEW p \in Procs, ProcessDies(p)
  PROVE  RotationInv'
<1>1. /\ turn' = [turn EXCEPT ![p] = 0]
      /\ lookups' = [k \in Lookups |-> IF LookupIn[k] = p THEN Idle ELSE lookups[k]]
      /\ picks' = [picks EXCEPT ![p] = <<>>]
  BY DEF ProcessDies
<1>2. LookupTypes' /\ (picks = [q \in Procs |-> picks[q]])'
  BY <1>1 DEF RotationInv, LookupTypes
<1>3. \A q \in Procs : IF q = p THEN picks'[q] = <<>>
                       ELSE picks'[q] = picks[q] /\ turn'[q] = turn[q]
  BY <1>1 DEF RotationInv, LookupTypes
<1>4. TakenInTurn'
  BY <1>3 DEF RotationInv, TakenInTurn
<1>5. \A k \in Lookups : lookups'[k].st # "idle" =>
        lookups'[k] = lookups[k] /\ turn'[LookupIn[k]] = turn[LookupIn[k]]
  <2>. SUFFICES ASSUME NEW k \in Lookups, lookups'[k].st # "idle"
                PROVE  lookups'[k] = lookups[k] /\ turn'[LookupIn[k]] = turn[LookupIn[k]]
    OBVIOUS
  <2>1. LookupIn[k] # p
    BY <1>1, LookupStates
  <2>. QED
    BY <1>1, <2>1 DEF RotationInv, LookupTypes, Procs
<1>6. TriedInTurn'
  BY <1>5 DEF RotationInv, TriedInTurn
<1>. QED
  BY <1>2, <1>4, <1>6 DEF RotationInv

LEMMA RotationStep ==
  ASSUME CacheInv, RotationInv, [CredentialNext]_credentialVars
  PROVE  RotationInv'
<1>1. ASSUME UNCHANGED <<turn, lookups, picks>> PROVE RotationInv'
  BY <1>1 DEF RotationInv, LookupTypes, TriedInTurn, TakenInTurn
<1>2. ASSUME NEW l \in Loads,
             \/ \E v \in Secrets : FindCredential(l, v)
             \/ WriteCredential(l) \/ ClearCredential(l) \/ LoadStep(l) \/ LoadFails(l)
      PROVE  RotationInv'
  BY <1>1, <1>2 DEF FindCredential, WriteCredential, ClearCredential, LoadStep,
                    ReadCredentials, StoreCache, LoadFails
<1>3. ASSUME NEW k \in Lookups, KeyAnswers(k) PROVE RotationInv'
  <2>1. UNCHANGED <<turn, picks>> /\ lookups' = [lookups EXCEPT ![k] = Idle]
    BY <1>3 DEF KeyAnswers
  <2>. QED
    BY <2>1, LookupEnds
<1>4. CASE UNCHANGED credentialVars
  BY <1>1, <1>4 DEF credentialVars
<1>. QED
  BY <1>2, <1>3, <1>4, StartLookupKeeps, KeySpentKeeps, DeathKeepsRotation DEF CredentialNext

\* Whatever lookups, answers, changes of the keys and crashes come in between,
\* a lookup that had the index of its process to itself gives up only after it
\* tried every key, and no key is taken more than once more than another while
\* their number stays (lookup in src/lib/enrichment/providers/abuseipdb.ts).
THEOREM RotationIsEven == CredentialSpec => []KeysRotate
<1>1. CredentialInit => CacheInv /\ RotationInv
  <2>1. CredentialInit => RotationInv
    BY LookupStates DEF CredentialInit, RotationInv, LookupTypes, TriedInTurn, TakenInTurn
  <2>. QED
    BY <2>1, CacheStart
<1>2. CacheInv /\ RotationInv /\ [CredentialNext]_credentialVars => CacheInv' /\ RotationInv'
  BY CredentialStep, RotationStep
<1>3. RotationInv => KeysRotate
  <2>. SUFFICES ASSUME RotationInv PROVE KeysRotate
    OBVIOUS
  <2>1. AllKeysTried
    BY DEF RotationInv, TriedInTurn, AllKeysTried
  <2>2. ASSUME NEW p \in Procs, NEW i \in DOMAIN picks[p], NEW j \in DOMAIN picks[p]
        PROVE  picks[p][i] <= picks[p][j] + 1
    <3>1. CASE picks[p] = <<>>
      BY <3>1
    <3>2. CASE \E n \in Nat \ {0}, c \in Nat : \E m \in 1 .. n :
                 picks[p] = Rounds(turn[p], n, c, m)
      <4>1. PICK n \in Nat \ {0}, c \in Nat : \E m \in 1 .. n :
                   picks[p] = Rounds(turn[p], n, c, m)
        BY <3>2
      <4>2. PICK m \in 1 .. n : picks[p] = Rounds(turn[p], n, c, m)
        BY <4>1
      <4>3. picks[p][i] \in {c, c + 1} /\ picks[p][j] \in {c, c + 1}
        BY <4>2 DEF Rounds
      <4>. QED
        BY <4>3
    <3>. QED
      BY <3>1, <3>2 DEF RotationInv, TakenInTurn
  <2>. QED
    BY <2>1, <2>2 DEF KeysRotate, LoadSpreads
<1>. QED
  BY <1>1, <1>2, <1>3, PTL DEF CredentialSpec
-----------------------------------------------------------------------------
(* Accounts.  A session outlives a change of password only where a login or  *)
(* the change itself was under way: those are excused, and the invariant     *)
(* says which actions in progress have to be.                                *)

\* The accounts in a system whose other parts share only the clock and the upsets.
AccountsElsewhere == (Pass \/ Upset) /\ UNCHANGED accountVars
AccountSpec ==
  /\ EnvironmentInit /\ AccountInit
  /\ [][AccountNext \/ AccountsElsewhere]_<<environment, accountVars>>

Passwords == {0} \cup Changes
OpenSession == [at : Int, until : Int, with : Passwords]
LoginCreated == [st : {"create"}, with : Passwords]
Begun == [st : {"verify", "resolve", "revoke", "write", "denied", "changed"}, by : Logins]

AccountTypes ==
  /\ active \in BOOLEAN
  /\ password \in Passwords
  /\ sessions \in [Logins -> {NoSession} \cup OpenSession]
  /\ logins \in [Logins -> {Asked} \cup LoginCreated \cup [st : {"in"}]]
  /\ changes \in [Changes -> {Asked} \cup Begun]

\* A login that has checked a password is excused when a change is under way,
\* and when the password is another one by now.
LoginsExcused ==
  \A x \in Logins : logins[x].st = "create" =>
    /\ Changing # {} => x \in excused
    /\ logins[x].with # password => x \in excused

\* A change that is about to revoke has excused its own session; one that is
\* about to write has left no session that is not excused.
ChangesExcused ==
  \A c \in Changes :
    /\ changes[c].st = "revoke" => changes[c].by \in excused
    /\ changes[c].st = "write" => \A x \in Logins : sessions[x] # NoSession => x \in excused

AccountInv == AccountTypes /\ LoginsExcused /\ ChangesExcused /\ OldSessionsGone
-----------------------------------------------------------------------------
LEMMA AccountStates ==
  /\ Asked.st = "asked"
  /\ \A x \in LoginCreated : x.st = "create" /\ x.with \in Passwords
  /\ \A x \in [st : {"in"}] : x.st = "in"
  /\ \A c \in Begun : /\ c.by \in Logins
                      /\ c.st \in {"verify", "resolve", "revoke", "write", "denied", "changed"}
  /\ \A s \in OpenSession : s.with \in Passwords
BY DEF Asked, LoginCreated, Begun, OpenSession

\* A step that opens no session, begins no change and leaves the logins and
\* the password alone: sessions end, changes end or go on.
SessionsEnd ==
  /\ AccountTypes'
  /\ UNCHANGED <<password, logins>>
  /\ excused \subseteq excused'
  /\ \A x \in Logins : sessions'[x] = sessions[x] \/ sessions'[x] = NoSession
  /\ Changing' \subseteq Changing
  /\ \A c \in Changes :
       /\ changes'[c].st = "revoke" => changes'[c].by \in excused'
       /\ changes'[c].st = "write" =>
            \/ changes[c].st = "write"
            \/ \A x \in Logins : sessions'[x] # NoSession => x \in excused'

LEMMA EndsKeep ==
  ASSUME AccountInv, SessionsEnd
  PROVE  AccountInv'
<1>1. LoginsExcused'
  BY DEF AccountInv, LoginsExcused, SessionsEnd
<1>2. ChangesExcused'
  BY DEF AccountInv, ChangesExcused, SessionsEnd
<1>3. OldSessionsGone'
  BY DEF AccountInv, OldSessionsGone, SessionsEnd
<1>. QED
  BY <1>1, <1>2, <1>3 DEF SessionsEnd, AccountInv

LEMMA AccountStart == AccountInit => AccountInv
<1>. SUFFICES ASSUME AccountInit PROVE AccountInv
  OBVIOUS
<1>1. AccountTypes
  BY DEF AccountInit, AccountTypes, Passwords
<1>2. LoginsExcused /\ ChangesExcused /\ OldSessionsGone
  BY AccountStates DEF AccountInit, LoginsExcused, ChangesExcused, OldSessionsGone
<1>. QED
  BY <1>1, <1>2 DEF AccountInv

LEMMA CheckPasswordKeeps ==
  ASSUME AccountInv, NEW x \in Logins, CheckPassword(x)
  PROVE  AccountInv'
<1>. DEFINE r == [st |-> "create", with |-> password]
<1>1. r \in LoginCreated
  BY DEF AccountInv, AccountTypes, LoginCreated
<1>2. /\ logins' = [logins EXCEPT ![x] = r]
      /\ excused' = IF Changing # {} THEN excused \cup {x} ELSE excused
      /\ UNCHANGED <<active, password, sessions, changes>>
  BY DEF CheckPassword
<1>3. AccountTypes'
  BY <1>1, <1>2 DEF AccountInv, AccountTypes
<1>4. Changing' = Changing /\ excused \subseteq excused'
  BY <1>2 DEF Changing
<1>5. LoginsExcused'
  <2>. SUFFICES ASSUME NEW y \in Logins, (logins[y].st = "create")'
                PROVE  /\ (Changing # {} => y \in excused)'
                       /\ (logins[y].with # password => y \in excused)'
    BY DEF LoginsExcused
  <2>1. CASE y = x
    BY <1>2, <1>4, <2>1 DEF AccountInv, AccountTypes
  <2>2. CASE y # x
    <3>1. logins'[y] = logins[y]
      BY <1>2, <2>2 DEF AccountInv, AccountTypes
    <3>. QED
      BY <1>2, <1>4, <3>1 DEF AccountInv, LoginsExcused
  <2>. QED
    BY <2>1, <2>2
<1>6. ChangesExcused' /\ OldSessionsGone'
  BY <1>2, <1>4 DEF AccountInv, ChangesExcused, OldSessionsGone
<1>. QED
  BY <1>3, <1>5, <1>6 DEF AccountInv

LEMMA CreateSessionKeeps ==
  ASSUME AccountInv, EnvironmentTypeOK, NEW x \in Logins, CreateSession(x)
  PROVE  AccountInv'
<1>. DEFINE s == [at |-> clock, until |-> clock + SessionTtl, with |-> logins[x].with]
<1>1. logins[x] \in LoginCreated /\ logins[x].st = "create"
  BY AccountStates DEF AccountInv, AccountTypes, CreateSession
<1>2. s \in OpenSession
  BY <1>1, AccountStates, AccountAssumption DEF OpenSession, EnvironmentTypeOK
<1>3. /\ sessions' = [sessions EXCEPT ![x] = s]
      /\ logins' = [logins EXCEPT ![x] = [st |-> "in"]]
      /\ UNCHANGED <<active, password, changes, excused>>
  BY DEF CreateSession
<1>4. AccountTypes'
  BY <1>2, <1>3 DEF AccountInv, AccountTypes
<1>5. Changing' = Changing
  BY <1>3 DEF Changing
<1>6. LoginsExcused'
  BY <1>3, <1>5 DEF AccountInv, AccountTypes, LoginsExcused
<1>7. Changing # {} => x \in excused
  BY <1>1 DEF AccountInv, LoginsExcused
<1>8. ChangesExcused'
  <2>. SUFFICES ASSUME NEW c \in Changes
                PROVE  /\ (changes[c].st = "revoke" => changes[c].by \in excused)'
                       /\ (changes[c].st = "write" =>
                            \A y \in Logins : sessions[y] # NoSession => y \in excused)'
    BY DEF ChangesExcused
  <2>1. changes[c].st = "write" => x \in excused
    BY <1>7 DEF Changing
  <2>. QED
    BY <1>3, <2>1 DEF AccountInv, AccountTypes, ChangesExcused
<1>9. OldSessionsGone'
  <2>1. s.with # password => x \in excused
    BY <1>1 DEF AccountInv, LoginsExcused
  <2>. HIDE DEF s
  <2>. QED
    BY <1>3, <2>1 DEF AccountInv, AccountTypes, OldSessionsGone
<1>. QED
  BY <1>4, <1>6, <1>8, <1>9 DEF AccountInv

LEMMA SessionEndsKeep ==
  ASSUME AccountInv, NEW x \in Logins, Resolve(x) \/ Logout(x)
  PROVE  AccountInv'
<1>1. /\ sessions' = [sessions EXCEPT ![x] = NoSession]
      /\ UNCHANGED <<active, password, logins, changes, excused>>
  BY DEF Resolve, Logout
<1>2. AccountTypes'
  BY <1>1 DEF AccountInv, AccountTypes
<1>3. \A y \in Logins : sessions'[y] = sessions[y] \/ sessions'[y] = NoSession
  BY <1>1 DEF AccountInv, AccountTypes
<1>4. SessionsEnd
  BY <1>1, <1>2, <1>3 DEF SessionsEnd, Changing, AccountInv, ChangesExcused
<1>. QED
  BY <1>4, EndsKeep

\* The change c goes from one state to another, nothing else moves.
LEMMA ChangeMoves ==
  ASSUME AccountInv, NEW c \in Changes, changes[c] # Asked, NEW to,
         to \in {"verify", "resolve", "revoke", "write", "denied", "changed"},
         changes' = [changes EXCEPT ![c].st = to]
  PROVE  /\ changes' \in [Changes -> {Asked} \cup Begun]
         /\ changes'[c].st = to /\ changes'[c].by = changes[c].by
         /\ \A o \in Changes \ {c} : changes'[o] = changes[o]
<1>1. changes[c] \in Begun
  BY DEF AccountInv, AccountTypes
<1>. DEFINE r == [changes[c] EXCEPT !.st = to]
<1>2. r \in Begun /\ r.st = to /\ r.by = changes[c].by
  BY <1>1 DEF Begun
<1>3. changes' = [changes EXCEPT ![c] = r]
  OBVIOUS
<1>. HIDE DEF r
<1>. QED
  BY <1>2, <1>3 DEF AccountInv, AccountTypes

LEMMA BeginChangeKeeps ==
  ASSUME AccountInv, NEW c \in Changes, NEW x \in Logins, BeginChange(c, x)
  PROVE  AccountInv'
<1>. DEFINE r == [st |-> "verify", by |-> x]
<1>1. r \in Begun /\ r.st = "verify"
  BY DEF Begun
<1>2. /\ changes' = [changes EXCEPT ![c] = r]
      /\ excused' = excused \cup LoggingIn
      /\ UNCHANGED <<active, password, sessions, logins>>
  BY DEF BeginChange
<1>. HIDE DEF r
<1>3. AccountTypes'
  BY <1>1, <1>2 DEF AccountInv, AccountTypes
<1>4. LoginsExcused'
  BY <1>2 DEF LoginsExcused, LoggingIn
<1>5. ChangesExcused'
  BY <1>1, <1>2 DEF AccountInv, AccountTypes, ChangesExcused
<1>6. OldSessionsGone'
  BY <1>2 DEF AccountInv, OldSessionsGone
<1>. QED
  BY <1>3, <1>4, <1>5, <1>6 DEF AccountInv

LEMMA VerifyKeeps ==
  ASSUME AccountInv, NEW c \in Changes, NEW right \in BOOLEAN, VerifyCurrent(c, right)
  PROVE  AccountInv'
<1>. DEFINE to == IF right THEN "resolve" ELSE "denied"
<1>1. /\ changes' = [changes EXCEPT ![c].st = to]
      /\ changes[c].st = "verify"
      /\ UNCHANGED <<active, password, sessions, logins, excused>>
  BY DEF VerifyCurrent
<1>2. changes[c] # Asked
  BY <1>1, AccountStates
<1>3. to \in {"resolve", "denied"}
  OBVIOUS
<1>. HIDE DEF to
<1>4. /\ changes' \in [Changes -> {Asked} \cup Begun]
      /\ changes'[c].st = to /\ changes'[c].by = changes[c].by
      /\ \A o \in Changes \ {c} : changes'[o] = changes[o]
  BY <1>1, <1>2, <1>3, ChangeMoves
<1>5. AccountTypes'
  BY <1>1, <1>4 DEF AccountInv, AccountTypes
<1>6. Changing' \subseteq Changing
  BY <1>1, <1>3, <1>4 DEF Changing
<1>7. SessionsEnd
  BY <1>1, <1>3, <1>4, <1>5, <1>6 DEF SessionsEnd, AccountInv, ChangesExcused
<1>. QED
  BY <1>7, EndsKeep

LEMMA ResolveAgainKeeps ==
  ASSUME AccountInv, NEW c \in Changes, ResolveAgain(c)
  PROVE  AccountInv'
<1>. DEFINE x == changes[c].by
            to == IF Live(x) THEN "revoke" ELSE "write"
<1>1. /\ changes[c].st = "resolve"
      /\ changes' = [changes EXCEPT ![c].st = to]
      /\ excused' = IF Live(x) THEN excused \cup {x} ELSE Logins
      /\ sessions' = IF sessions[x] # NoSession /\ sessions[x].until < clock
                     THEN [sessions EXCEPT ![x] = NoSession] ELSE sessions
      /\ UNCHANGED <<active, password, logins>>
  BY DEF ResolveAgain
<1>2. changes[c] \in Begun /\ changes[c] # Asked
  BY <1>1, AccountStates DEF AccountInv, AccountTypes
<1>3. x \in Logins
  BY <1>2, AccountStates
<1>4. /\ to \in {"revoke", "write"}
      /\ to = "revoke" => x \in excused'
      /\ to = "write" => excused' = Logins
      /\ excused' = excused \cup {x} \/ excused' = Logins
  BY <1>1
<1>5. sessions' \in [Logins -> {NoSession} \cup OpenSession]
      /\ \A y \in Logins : sessions'[y] = sessions[y] \/ sessions'[y] = NoSession
  BY <1>1, <1>3 DEF AccountInv, AccountTypes
<1>. HIDE DEF to
<1>6. /\ changes' \in [Changes -> {Asked} \cup Begun]
      /\ changes'[c].st = to /\ changes'[c].by = x
      /\ \A o \in Changes \ {c} : changes'[o] = changes[o]
  BY <1>1, <1>2, <1>4, ChangeMoves
<1>. HIDE DEF x
<1>7. AccountTypes'
  BY <1>1, <1>5, <1>6 DEF AccountInv, AccountTypes
<1>8. Changing' \subseteq Changing
  BY <1>1, <1>6 DEF Changing
<1>9. LoginsExcused'
  BY <1>1, <1>4, <1>8 DEF AccountInv, LoginsExcused
<1>10. ChangesExcused'
  <2>. SUFFICES ASSUME NEW o \in Changes
                PROVE  /\ (changes[o].st = "revoke" => changes[o].by \in excused)'
                       /\ (changes[o].st = "write" =>
                            \A y \in Logins : sessions[y] # NoSession => y \in excused)'
    BY DEF ChangesExcused
  <2>1. CASE o = c
    BY <1>4, <1>6, <2>1
  <2>2. CASE o # c
    <3>1. changes'[o] = changes[o]
      BY <1>6, <2>2
    <3>2. \A y \in Logins : y \in excused => y \in excused'
      BY <1>4
    <3>3. changes'[o].st = "revoke" => changes'[o].by \in Logins
      BY <1>6, AccountStates
    <3>. QED
      BY <1>5, <3>1, <3>2, <3>3 DEF AccountInv, ChangesExcused
  <2>. QED
    BY <2>1, <2>2
<1>11. OldSessionsGone'
  BY <1>1, <1>4, <1>5 DEF AccountInv, OldSessionsGone
<1>. QED
  BY <1>7, <1>9, <1>10, <1>11 DEF AccountInv

LEMMA RevokeKeeps ==
  ASSUME AccountInv, NEW c \in Changes, Revoke(c)
  PROVE  AccountInv'
<1>1. /\ changes[c].st = "revoke"
      /\ changes' = [changes EXCEPT ![c].st = "write"]
      /\ sessions' = [x \in Logins |-> IF x \in Revoked(c) THEN NoSession ELSE sessions[x]]
      /\ UNCHANGED <<active, password, logins, excused>>
  BY DEF Revoke
<1>2. changes[c] # Asked
  BY <1>1, AccountStates
<1>3. /\ changes' \in [Changes -> {Asked} \cup Begun]
      /\ changes'[c].st = "write" /\ changes'[c].by = changes[c].by
      /\ \A o \in Changes \ {c} : changes'[o] = changes[o]
  BY <1>1, <1>2, ChangeMoves
<1>4. /\ sessions' \in [Logins -> {NoSession} \cup OpenSession]
      /\ \A x \in Logins : sessions'[x] = sessions[x] \/ sessions'[x] = NoSession
      /\ \A x \in Logins : sessions'[x] # NoSession => x = changes[c].by
  BY <1>1 DEF AccountInv, AccountTypes, Revoked
<1>5. AccountTypes'
  BY <1>1, <1>3, <1>4 DEF AccountInv, AccountTypes
<1>6. Changing' \subseteq Changing
  BY <1>1, <1>3 DEF Changing
<1>7. changes[c].by \in excused
  BY <1>1 DEF AccountInv, ChangesExcused
<1>8. SessionsEnd
  BY <1>1, <1>3, <1>4, <1>5, <1>6, <1>7 DEF SessionsEnd, AccountInv, ChangesExcused
<1>. QED
  BY <1>8, EndsKeep

LEMMA WritePasswordKeeps ==
  ASSUME AccountInv, NEW c \in Changes, WritePassword(c)
  PROVE  AccountInv'
<1>1. /\ changes[c].st = "write"
      /\ password' = c
      /\ changes' = [changes EXCEPT ![c].st = "changed"]
      /\ UNCHANGED <<active, sessions, logins, excused>>
  BY DEF WritePassword
<1>2. changes[c] # Asked
  BY <1>1, AccountStates
<1>3. /\ changes' \in [Changes -> {Asked} \cup Begun]
      /\ changes'[c].st = "changed" /\ changes'[c].by = changes[c].by
      /\ \A o \in Changes \ {c} : changes'[o] = changes[o]
  BY <1>1, <1>2, ChangeMoves
<1>4. AccountTypes'
  BY <1>1, <1>3 DEF AccountInv, AccountTypes, Passwords
<1>5. \A x \in Logins : logins[x].st = "create" => x \in excused
  BY <1>1 DEF AccountInv, LoginsExcused, Changing
<1>6. \A x \in Logins : sessions[x] # NoSession => x \in excused
  BY <1>1 DEF AccountInv, ChangesExcused
<1>7. LoginsExcused' /\ OldSessionsGone'
  BY <1>1, <1>5, <1>6 DEF LoginsExcused, OldSessionsGone
<1>8. ChangesExcused'
  BY <1>1, <1>3 DEF AccountInv, ChangesExcused
<1>. QED
  BY <1>4, <1>7, <1>8 DEF AccountInv

LEMMA ChangeDiesKeeps ==
  ASSUME AccountInv, NEW c \in Changes, ChangeDies(c)
  PROVE  AccountInv'
<1>1. /\ c \in Changing
      /\ changes' = [changes EXCEPT ![c].st = "denied"]
      /\ UNCHANGED <<active, password, sessions, logins, excused>>
  BY DEF ChangeDies
<1>2. changes[c] # Asked
  BY <1>1, AccountStates DEF Changing
<1>3. /\ changes' \in [Changes -> {Asked} \cup Begun]
      /\ changes'[c].st = "denied" /\ changes'[c].by = changes[c].by
      /\ \A o \in Changes \ {c} : changes'[o] = changes[o]
  BY <1>1, <1>2, ChangeMoves
<1>4. AccountTypes'
  BY <1>1, <1>3 DEF AccountInv, AccountTypes
<1>5. Changing' \subseteq Changing
  BY <1>1, <1>3 DEF Changing
<1>6. SessionsEnd
  BY <1>1, <1>3, <1>4, <1>5 DEF SessionsEnd, AccountInv, ChangesExcused
<1>. QED
  BY <1>6, EndsKeep

LEMMA AccountStep ==
  ASSUME EnvironmentTypeOK, AccountInv,
         [AccountNext \/ AccountsElsewhere]_<<environment, accountVars>>
  PROVE  EnvironmentTypeOK' /\ AccountInv'
<1>1. CASE UNCHANGED accountVars
  <2>1. AccountInv'
    BY <1>1 DEF accountVars, AccountInv, AccountTypes, LoginsExcused, ChangesExcused,
                OldSessionsGone, Changing
  <2>2. UNCHANGED environment \/ Calm \/ Upset \/ Pass \/ AccountNext
    BY DEF AccountsElsewhere
  <2>3. AccountNext => Calm \/ Upset
    BY DEF AccountNext, CheckPassword, CreateSession, Resolve, Logout, SetActive, BeginChange,
           VerifyCurrent, ResolveAgain, Revoke, WritePassword, ChangeDies
  <2>. QED
    BY <2>1, <2>2, <2>3, ClockWithin DEF Calm
<1>2. ASSUME NEW x \in Logins, CheckPassword(x)
      PROVE  EnvironmentTypeOK' /\ AccountInv'
  BY <1>2, CheckPasswordKeeps, ClockWithin DEF CheckPassword
<1>3. ASSUME NEW x \in Logins, CreateSession(x)
      PROVE  EnvironmentTypeOK' /\ AccountInv'
  BY <1>3, CreateSessionKeeps, ClockWithin DEF CreateSession
<1>4. ASSUME NEW x \in Logins, Resolve(x) \/ Logout(x)
      PROVE  EnvironmentTypeOK' /\ AccountInv'
  BY <1>4, SessionEndsKeep, ClockWithin DEF Resolve, Logout
<1>5. ASSUME NEW b \in BOOLEAN, SetActive(b)
      PROVE  EnvironmentTypeOK' /\ AccountInv'
  <2>1. AccountInv'
    BY <1>5 DEF SetActive, AccountInv, AccountTypes, LoginsExcused, ChangesExcused,
                OldSessionsGone, Changing
  <2>. QED
    BY <1>5, <2>1, ClockWithin DEF SetActive
<1>6. ASSUME NEW c \in Changes, NEW x \in Logins, BeginChange(c, x)
      PROVE  EnvironmentTypeOK' /\ AccountInv'
  BY <1>6, BeginChangeKeeps, ClockWithin DEF BeginChange
<1>7. ASSUME NEW c \in Changes, NEW right \in BOOLEAN, VerifyCurrent(c, right)
      PROVE  EnvironmentTypeOK' /\ AccountInv'
  BY <1>7, VerifyKeeps, ClockWithin DEF VerifyCurrent
<1>8. ASSUME NEW c \in Changes, ResolveAgain(c)
      PROVE  EnvironmentTypeOK' /\ AccountInv'
  BY <1>8, ResolveAgainKeeps, ClockWithin DEF ResolveAgain
<1>9. ASSUME NEW c \in Changes, Revoke(c)
      PROVE  EnvironmentTypeOK' /\ AccountInv'
  BY <1>9, RevokeKeeps, ClockWithin DEF Revoke
<1>10. ASSUME NEW c \in Changes, WritePassword(c)
       PROVE  EnvironmentTypeOK' /\ AccountInv'
  BY <1>10, WritePasswordKeeps, ClockWithin DEF WritePassword
<1>11. ASSUME NEW c \in Changes, ChangeDies(c)
       PROVE  EnvironmentTypeOK' /\ AccountInv'
  BY <1>11, ChangeDiesKeeps, ClockWithin DEF ChangeDies
<1>. QED
  BY <1>1, <1>2, <1>3, <1>4, <1>5, <1>6, <1>7, <1>8, <1>9, <1>10, <1>11
  DEF AccountNext, AccountsElsewhere

\* After a password change the account's old sessions are gone, whatever
\* logins, changes, time-outs and crashes came in between: a session opened
\* with another password than the stored one is excused (changePassword,
\* createSession, resolveSession).
THEOREM OldSessionsAreGone == AccountSpec => []OldSessionsGone
<1>1. EnvironmentInit /\ AccountInit => EnvironmentTypeOK /\ AccountInv
  BY AccountStart, EnvironmentAssumption DEF EnvironmentInit, EnvironmentTypeOK
<1>2. EnvironmentTypeOK /\ AccountInv
        /\ [AccountNext \/ AccountsElsewhere]_<<environment, accountVars>>
      => EnvironmentTypeOK' /\ AccountInv'
  BY AccountStep
<1>3. AccountInv => OldSessionsGone
  BY DEF AccountInv
<1>. QED
  BY <1>1, <1>2, <1>3, PTL DEF AccountSpec
-----------------------------------------------------------------------------
(* API access.  A counter that is still there counts every request its       *)
(* window let through, and its end is not before the end of the window.      *)

apis == <<environment, apiVars>>
ApiElsewhere == Upset /\ UNCHANGED apiVars
ApiSpec == EnvironmentInit /\ ApiInit /\ [][ApiNext \/ ApiPass \/ ApiElsewhere]_apis

Metering == {"incr", "pexpire", "granted", "limited", "unmetered", "lost"}
Metered == [st : Metering, at : 1 .. MaxClock]
Counter == [n : Nat, dies : Nat]

ApiTypes ==
  /\ counters \in [ApiKeys -> [Buckets -> Counter]]
  /\ requests \in [Requests -> {Arriving} \cup [st : {"refused"}] \cup Metered]

\* A request reads the clock before it goes on, and only so many have begun.
RequestsTimely ==
  /\ \A r \in Requests : requests[r] \in Metered => requests[r].at <= clock
  /\ IsFiniteSet({r \in Requests : requests[r] \in Metered})

\* A counter is gone when it counts nothing; the end it is given is not
\* before the end of its window.
CountersTimely ==
  \A k \in ApiKeys, b \in Buckets :
    /\ counters[k][b].n = 0 => counters[k][b] = NoCounter
    /\ \/ counters[k][b].dies = NoEnd
       \/ /\ counters[k][b].dies >= (b + 1) * ApiWindow
          /\ counters[k][b].dies < NoEnd

\* What a window may still grant is counted: the requests between INCR and
\* PEXPIRE are among those that were let through.
Granting == {"granted", "pexpire"}
Counting == {"granted", "limited", "pexpire"}
WindowsCounted ==
  \A k \in ApiKeys, b \in Buckets : b >= Bucket(clock) =>
    /\ Cardinality(Of(k, b, Granting)) <= ApiLimit
    /\ Cardinality(Of(k, b, Counting)) <= counters[k][b].n

ApiInv ==
  /\ EnvironmentTypeOK /\ ApiTypes /\ RequestsTimely /\ CountersTimely
  /\ WindowsCounted /\ CountersEnd
-----------------------------------------------------------------------------

\* The window of an instant: it contains it, and ResetAt is its end.
LEMMA WindowOf ==
  ASSUME NEW t \in Nat
  PROVE  /\ Bucket(t) \in Nat
         /\ t < (Bucket(t) + 1) * ApiWindow
         /\ Bucket(t) * ApiWindow <= t
         /\ ResetAt(t) = (Bucket(t) + 1) * ApiWindow
         /\ ResetAt(t) - t \in 1 .. ApiWindow
<1>. DEFINE w == ApiWindow
            q == t \div w
<1>1. w \in Nat \ {0}
  BY ApiAssumption
<1>2. q \in Nat /\ w * q <= t /\ t < w * (q + 1)
  BY <1>1
<1>3. (t + w) \div w = q + 1
  BY <1>1, <1>2
<1>4. w * q = q * w /\ w * (q + 1) = (q + 1) * w /\ (q + 1) * w = q * w + w
  BY <1>1, <1>2
<1>5. ResetAt(t) = (q + 1) * w
  BY <1>1, <1>3 DEF ResetAt, CeilDiv
<1>. QED
  BY <1>1, <1>2, <1>4, <1>5 DEF Bucket

LEMMA LaterWindow ==
  ASSUME NEW t \in Nat, NEW u \in Nat, t <= u
  PROVE  Bucket(t) <= Bucket(u)
<1>. DEFINE w == ApiWindow
            p == t \div w
            q == u \div w
<1>1. w \in Nat \ {0}
  BY ApiAssumption
<1>2. p \in Nat /\ q \in Nat /\ w * p <= t /\ u < w * (q + 1)
  BY <1>1
<1>3. w * p < w * (q + 1)
  BY <1>1, <1>2
<1>4. p < q + 1
  BY <1>1, <1>2, <1>3
<1>. QED
  BY <1>2, <1>4 DEF Bucket

LEMMA BucketType ==
  ASSUME NEW t \in 1 .. MaxClock
  PROVE  Bucket(t) \in Buckets
<1>1. Bucket(t) \in Nat /\ Bucket(MaxClock) \in Nat /\ Bucket(t) <= Bucket(MaxClock)
  BY WindowOf, LaterWindow, EnvironmentAssumption
<1>. QED
  BY <1>1 DEF Buckets, Bucket

LEMMA ApiStates ==
  /\ Arriving.st = "arriving"
  /\ \A x \in Metered : x.st \in Metering /\ x.at \in 1 .. MaxClock
  /\ \A x \in [st : {"refused"}] : x.st = "refused"
  /\ NoCounter \in Counter /\ NoCounter.n = 0 /\ NoCounter.dies = NoEnd
  /\ NoEnd \in Nat
BY ApiAssumption, EnvironmentAssumption
DEF Arriving, Metered, Metering, NoCounter, NoEnd, Counter

LEMMA MeteredBy ==
  ASSUME ApiTypes, NEW r \in Requests, requests[r].st \in Metering
  PROVE  requests[r] \in Metered
BY ApiStates DEF ApiTypes, Metering

\* The requests of a window are finitely many.
LEMMA OfFinite ==
  ASSUME ApiTypes, RequestsTimely, NEW k, NEW b, NEW S \in SUBSET Metering
  PROVE  /\ IsFiniteSet(Of(k, b, S)) /\ Cardinality(Of(k, b, S)) \in Nat
         /\ \A T \in SUBSET S : Cardinality(Of(k, b, T)) <= Cardinality(Of(k, b, S))
<1>1. Of(k, b, S) \subseteq {r \in Requests : requests[r] \in Metered}
  BY MeteredBy DEF Of
<1>2. IsFiniteSet(Of(k, b, S)) /\ Cardinality(Of(k, b, S)) \in Nat
  BY <1>1, FS_Subset, FS_CardinalityType DEF RequestsTimely
<1>3. ASSUME NEW T \in SUBSET S
      PROVE  Cardinality(Of(k, b, T)) <= Cardinality(Of(k, b, S))
  <2>1. Of(k, b, T) \subseteq Of(k, b, S)
    BY DEF Of
  <2>. QED
    BY <1>2, <2>1, FS_Subset
<1>. QED
  BY <1>2, <1>3

\* A request goes on to another state.
Moves(r, to) ==
  /\ requests[r].st \in Metering /\ to \in Metering
  /\ requests' = [requests EXCEPT ![r].st = to]

LEMMA RequestMoves ==
  ASSUME ApiInv, NEW r \in Requests, NEW to, Moves(r, to), clock' = clock
  PROVE  /\ requests' \in [Requests -> {Arriving} \cup [st : {"refused"}] \cup Metered]
         /\ requests'[r].st = to /\ requests'[r].at = requests[r].at
         /\ \A o \in Requests \ {r} : requests'[o] = requests[o]
         /\ RequestsTimely'
<1>. DEFINE x == [requests[r] EXCEPT !.st = to]
<1>1. requests[r] \in Metered
  BY MeteredBy DEF ApiInv, Moves
<1>2. x \in Metered /\ x.st = to /\ x.at = requests[r].at
  BY <1>1 DEF Metered, Moves
<1>3. requests' = [requests EXCEPT ![r] = x]
  BY DEF Moves
<1>. HIDE DEF x
<1>4. /\ requests' \in [Requests -> {Arriving} \cup [st : {"refused"}] \cup Metered]
      /\ requests'[r] = x
      /\ \A o \in Requests \ {r} : requests'[o] = requests[o]
  BY <1>2, <1>3 DEF ApiInv, ApiTypes
<1>5. {o \in Requests : requests[o] \in Metered}' = {o \in Requests : requests[o] \in Metered}
  BY <1>1, <1>2, <1>4
<1>6. RequestsTimely'
  BY <1>1, <1>2, <1>4, <1>5 DEF ApiInv, RequestsTimely
<1>. QED
  BY <1>2, <1>4, <1>6

\* The window of the request gains or loses it, the others do not change.
LEMMA OfMoves ==
  ASSUME ApiInv, NEW r \in Requests, NEW to, Moves(r, to), clock' = clock,
         NEW k, NEW b, NEW S
  PROVE  /\ ~(k = Key(r) /\ b = Bucket(requests[r].at)) => Of(k, b, S)' = Of(k, b, S)
         /\ k = Key(r) /\ b = Bucket(requests[r].at) =>
              Of(k, b, S)' = IF to \in S THEN Of(k, b, S) \cup {r} ELSE Of(k, b, S) \ {r}
BY RequestMoves DEF Of

\* A step that neither counts nor forgets: the request drops out of its
\* window, or was let through before.
LEMMA MovesKeepWindows ==
  ASSUME ApiInv, NEW r \in Requests, NEW to, Moves(r, to), clock' = clock,
         \/ to \in {"unmetered", "lost"}
         \/ requests[r].st = "pexpire" /\ to = "granted",
         \A k \in ApiKeys, b \in Buckets : counters'[k][b].n = counters[k][b].n
  PROVE  WindowsCounted'
<1>. SUFFICES ASSUME NEW k \in ApiKeys, NEW b \in Buckets, b >= Bucket(clock')
              PROVE  /\ Cardinality(Of(k, b, Granting)') <= ApiLimit
                     /\ Cardinality(Of(k, b, Counting)') <= counters'[k][b].n
  BY DEF WindowsCounted
<1>1. /\ Cardinality(Of(k, b, Granting)) <= ApiLimit
      /\ Cardinality(Of(k, b, Counting)) <= counters[k][b].n
  BY DEF ApiInv, WindowsCounted
<1>2. /\ IsFiniteSet(Of(k, b, Granting)) /\ Cardinality(Of(k, b, Granting)) \in Nat
      /\ IsFiniteSet(Of(k, b, Counting)) /\ Cardinality(Of(k, b, Counting)) \in Nat
  BY OfFinite DEF ApiInv, Granting, Counting, Metering
<1>3. ASSUME NEW S \in {Granting, Counting}
      PROVE  Of(k, b, S)' \subseteq Of(k, b, S)
  <2>1. CASE ~(k = Key(r) /\ b = Bucket(requests[r].at))
    BY <2>1, OfMoves
  <2>2. CASE k = Key(r) /\ b = Bucket(requests[r].at)
    <3>1. CASE to \in {"unmetered", "lost"}
      <4>1. to \notin S
        BY <3>1 DEF Granting, Counting
      <4>. QED
        BY <2>2, <4>1, OfMoves
    <3>2. CASE requests[r].st = "pexpire"
      <4>1. r \in Of(k, b, S)
        BY <2>2, <3>2 DEF Of, Granting, Counting
      <4>. QED
        BY <2>2, <4>1, OfMoves
    <3>. QED
      BY <3>1, <3>2
  <2>. QED
    BY <2>1, <2>2
<1>4. /\ Cardinality(Of(k, b, Granting)') <= Cardinality(Of(k, b, Granting))
      /\ Cardinality(Of(k, b, Granting)') \in Nat
  BY <1>2, <1>3, FS_Subset, FS_CardinalityType
<1>5. /\ Cardinality(Of(k, b, Counting)') <= Cardinality(Of(k, b, Counting))
      /\ Cardinality(Of(k, b, Counting)') \in Nat
  BY <1>2, <1>3, FS_Subset, FS_CardinalityType
<1>6. counters[k][b].n \in Nat /\ ApiLimit \in Nat
  BY ApiAssumption DEF ApiInv, ApiTypes, Counter
<1>. QED
  BY <1>1, <1>2, <1>4, <1>5, <1>6

LEMMA AuthenticateKeeps ==
  ASSUME ApiInv, NEW r \in Requests, Authenticate(r)
  PROVE  ApiInv'
<1>. DEFINE x == IF Admitted(r) THEN [st |-> "incr", at |-> clock] ELSE [st |-> "refused"]
<1>1. /\ requests[r] = Arriving
      /\ requests' = [requests EXCEPT ![r] = x]
      /\ UNCHANGED <<environment, counters, endless>>
  BY DEF Authenticate, Calm
<1>2. /\ x \in [st : {"refused"}] \cup Metered
      /\ x.st \in {"incr", "refused"}
      /\ x \in Metered => x.at <= clock
  BY DEF ApiInv, EnvironmentTypeOK, Metered, Metering
<1>. HIDE DEF x
<1>3. /\ requests' \in [Requests -> {Arriving} \cup [st : {"refused"}] \cup Metered]
      /\ requests'[r] = x
      /\ \A o \in Requests \ {r} : requests'[o] = requests[o]
  BY <1>1, <1>2 DEF ApiInv, ApiTypes
<1>4. clock' = clock
  BY <1>1 DEF environment
<1>5. RequestsTimely'
  <2>. DEFINE B == {o \in Requests : requests[o] \in Metered}
  <2>1. B' \subseteq B \cup {r}
    BY <1>3
  <2>2. IsFiniteSet(B \cup {r})
    BY FS_AddElement DEF ApiInv, RequestsTimely
  <2>3. IsFiniteSet(B')
    BY <2>1, <2>2, FS_Subset
  <2>. QED
    BY <1>2, <1>3, <1>4, <2>3 DEF ApiInv, RequestsTimely
<1>6. ASSUME NEW k, NEW b, NEW S, S \in SUBSET {"granted", "limited", "pexpire"}
      PROVE  Of(k, b, S)' = Of(k, b, S)
  <2>1. requests[r].st = "arriving"
    BY <1>1, ApiStates
  <2>2. \A o \in Requests : o # r => requests'[o] = requests[o]
    BY <1>3
  <2>3. requests'[r].st \notin S /\ requests[r].st \notin S
    BY <1>2, <1>3, <1>6, <2>1
  <2>. QED
    BY <2>2, <2>3 DEF Of
<1>7. WindowsCounted' /\ CountersEnd'
  <2>1. \A k \in ApiKeys, b \in Buckets :
          /\ Of(k, b, Granting)' = Of(k, b, Granting)
          /\ Of(k, b, Counting)' = Of(k, b, Counting)
          /\ Of(k, b, {"pexpire"})' = Of(k, b, {"pexpire"})
    BY <1>6 DEF Granting, Counting
  <2>2. WindowsCounted'
    BY <1>1, <1>4, <2>1 DEF ApiInv, WindowsCounted
  <2>3. CountersEnd'
    BY <1>1, <2>1 DEF ApiInv, CountersEnd
  <2>. QED
    BY <2>2, <2>3
<1>8. EnvironmentTypeOK' /\ ApiTypes' /\ CountersTimely'
  BY <1>1, <1>3 DEF environment, ApiInv, EnvironmentTypeOK, ApiTypes, CountersTimely
<1>. QED
  BY <1>5, <1>7, <1>8 DEF ApiInv

LEMMA IncrKeeps ==
  ASSUME ApiInv, NEW r \in Requests, Incr(r)
  PROVE  ApiInv'
<1>. DEFINE k0 == Key(r)
            b0 == Bucket(requests[r].at)
            n == counters[k0][b0].n + 1
            to == IF First(n) THEN "pexpire" ELSE Verdict(r, n)
<1>1. /\ requests[r].st = "incr"
      /\ requests' = [requests EXCEPT ![r].st = to]
      /\ counters' = [counters EXCEPT ![k0][b0].n = n]
      /\ UNCHANGED <<environment, endless>>
  BY DEF Incr, Calm
<1>2. clock' = clock
  BY <1>1 DEF environment
<1>3. k0 \in ApiKeys /\ b0 \in Buckets
  <2>1. requests[r].at \in 1 .. MaxClock
    BY <1>1, MeteredBy, ApiStates DEF ApiInv, Metering
  <2>. QED
    BY <2>1, BucketType, ApiAssumption DEF Key
<1>4. n \in Nat \ {0}
  BY <1>3 DEF ApiInv, ApiTypes, Counter
<1>5. /\ to \in Counting
      /\ n = 1 => to = "pexpire"
      /\ to \in Granting => n <= ApiLimit
  BY <1>4, ApiAssumption DEF First, Verdict, Counting, Granting
<1>6. Moves(r, to)
  BY <1>1, <1>5 DEF Moves, Metering, Counting
<1>7. /\ counters' \in [ApiKeys -> [Buckets -> Counter]]
      /\ counters'[k0][b0].n = n /\ counters'[k0][b0].dies = counters[k0][b0].dies
      /\ \A k \in ApiKeys, b \in Buckets :
           ~(k = k0 /\ b = b0) => counters'[k][b] = counters[k][b]
  <2>. DEFINE c == [counters[k0][b0] EXCEPT !.n = n]
              g == [counters[k0] EXCEPT ![b0] = c]
  <2>1. counters[k0][b0] \in Counter
    BY <1>3 DEF ApiInv, ApiTypes
  <2>2. c \in Counter /\ c.n = n /\ c.dies = counters[k0][b0].dies
    BY <1>4, <2>1 DEF Counter
  <2>3. counters' = [counters EXCEPT ![k0] = g]
    BY <1>1
  <2>. HIDE DEF c
  <2>4. /\ g \in [Buckets -> Counter] /\ g[b0] = c
        /\ \A b \in Buckets : b # b0 => g[b] = counters[k0][b]
    BY <1>3, <2>2 DEF ApiInv, ApiTypes
  <2>. HIDE DEF g
  <2>5. /\ counters' \in [ApiKeys -> [Buckets -> Counter]]
        /\ counters'[k0] = g
        /\ \A k \in ApiKeys : k # k0 => counters'[k] = counters[k]
    BY <1>3, <2>3, <2>4 DEF ApiInv, ApiTypes
  <2>. QED
    BY <2>2, <2>4, <2>5
<1>. HIDE DEF n, to
<1>8. /\ requests' \in [Requests -> {Arriving} \cup [st : {"refused"}] \cup Metered]
      /\ requests'[r].st = to
      /\ RequestsTimely'
  BY <1>2, <1>5, <1>6, RequestMoves
<1>9. CountersTimely'
  BY <1>3, <1>4, <1>7 DEF ApiInv, CountersTimely
<1>10. WindowsCounted'
  <2>. SUFFICES ASSUME NEW k \in ApiKeys, NEW b \in Buckets, b >= Bucket(clock')
                PROVE  /\ Cardinality(Of(k, b, Granting)') <= ApiLimit
                       /\ Cardinality(Of(k, b, Counting)') <= counters'[k][b].n
    BY DEF WindowsCounted
  <2>1. /\ Cardinality(Of(k, b, Granting)) <= ApiLimit
        /\ Cardinality(Of(k, b, Counting)) <= counters[k][b].n
    BY <1>2 DEF ApiInv, WindowsCounted
  <2>2. CASE ~(k = k0 /\ b = b0)
    <3>1. Of(k, b, Granting)' = Of(k, b, Granting) /\ Of(k, b, Counting)' = Of(k, b, Counting)
      BY <1>2, <1>5, <1>6, <2>2, OfMoves
    <3>. QED
      BY <1>7, <2>1, <2>2, <3>1
  <2>3. CASE k = k0 /\ b = b0
    <3>1. IsFiniteSet(Of(k, b, Counting)) /\ Cardinality(Of(k, b, Counting)) \in Nat
      BY OfFinite DEF ApiInv, Counting, Metering
    <3>2. Of(k, b, Counting)' = Of(k, b, Counting) \cup {r}
      BY <1>2, <1>5, <1>6, <2>3, OfMoves
    <3>3. /\ IsFiniteSet(Of(k, b, Counting)') /\ Cardinality(Of(k, b, Counting)') \in Nat
          /\ Cardinality(Of(k, b, Counting)') <= Cardinality(Of(k, b, Counting)) + 1
      <4>1. /\ IsFiniteSet(Of(k, b, Counting) \cup {r})
            /\ \/ Cardinality(Of(k, b, Counting) \cup {r}) = Cardinality(Of(k, b, Counting))
               \/ Cardinality(Of(k, b, Counting) \cup {r}) = Cardinality(Of(k, b, Counting)) + 1
        BY <3>1, FS_AddElement
      <4>. QED
        BY <3>1, <3>2, <4>1
    <3>4. counters[k][b].n + 1 = n
      BY <2>3 DEF n
    <3>5. counters[k][b].n \in Nat
      BY DEF ApiInv, ApiTypes, Counter
    <3>6. Cardinality(Of(k, b, Counting)') <= n
      BY <1>4, <2>1, <3>1, <3>3, <3>4, <3>5
    <3>7. Cardinality(Of(k, b, Granting)') <= ApiLimit
      <4>1. CASE to \in Granting
        <5>1. Of(k, b, Granting)' \subseteq Of(k, b, Counting)'
          BY DEF Of, Granting, Counting
        <5>2. /\ Cardinality(Of(k, b, Granting)') \in Nat
              /\ Cardinality(Of(k, b, Granting)') <= Cardinality(Of(k, b, Counting)')
          BY <3>3, <5>1, FS_Subset, FS_CardinalityType
        <5>. QED
          BY <1>4, <1>5, <3>3, <3>6, <4>1, <5>2, ApiAssumption
      <4>2. CASE to \notin Granting
        <5>1. r \notin Of(k, b, Granting)
          BY <1>1 DEF Of, Granting
        <5>2. Of(k, b, Granting)' = Of(k, b, Granting)
          BY <1>2, <1>5, <1>6, <2>3, <4>2, <5>1, OfMoves
        <5>. QED
          BY <2>1, <5>2
      <4>. QED
        BY <4>1, <4>2
    <3>. QED
      BY <1>7, <2>3, <3>6, <3>7
  <2>. QED
    BY <2>2, <2>3
<1>11. CountersEnd'
  <2>. SUFFICES ASSUME NEW k \in ApiKeys, NEW b \in Buckets,
                       counters'[k][b] # NoCounter, counters'[k][b].dies = NoEnd
                PROVE  <<k, b>> \in endless' \/ Of(k, b, {"pexpire"})' # {}
    BY DEF CountersEnd
  <2>1. CASE counters[k][b].n = 0 /\ k = k0 /\ b = b0
    <3>1. to = "pexpire"
      BY <1>5, <2>1 DEF n
    <3>2. r \in Of(k, b, {"pexpire"})'
      BY <1>2, <1>5, <1>6, <2>1, <3>1, OfMoves
    <3>. QED
      BY <3>2
  <2>2. CASE ~(counters[k][b].n = 0 /\ k = k0 /\ b = b0)
    <3>1. counters[k][b] # NoCounter /\ counters[k][b].dies = NoEnd
      BY <1>7, <2>2, ApiStates
    <3>2. <<k, b>> \in endless \/ Of(k, b, {"pexpire"}) # {}
      BY <3>1 DEF ApiInv, CountersEnd
    <3>3. Of(k, b, {"pexpire"}) \subseteq Of(k, b, {"pexpire"})'
      <4>1. r \notin Of(k, b, {"pexpire"})
        BY <1>1 DEF Of
      <4>. QED
        BY <1>2, <1>5, <1>6, <4>1, OfMoves
    <3>. QED
      BY <1>1, <3>2, <3>3
  <2>. QED
    BY <2>1, <2>2
<1>12. EnvironmentTypeOK' /\ ApiTypes'
  BY <1>1, <1>7, <1>8 DEF environment, ApiInv, EnvironmentTypeOK, ApiTypes
<1>. QED
  BY <1>8, <1>9, <1>10, <1>11, <1>12 DEF ApiInv

LEMMA PExpireKeeps ==
  ASSUME ApiInv, NEW r \in Requests, PExpire(r)
  PROVE  ApiInv'
<1>. DEFINE k0 == Key(r)
            at == requests[r].at
            b0 == Bucket(at)
            end == clock + Ttl1(at)
<1>1. /\ requests[r].st = "pexpire"
      /\ requests' = [requests EXCEPT ![r].st = Verdict(r, 1)]
      /\ counters' = IF counters[k0][b0] = NoCounter THEN counters
                     ELSE [counters EXCEPT ![k0][b0].dies = end]
      /\ UNCHANGED <<environment, endless>>
  BY DEF PExpire, Calm
<1>2. clock' = clock
  BY <1>1 DEF environment
<1>3. Verdict(r, 1) = "granted"
  BY ApiAssumption DEF Verdict
<1>4. Moves(r, "granted")
  BY <1>1, <1>3 DEF Moves, Metering
<1>5. requests[r] \in Metered /\ at \in 1 .. MaxClock /\ at <= clock /\ clock \in 1 .. MaxClock
  BY <1>1, MeteredBy, ApiStates
  DEF ApiInv, Metering, RequestsTimely, EnvironmentTypeOK
<1>6. k0 \in ApiKeys /\ b0 \in Buckets
  BY <1>5, BucketType, ApiAssumption DEF Key
<1>7. end \in Nat /\ end >= (b0 + 1) * ApiWindow /\ end < NoEnd
  <2>1. /\ ResetAt(at) = (b0 + 1) * ApiWindow
        /\ ResetAt(at) - at \in 1 .. ApiWindow
    BY <1>5, WindowOf, EnvironmentAssumption
  <2>2. ApiWindow \in Nat \ {0} /\ MaxClock \in Nat \ {0}
    BY ApiAssumption, EnvironmentAssumption
  <2>3. b0 \in Nat
    BY <1>5, WindowOf, EnvironmentAssumption
  <2>. DEFINE e == (b0 + 1) * ApiWindow
  <2>4. e \in Nat
    BY <2>2, <2>3
  <2>5. Ttl1(at) = e - at
    BY <1>5, <2>1, <2>2, <2>4 DEF Ttl1
  <2>6. e - at \in 1 .. ApiWindow
    BY <2>1
  <2>. HIDE DEF e
  <2>7. end \in Nat /\ end >= e /\ end < NoEnd
    BY <1>5, <2>2, <2>4, <2>5, <2>6 DEF NoEnd
  <2>. QED
    BY <2>7 DEF e
<1>. HIDE DEF end, b0
<1>8. /\ counters' \in [ApiKeys -> [Buckets -> Counter]]
      /\ \A k \in ApiKeys, b \in Buckets :
           /\ counters'[k][b].n = counters[k][b].n
           /\ counters'[k][b] = counters[k][b] \/ counters'[k][b].dies = end
           /\ ~(k = k0 /\ b = b0) => counters'[k][b] = counters[k][b]
      /\ \/ counters'[k0][b0] = NoCounter
         \/ counters'[k0][b0].dies = end
      /\ counters[k0][b0] = NoCounter => counters' = counters
  <2>1. CASE counters[k0][b0] = NoCounter
    BY <1>1, <2>1 DEF ApiInv, ApiTypes
  <2>2. CASE counters[k0][b0] # NoCounter
    <3>. DEFINE c == [counters[k0][b0] EXCEPT !.dies = end]
                g == [counters[k0] EXCEPT ![b0] = c]
    <3>1. counters[k0][b0] \in Counter
      BY <1>6 DEF ApiInv, ApiTypes
    <3>2. c \in Counter /\ c.dies = end /\ c.n = counters[k0][b0].n
      BY <1>7, <3>1 DEF Counter
    <3>3. counters' = [counters EXCEPT ![k0] = g]
      BY <1>1, <2>2
    <3>. HIDE DEF c
    <3>4. /\ g \in [Buckets -> Counter] /\ g[b0] = c
          /\ \A b \in Buckets : b # b0 => g[b] = counters[k0][b]
      BY <1>6, <3>2 DEF ApiInv, ApiTypes
    <3>. HIDE DEF g
    <3>5. /\ counters' \in [ApiKeys -> [Buckets -> Counter]]
          /\ counters'[k0] = g
          /\ \A k \in ApiKeys : k # k0 => counters'[k] = counters[k]
      BY <1>6, <3>3, <3>4 DEF ApiInv, ApiTypes
    <3>. QED
      BY <2>2, <3>2, <3>4, <3>5
  <2>. QED
    BY <2>1, <2>2
<1>9. /\ requests' \in [Requests -> {Arriving} \cup [st : {"refused"}] \cup Metered]
      /\ RequestsTimely'
  BY <1>2, <1>4, RequestMoves
<1>10. WindowsCounted'
  BY <1>1, <1>2, <1>4, <1>8, MovesKeepWindows
<1>11. CountersTimely'
  <2>. SUFFICES ASSUME NEW k \in ApiKeys, NEW b \in Buckets
                PROVE  /\ counters'[k][b].n = 0 => counters'[k][b] = NoCounter
                       /\ \/ counters'[k][b].dies = NoEnd
                          \/ /\ counters'[k][b].dies >= (b + 1) * ApiWindow
                             /\ counters'[k][b].dies < NoEnd
    BY DEF CountersTimely
  <2>1. CASE ~(k = k0 /\ b = b0) \/ counters'[k][b] = counters[k][b]
    BY <1>8, <2>1 DEF ApiInv, CountersTimely
  <2>2. CASE k = k0 /\ b = b0 /\ counters'[k][b] # counters[k][b]
    <3>1. counters[k][b].n # 0
      BY <1>8, <2>2 DEF ApiInv, CountersTimely
    <3>. QED
      BY <1>7, <1>8, <2>2, <3>1
  <2>. QED
    BY <2>1, <2>2
<1>12. CountersEnd'
  <2>. SUFFICES ASSUME NEW k \in ApiKeys, NEW b \in Buckets,
                       counters'[k][b] # NoCounter, counters'[k][b].dies = NoEnd
                PROVE  <<k, b>> \in endless' \/ Of(k, b, {"pexpire"})' # {}
    BY DEF CountersEnd
  <2>1. ~(k = k0 /\ b = b0)
    BY <1>7, <1>8, ApiStates
  <2>2. counters'[k][b] = counters[k][b]
    BY <1>8, <2>1
  <2>3. Of(k, b, {"pexpire"})' = Of(k, b, {"pexpire"})
    BY <1>2, <1>4, <2>1, OfMoves DEF b0
  <2>. QED
    BY <1>1, <2>2, <2>3 DEF ApiInv, CountersEnd
<1>13. EnvironmentTypeOK' /\ ApiTypes'
  BY <1>1, <1>8, <1>9 DEF environment, ApiInv, EnvironmentTypeOK, ApiTypes
<1>. QED
  BY <1>9, <1>10, <1>11, <1>12, <1>13 DEF ApiInv

LEMMA CutOffKeeps ==
  ASSUME ApiInv, NEW r \in Requests, RedisFails(r) \/ RequestDies(r)
  PROVE  ApiInv'
<1>. DEFINE e == <<Key(r), Bucket(requests[r].at)>>
<1>1. PICK t \in {"unmetered", "lost"} :
        /\ requests[r].st \in {"incr", "pexpire"}
        /\ requests' = [requests EXCEPT ![r].st = t]
        /\ endless' = IF requests[r].st = "pexpire" THEN endless \cup {e} ELSE endless
        /\ Upset /\ counters' = counters
  BY DEF RedisFails, RequestDies
<1>2. clock' = clock
  BY <1>1 DEF Upset
<1>3. Moves(r, t)
  BY <1>1 DEF Moves, Metering
<1>4. /\ requests' \in [Requests -> {Arriving} \cup [st : {"refused"}] \cup Metered]
      /\ RequestsTimely'
  BY <1>1, <1>2, <1>3, RequestMoves
<1>5. WindowsCounted'
  BY <1>1, <1>2, <1>3, MovesKeepWindows
<1>6. CountersEnd'
  <2>. SUFFICES ASSUME NEW k \in ApiKeys, NEW b \in Buckets,
                       counters[k][b] # NoCounter, counters[k][b].dies = NoEnd
                PROVE  <<k, b>> \in endless' \/ Of(k, b, {"pexpire"})' # {}
    BY <1>1 DEF CountersEnd
  <2>1. CASE <<k, b>> \in endless
    BY <1>1, <2>1
  <2>2. CASE <<k, b>> = e /\ requests[r].st = "pexpire"
    BY <1>1, <2>2
  <2>3. CASE <<k, b>> # e \/ requests[r].st # "pexpire"
    <3>1. r \notin Of(k, b, {"pexpire"})
      BY <2>3 DEF Of
    <3>2. Of(k, b, {"pexpire"})' = Of(k, b, {"pexpire"})
      BY <1>1, <1>2, <1>3, <3>1, OfMoves
    <3>. QED
      BY <1>1, <3>2 DEF ApiInv, CountersEnd
  <2>. QED
    BY <2>1, <2>2, <2>3
<1>7. ApiTypes' /\ CountersTimely'
  BY <1>1, <1>4 DEF ApiInv, ApiTypes, CountersTimely
<1>. QED
  BY <1>1, <1>4, <1>5, <1>6, <1>7, ClockWithin DEF ApiInv

\* Redis forgets the counters that have ended; the counter of a window that
\* is open, or still to come, has not.
LEMMA ApiPassKeeps ==
  ASSUME ApiInv, ApiPass
  PROVE  ApiInv'
<1>1. /\ clock' = clock + 1 /\ Pass
      /\ counters' = [k \in ApiKeys |-> [b \in Buckets |->
           IF counters[k][b].dies <= clock + 1 THEN NoCounter ELSE counters[k][b]]]
      /\ UNCHANGED <<requests, endless>>
  BY DEF ApiPass, Pass
<1>2. clock \in 1 .. MaxClock /\ clock' \in 1 .. MaxClock /\ clock \in Nat /\ clock' \in Nat
  BY <1>1, ClockWithin DEF ApiInv, EnvironmentTypeOK
<1>3. /\ counters' \in [ApiKeys -> [Buckets -> Counter]]
      /\ \A k \in ApiKeys, b \in Buckets :
           counters'[k][b] = NoCounter \/ counters'[k][b] = counters[k][b]
  BY <1>1, ApiStates DEF ApiInv, ApiTypes
<1>4. \A k, b, S : Of(k, b, S)' = Of(k, b, S)
  BY <1>1 DEF Of
<1>5. ASSUME NEW k \in ApiKeys, NEW b \in Buckets, b >= Bucket(clock')
      PROVE  counters'[k][b] = counters[k][b]
  <2>1. counters[k][b] \in Counter /\ counters[k][b].dies \in Nat
    BY DEF ApiInv, ApiTypes, Counter
  <2>2. clock' < (Bucket(clock') + 1) * ApiWindow /\ Bucket(clock') \in Nat
    BY <1>2, WindowOf
  <2>3. (Bucket(clock') + 1) * ApiWindow <= (b + 1) * ApiWindow /\ (b + 1) * ApiWindow \in Nat
    <3>1. ApiWindow \in Nat /\ b \in Nat
      BY ApiAssumption, EnvironmentAssumption DEF Buckets
    <3>2. PICK d \in Nat : b = Bucket(clock') + d
      <4>1. b - Bucket(clock') \in Nat /\ b = Bucket(clock') + (b - Bucket(clock'))
        BY <1>5, <2>2, <3>1
      <4>. QED
        BY <4>1
    <3>. DEFINE w == ApiWindow
                q == Bucket(clock') + 1
    <3>3. (q + d) * w = q * w + d * w /\ d * w \in Nat /\ q * w \in Nat
      BY <2>2, <3>1, <3>2
    <3>4. b + 1 = q + d
      BY <2>2, <3>2
    <3>. HIDE DEF w, q
    <3>5. q * w <= (q + d) * w /\ (q + d) * w \in Nat
      BY <3>3
    <3>. QED
      BY <3>4, <3>5 DEF w, q
  <2>4. clock' < NoEnd
    BY <1>2, ApiAssumption, EnvironmentAssumption DEF NoEnd
  <2>5. \/ counters[k][b].dies = NoEnd
        \/ counters[k][b].dies >= (b + 1) * ApiWindow
    BY DEF ApiInv, CountersTimely
  <2>6. ~(counters[k][b].dies <= clock')
    <3>. DEFINE e == (b + 1) * ApiWindow
                f == (Bucket(clock') + 1) * ApiWindow
    <3>1. f \in Int
      BY <2>2, ApiAssumption
    <3>2. clock' < f /\ f <= e /\ e \in Nat
      BY <2>2, <2>3
    <3>. HIDE DEF e, f
    <3>3. clock' < e
      BY <1>2, <3>1, <3>2
    <3>. QED
      BY <1>2, <2>1, <2>4, <2>5, <3>2, <3>3, ApiStates DEF e
  <2>. QED
    BY <1>1, <2>6
<1>6. \A b \in Buckets : b >= Bucket(clock') => b >= Bucket(clock)
  <2>1. Bucket(clock) \in Nat /\ Bucket(clock') \in Nat /\ Bucket(clock) <= Bucket(clock')
    BY <1>1, <1>2, WindowOf, LaterWindow
  <2>. QED
    BY <2>1 DEF Buckets
<1>7. WindowsCounted'
  BY <1>4, <1>5, <1>6 DEF ApiInv, WindowsCounted
<1>8. CountersEnd' /\ CountersTimely'
  <2>1. CountersEnd'
    BY <1>1, <1>3, <1>4 DEF ApiInv, CountersEnd
  <2>2. CountersTimely'
    BY <1>3, ApiStates DEF ApiInv, CountersTimely
  <2>. QED
    BY <2>1, <2>2
<1>9. RequestsTimely'
  <2>1. \A r \in Requests : requests[r] \in Metered => requests[r].at <= clock'
    BY <1>1, <1>2, ApiStates DEF ApiInv, RequestsTimely
  <2>. QED
    BY <1>1, <2>1 DEF ApiInv, RequestsTimely
<1>10. ApiTypes'
  BY <1>1, <1>3 DEF ApiInv, ApiTypes
<1>. QED
  BY <1>1, <1>7, <1>8, <1>9, <1>10, ClockWithin DEF ApiInv

LEMMA ApiStart == EnvironmentInit /\ ApiInit => ApiInv
<1>. SUFFICES ASSUME EnvironmentInit, ApiInit PROVE ApiInv
  OBVIOUS
<1>1. EnvironmentTypeOK /\ ApiTypes
  BY ApiStates, EnvironmentAssumption
  DEF EnvironmentInit, EnvironmentTypeOK, ApiInit, ApiTypes
<1>2. {r \in Requests : requests[r] \in Metered} = {}
  BY ApiStates DEF ApiInit, Metering
<1>3. RequestsTimely
  <2>1. IsFiniteSet({r \in Requests : requests[r] \in Metered})
    BY <1>2, FS_EmptySet
  <2>. QED
    BY <1>2, <2>1 DEF RequestsTimely
<1>4. CountersTimely
  BY ApiStates DEF ApiInit, CountersTimely
<1>5. \A k, b : Of(k, b, Granting) = {} /\ Of(k, b, Counting) = {}
  BY ApiStates DEF ApiInit, Of, Granting, Counting
<1>6. WindowsCounted
  <2>1. \A k \in ApiKeys, b \in Buckets : 0 <= counters[k][b].n
    BY <1>1 DEF ApiTypes, Counter
  <2>2. Cardinality({}) = 0 /\ 0 <= ApiLimit
    BY FS_EmptySet, ApiAssumption
  <2>. QED
    BY <1>5, <2>1, <2>2 DEF WindowsCounted
<1>7. CountersEnd
  BY DEF ApiInit, CountersEnd
<1>. QED
  BY <1>1, <1>3, <1>4, <1>6, <1>7 DEF ApiInv

LEMMA ApiStep ==
  ASSUME ApiInv, [ApiNext \/ ApiPass \/ ApiElsewhere]_apis
  PROVE  ApiInv'
<1>1. CASE UNCHANGED apiVars /\ (Upset \/ UNCHANGED environment)
  <2>1. clock' = clock /\ EnvironmentTypeOK'
    BY <1>1, ClockWithin DEF Upset, environment, ApiInv, Calm
  <2>2. ApiTypes' /\ RequestsTimely' /\ CountersTimely' /\ CountersEnd'
    BY <1>1, <2>1 DEF apiVars, ApiInv, ApiTypes, RequestsTimely, CountersTimely, CountersEnd, Of
  <2>3. WindowsCounted'
    <3>1. \A k, b, S : Of(k, b, S)' = Of(k, b, S)
      BY <1>1 DEF apiVars, Of
    <3>. QED
      BY <1>1, <2>1, <3>1 DEF apiVars, ApiInv, WindowsCounted
  <2>. QED
    BY <2>1, <2>2, <2>3 DEF ApiInv
<1>2. ASSUME NEW r \in Requests,
             \/ Authenticate(r) \/ Incr(r) \/ PExpire(r) \/ RedisFails(r) \/ RequestDies(r)
      PROVE  ApiInv'
  BY <1>2, AuthenticateKeeps, IncrKeeps, PExpireKeeps, CutOffKeeps
<1>3. CASE DeactivateOwner \/ \E k \in ApiKeys : RevokeKey(k)
  <2>1. Upset /\ UNCHANGED <<counters, requests, endless>>
    BY <1>3 DEF DeactivateOwner, RevokeKey
  <2>2. clock' = clock /\ EnvironmentTypeOK'
    BY <2>1, ClockWithin DEF Upset, ApiInv
  <2>3. ApiTypes' /\ RequestsTimely' /\ CountersTimely' /\ CountersEnd'
    BY <2>1, <2>2 DEF ApiInv, ApiTypes, RequestsTimely, CountersTimely, CountersEnd, Of
  <2>4. WindowsCounted'
    <3>1. \A k, b, S : Of(k, b, S)' = Of(k, b, S)
      BY <2>1 DEF Of
    <3>. QED
      BY <2>1, <2>2, <3>1 DEF ApiInv, WindowsCounted
  <2>. QED
    BY <2>2, <2>3, <2>4 DEF ApiInv
<1>4. CASE ApiPass
  BY <1>4, ApiPassKeeps
<1>. QED
  BY <1>1, <1>2, <1>3, <1>4 DEF ApiNext, ApiElsewhere, apis

LEMMA ApiInvariant == ApiSpec => []ApiInv
<1>1. ApiInv /\ [ApiNext \/ ApiPass \/ ApiElsewhere]_apis => ApiInv'
  BY ApiStep
<1>. QED
  BY <1>1, ApiStart, PTL DEF ApiSpec

\* The limit of an open window holds for any keys, requests, limit and length
\* of a window, however INCR, PEXPIRE, time-outs and crashes follow each other
\* (rateLimit in src/lib/api/rate-limit.ts).
THEOREM WindowsHold == ApiSpec => []WindowHeld
<1>1. ApiInv => WindowHeld
  <2>. SUFFICES ASSUME ApiInv, NEW k \in ApiKeys, NEW b \in Buckets, b = Bucket(clock)
                PROVE  /\ Cardinality(Of(k, b, {"granted"})) <= ApiLimit
                       /\ Cardinality(Of(k, b, {"granted", "limited"})) <= counters[k][b].n
    BY DEF WindowHeld
  <2>1. /\ Cardinality(Of(k, b, Granting)) <= ApiLimit
        /\ Cardinality(Of(k, b, Counting)) <= counters[k][b].n
    BY DEF ApiInv, WindowsCounted, Buckets
  <2>2. /\ Cardinality(Of(k, b, Granting)) \in Nat
        /\ Cardinality(Of(k, b, Counting)) \in Nat
        /\ Cardinality(Of(k, b, {"granted"})) \in Nat
        /\ Cardinality(Of(k, b, {"granted", "limited"})) \in Nat
    BY OfFinite DEF ApiInv, Granting, Counting, Metering
  <2>3. Cardinality(Of(k, b, {"granted"})) <= Cardinality(Of(k, b, Granting))
    BY OfFinite DEF ApiInv, Granting, Metering
  <2>4. Cardinality(Of(k, b, {"granted", "limited"})) <= Cardinality(Of(k, b, Counting))
    BY OfFinite DEF ApiInv, Counting, Metering
  <2>5. ApiLimit \in Nat /\ counters[k][b].n \in Nat
    BY ApiAssumption DEF ApiInv, ApiTypes, Counter
  <2>. QED
    BY <2>1, <2>2, <2>3, <2>4, <2>5
<1>. QED
  BY <1>1, ApiInvariant, PTL

\* A counter without an end is the trace of a request that was cut off
\* between INCR and PEXPIRE, or is on its way there.
THEOREM CountersDoEnd == ApiSpec => []CountersEnd
<1>1. ApiInv => CountersEnd
  BY DEF ApiInv
<1>. QED
  BY <1>1, ApiInvariant, PTL
=============================================================================
