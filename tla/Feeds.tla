--------------------------------- MODULE Feeds ---------------------------------
(***************************************************************************)
(* Feed runs: runFeed and its handlers for vulnerabilities (KEV, EPSS, NVD) *)
(* and news (RSS), src/lib/feeds/run.ts, under the feed worker of           *)
(* src/worker.ts and the feed queue.                                        *)
(*                                                                         *)
(* A run advances one await at a time.  The vulnerability table is shared   *)
(* by every feed: KEV and NVD read a row and write the whole row back, EPSS *)
(* updates one column of rows it listed earlier, NVD ends by pruning.       *)
(***************************************************************************)
EXTENDS Integers, FiniteSets, FiniteSetsExt

CONSTANTS
  Cves,      \* Vulnerability.cveId
  Articles,  \* NewsItem.url
  Jobs,      \* feed jobs; an id names its source and minute and never recurs
  Sources,   \* Source.id
  SourceOf,  \* [Jobs -> Sources]
  Handler,   \* [Sources -> Handlers]: the catalogue's handler for the source
  Slots,     \* concurrent jobs of the feed worker
  Batches,   \* bound: the sets of jobs queued in one behaviour
  MaxErrors, MaxCrashes  \* bounds: failed fetches, deaths of the worker

Handlers == {"kev", "nvd", "epss", "rss", "none"}
Items == Cves \cup Articles
Facts == {"kev", "cvss", "date", "epss"}
MaxAttempts == 3           \* defaultJobOptions.attempts
Missing == {"missing"}     \* no row; a row is the set of its non-null columns
Nothing == "nothing"       \* no item in hand

ASSUME JobsAssumption ==
  /\ SourceOf \in [Jobs -> Sources]
  /\ Handler \in [Sources -> Handlers]
  /\ IsFiniteSet(Jobs)
ASSUME ItemsAssumption == Cves \cap Articles = {} /\ Nothing \notin Items
ASSUME BoundsAssumption == MaxErrors \in Nat /\ MaxCrashes \in Nat

VARIABLES
  rows,      \* Vulnerability and NewsItem rows
  aged,      \* CVEs whose publication date is past the retention window
  health,    \* Source.lastStatus and Source.errorCount
  counted,   \* Source.itemsIngested, as how often each article was counted
  jobs,      \* BullMQ's record of each job
  run,       \* what each slot is doing
  budget,    \* what is left of the environment's bounds
  \* history, for the properties only:
  told,      \* what the feeds have said of a CVE since its row was created
  raced      \* CVEs written while another run held an older reading of them

vars == <<rows, aged, health, counted, jobs, run, budget, told, raced>>

IdleRun == [pc |-> "idle"]
Busy(w) == run[w] # IdleRun
Feed(w) == Handler[SourceOf[run[w].job]]
At(w, pc) == run[w].pc = pc

\* What a feed's entry carries; an absent value is null and brings nothing.
Brings(feed) ==
  CASE feed = "kev"  -> {"kev"}
    [] feed = "nvd"  -> {"cvss", "date"}
    [] feed = "epss" -> {"epss"}
    [] OTHER         -> {}

Tracked == {c \in Cves : rows[c] # Missing}

RowState == (SUBSET Facts) \cup {Missing}
RunState ==
  {IdleRun}
  \cup [pc : {"fetch", "list", "look", "save", "score", "record", "settle"}, job : Jobs,
        todo : SUBSET Items, item : Items \cup {Nothing}, snap : RowState,
        created : SUBSET Articles, ok : BOOLEAN]
JobState ==
  [st : {"absent", "waiting", "active", "completed", "failed"}, tries : 0 .. MaxAttempts]

TypeOK ==
  /\ rows \in [Items -> RowState]
  /\ aged \subseteq Cves
  /\ health \in [Sources -> [status : {"never", "ok", "error", "skipped"}, errors : Nat]]
  /\ counted \in [Articles -> Nat]
  /\ jobs \in [Jobs -> JobState]
  /\ run \in [Slots -> RunState]
  /\ budget \in [{"error", "crash"} -> Nat]
  /\ told \in [Cves -> SUBSET Facts]
  /\ raced \subseteq Cves

Init ==
  /\ rows = [x \in Items |-> Missing]
  /\ aged = {}
  /\ health = [s \in Sources |-> [status |-> "never", errors |-> 0]]
  /\ counted = [a \in Articles |-> 0]
  /\ jobs = [j \in Jobs |-> [st |-> "absent", tries |-> 0]]
  /\ run = [w \in Slots |-> IdleRun]
  /\ budget = [error |-> MaxErrors, crash |-> MaxCrashes]
  /\ told = [c \in Cves |-> {}]
  /\ raced = {}

Spend(b) == budget[b] > 0 /\ budget' = [budget EXCEPT ![b] = @ - 1]
table == <<rows, aged, told, raced>>
-----------------------------------------------------------------------------
(* The queue.                                                              *)

Queued == {j \in Jobs : jobs[j].st # "absent"}

\* "Run now", the schedule, or `--run-now`: one job per source and minute.
Enqueue(j) ==
  /\ jobs[j].st = "absent"
  /\ \E B \in Batches : Queued \cup {j} \subseteq B
  /\ jobs' = [jobs EXCEPT ![j].st = "waiting"]
  /\ UNCHANGED <<health, counted, run, budget>> /\ UNCHANGED table

NewRun(j) ==
  [pc |-> "fetch", job |-> j, todo |-> {}, item |-> Nothing, snap |-> Missing,
   created |-> {}, ok |-> TRUE]

Start(w, j) ==
  /\ ~Busy(w) /\ jobs[j].st = "waiting"
  /\ jobs' = [jobs EXCEPT ![j].st = "active"]
  /\ run' = [run EXCEPT ![w] = NewRun(j)]
  /\ UNCHANGED <<health, counted, budget>> /\ UNCHANGED table
-----------------------------------------------------------------------------
(* The handlers.                                                           *)

\* The document arrives and is parsed: any entries, in any order.
Document(feed) == IF feed = "rss" THEN SUBSET Articles ELSE SUBSET Cves

Fetch(w) ==
  /\ At(w, "fetch") /\ Feed(w) # "none"
  /\ \E doc \in Document(Feed(w)) :
       run' = [run EXCEPT ![w].pc = IF Feed(w) = "epss" THEN "list" ELSE "look",
                          ![w].todo = doc]
  /\ UNCHANGED <<health, counted, jobs, budget>> /\ UNCHANGED table

\* upsertVulnerabilities and ingestNews, first statement of an entry: the row
\* as it is now.  An article that is already there is a duplicate.
Hold(w, x) == [run[w] EXCEPT !.pc = "save", !.item = x, !.snap = rows[x]]
Skip(w, x) == [run[w] EXCEPT !.todo = @ \ {x}]
NeverDuplicate(x) == FALSE
Duplicate(x) == x \in Articles /\ rows[x] # Missing

Look(w) ==
  /\ At(w, "look")
  /\ \E x \in run[w].todo :
       run' = [run EXCEPT ![w] =
                 IF Duplicate(x) THEN Skip(w, x) ELSE Hold(w, x)]
  /\ UNCHANGED <<health, counted, jobs, budget>> /\ UNCHANGED table

\* Incoming nulls fall back to the value that was read.  (BlindUpsert is the
\* upsert the code's comment warns about.)
BlindUpsert(snap, feed) == Brings(feed)
Merged(snap, feed) == IF snap = Missing THEN Brings(feed) ELSE snap \cup Brings(feed)

\* A create finds the id taken, or an update finds the row gone.
Rejects(w) == (run[w].snap = Missing) # (rows[run[w].item] = Missing)

HeldByOthers(w, x) == \E v \in Slots \ {w} : At(v, "save") /\ run[v].item = x

\* History of a write of run w on CVE c that brings the feed's facts.
Told(w, c) == [told EXCEPT ![c] = @ \cup Brings(Feed(w))]
Raced(w, c) == IF HeldByOthers(w, c) THEN raced \cup {c} ELSE raced

Save(w) ==
  LET x == run[w].item IN
  /\ At(w, "save") /\ ~Rejects(w)
  /\ rows' = [rows EXCEPT ![x] = Merged(run[w].snap, Feed(w))]
  /\ run' = [run EXCEPT ![w].pc = "look", ![w].todo = @ \ {x}, ![w].item = Nothing,
                        ![w].snap = Missing,
                        ![w].created = IF x \in Articles THEN @ \cup {x} ELSE @]
  /\ IF x \in Cves THEN told' = Told(w, x) /\ raced' = Raced(w, x)
     ELSE UNCHANGED <<told, raced>>
  /\ UNCHANGED <<aged, health, counted, jobs, budget>>

\* EPSS updates only what is tracked when it lists the table.
List(w) ==
  /\ At(w, "list")
  /\ run' = [run EXCEPT ![w].pc = "score", ![w].todo = @ \cap Tracked]
  /\ UNCHANGED <<health, counted, jobs, budget>> /\ UNCHANGED table

Score(w) ==
  /\ At(w, "score")
  /\ \E c \in run[w].todo \cap Tracked :
       /\ rows' = [rows EXCEPT ![c] = @ \cup Brings("epss")]
       /\ run' = [run EXCEPT ![w].todo = @ \ {c}]
       /\ told' = Told(w, c) /\ raced' = Raced(w, c)
  /\ UNCHANGED <<aged, health, counted, jobs, budget>>

\* pruneOldVulnerabilities: old rows, and rows without a date, KEV or not.
Stale(c) == rows[c] # Missing /\ (c \in aged \/ "date" \notin rows[c])
Prune ==
  /\ rows' = [x \in Items |-> IF x \in Cves /\ Stale(x) THEN Missing ELSE rows[x]]
  /\ told' = [c \in Cves |-> IF Stale(c) THEN {} ELSE told[c]]
  /\ raced' = {c \in raced : ~Stale(c)}
  /\ UNCHANGED aged
-----------------------------------------------------------------------------
(* The end of runFeed: the source's health, then the job.                  *)

Recorded(w, status, failures) ==
  LET s == SourceOf[run[w].job] IN
  health' = [health EXCEPT ![s] = [status |-> status, errors |-> @.errors + failures]]
Settling(w, ok) == run' = [run EXCEPT ![w].pc = "settle", ![w].ok = ok]

\* All entries are done; NVD prunes before its health is recorded.
Exhausted(w) == (At(w, "look") \/ At(w, "score")) /\ run[w].todo = {}

PruneNvd(w) ==
  /\ Exhausted(w) /\ Feed(w) = "nvd"
  /\ Prune
  /\ run' = [run EXCEPT ![w].pc = "record"]
  /\ UNCHANGED <<health, counted, jobs, budget>>

Finish(w) ==
  /\ (Exhausted(w) /\ Feed(w) # "nvd") \/ At(w, "record")
  /\ Recorded(w, "ok", 0) /\ Settling(w, TRUE)
  /\ counted' = [a \in Articles |->
                   counted[a] + IF a \in run[w].created THEN 1 ELSE 0]
  /\ UNCHANGED <<jobs, budget>> /\ UNCHANGED table

\* The catch branch: what was created so far is not counted.  (Unnoticed is
\* the slip of a catch that only rethrows.)
Unnoticed(w) == UNCHANGED health
ErrorCounted(w) == Recorded(w, "error", 1)
Caught(w) ==
  /\ ErrorCounted(w) /\ Settling(w, FALSE)
  /\ UNCHANGED <<counted, jobs>> /\ UNCHANGED table

FetchFails(w) ==
  /\ At(w, "fetch") /\ Feed(w) # "none" /\ Spend("error") /\ Caught(w)

SaveRejected(w) == At(w, "save") /\ Rejects(w) /\ Caught(w) /\ UNCHANGED budget

\* One of the listed CVEs was pruned meanwhile; those after it get no score.
ScoreRejected(w) ==
  /\ At(w, "score") /\ ~(run[w].todo \subseteq Tracked)
  /\ Caught(w) /\ UNCHANGED budget

\* A source without a handler: reported, but not as an error of the source.
Unrunnable(w) ==
  /\ At(w, "fetch") /\ Feed(w) = "none"
  /\ Recorded(w, "skipped", 0) /\ Settling(w, FALSE)
  /\ UNCHANGED <<counted, jobs, budget>> /\ UNCHANGED table

\* The handler throws when the run was not ok; the retry's backoff is part of
\* the wait.
AttemptedOffByOne(j, ok) ==
  IF ok THEN [jobs[j] EXCEPT !.st = "completed"]
  ELSE [st |-> IF jobs[j].tries <= MaxAttempts THEN "waiting" ELSE "failed",
        tries |-> jobs[j].tries + 1]
Attempted(j, ok) ==
  IF ok THEN [jobs[j] EXCEPT !.st = "completed"]
  ELSE [st |-> IF jobs[j].tries + 1 < MaxAttempts THEN "waiting" ELSE "failed",
        tries |-> jobs[j].tries + 1]
Settle(w) ==
  /\ At(w, "settle")
  /\ jobs' = [jobs EXCEPT ![run[w].job] = Attempted(run[w].job, run[w].ok)]
  /\ run' = [run EXCEPT ![w] = IdleRun]
  /\ UNCHANGED <<health, counted, budget>> /\ UNCHANGED table
-----------------------------------------------------------------------------
(* The environment.                                                        *)

\* The worker dies; BullMQ makes its active jobs wait again.
Crash ==
  /\ \E w \in Slots : Busy(w)
  /\ Spend("crash")
  /\ run' = [w \in Slots |-> IdleRun]
  /\ jobs' = [j \in Jobs |-> IF jobs[j].st = "active"
                              THEN [jobs[j] EXCEPT !.st = "waiting"] ELSE jobs[j]]
  /\ UNCHANGED <<health, counted>> /\ UNCHANGED table

\* A publication date passes out of the retention window.
Age(c) ==
  /\ c \notin aged
  /\ aged' = aged \cup {c}
  /\ UNCHANGED <<rows, told, raced, health, counted, jobs, run, budget>>

\* `npm run vuln:prune`, at any time.
PruneScript == Prune /\ UNCHANGED <<health, counted, jobs, run, budget>>
-----------------------------------------------------------------------------
Step(w) ==
  \/ Fetch(w) \/ Look(w) \/ Save(w) \/ List(w) \/ Score(w) \/ PruneNvd(w)
  \/ Finish(w) \/ FetchFails(w) \/ SaveRejected(w) \/ ScoreRejected(w)
  \/ Unrunnable(w) \/ Settle(w)

Next ==
  \/ \E j \in Jobs : Enqueue(j) \/ \E w \in Slots : Start(w, j)
  \/ \E w \in Slots : Step(w)
  \/ \E c \in Cves : Age(c)
  \/ PruneScript \/ Crash

Spec == Init /\ [][Next]_vars
-----------------------------------------------------------------------------
(* Properties.                                                             *)

\* Feeds do not erase what another feed knows: as long as no run wrote a CVE
\* while another held an older reading of it, its row carries exactly what
\* the feeds have said of it since it was created, no less and no more.
NothingErased == \A c \in Tracked \ raced : rows[c] = told[c]

\* "Once a CVE is known-exploited it stays that way": the mark goes only
\* with the row.
KevSticks ==
  [][\A c \in Cves :
       rows[c] # Missing /\ rows'[c] # Missing /\ "kev" \in rows[c] =>
         "kev" \in rows'[c]]_vars

\* An article counts as ingested at most once, and only if its row is there,
\* however runs of several sources, retries and crashes overlap.
CountedOnce ==
  \A a \in Articles :
    counted[a] <= 1 /\ (counted[a] = 1 => rows[a] # Missing)

Runnable == {s \in Sources : Handler[s] # "none"}
FailedAttempts(s) ==
  {a \in Jobs \X (1 .. MaxAttempts) : SourceOf[a[1]] = s /\ a[2] <= jobs[a[1]].tries}

\* "A feed that silently stops returning data is worse than no feed": every
\* attempt the queue counts as failed is in the source's error counter.
FailuresShow ==
  \A s \in Runnable : Cardinality(FailedAttempts(s)) <= health[s].errors
=============================================================================
