------------------------------ MODULE Enrichment ------------------------------
(***************************************************************************)
(* Indicator enrichment: the enrichment worker of src/worker.ts, enrichOne,*)
(* enrichAll and recomputeIndicatorConfidence of src/lib/enrichment, the   *)
(* BullMQ queue between the application and the worker, and the server     *)
(* actions that touch the same rows.                                       *)
(*                                                                         *)
(* A runner is a worker slot or a lookup request.  It advances one await   *)
(* at a time: each action below is one database statement, one limiter     *)
(* script, one provider call, or one queue command, with the synchronous   *)
(* code after it.  Any other actor may act between two of them.            *)
(***************************************************************************)
EXTENDS Integers, FiniteSets

CONSTANTS
  Indicators,  \* Indicator.id; a deleted id never comes back
  Providers,   \* PROVIDERS, by name
  Rank,        \* the position of a provider in PROVIDERS
  Otx,         \* the provider whose zero score ends enrichAll early
  VirusTotal,  \* the provider kept out of enrichAll
  Supports,    \* [Indicators -> SUBSET Providers]: configured, and supports(type)
  Daily,       \* providers limited by the day; the others by the minute
  Limit,       \* [Providers -> Nat]: lookups a provider's window allows
  Forces,      \* the kinds of job in play: forced (TRUE), unforced (FALSE)
  Slots,       \* concurrent jobs of the enrichment worker
  Lookups,     \* concurrent Lookup / Bulk lookup requests
  Scores,      \* the scores a provider may give
  HandValues,  \* the confidences an analyst may set
  Default,     \* the confidence an indicator is ingested with
  MaxEnqueues, MaxEdits, MaxErrors, MaxRefusals, MaxCrashes, MaxExpiries, MaxLookups
               \* bounds on what the environment does

NoScore == -1        \* LookupResult.score = null
Due == "due"         \* a delayed job that may run again at any time
NoGate == "none"     \* no provider has refused this run
Jobs == Indicators \X Forces    \* jobId `${indicatorId}__all[__force]`
Runners == Slots \cup Lookups
MaxAttempts == 3                \* defaultJobOptions.attempts
OptScore == Scores \cup {NoScore}
Confidences == Scores \cup HandValues \cup {Default}

ASSUME ScoresAssumption ==
  Scores \subseteq 0 .. 100 /\ HandValues \subseteq 0 .. 100 /\ Default \in 0 .. 100
ASSUME ProvidersAssumption ==
  /\ Rank \in [Providers -> Nat]
  /\ \A p, q \in Providers : Rank[p] = Rank[q] => p = q
  /\ Supports \in [Indicators -> SUBSET Providers]
  /\ Daily \subseteq Providers
  /\ Limit \in [Providers -> Nat]
  /\ Due \notin Providers /\ NoGate \notin Providers
ASSUME RunnersAssumption ==
  /\ Forces \subseteq BOOLEAN
  /\ IsFiniteSet(Slots) /\ IsFiniteSet(Lookups)
  /\ Slots \cap Lookups = {}
ASSUME BoundsAssumption ==
  {MaxEnqueues, MaxEdits, MaxErrors, MaxRefusals, MaxCrashes, MaxExpiries,
   MaxLookups} \subseteq Nat

VARIABLES
  indicator,  \* Indicator rows: exists, confidence, confidenceLocked, whitelisted
  rows,       \* Enrichment rows, unique on indicator and provider
  tokens,     \* what the limiter has left in each provider's window
  jobs,       \* BullMQ's record of each job id
  run,        \* what each runner is doing
  budget,     \* what is left of the environment's bounds
  \* history, for the properties only:
  lastGood,   \* the last score stored for an indicator and provider
  evidence,   \* the values an indicator's confidence may legitimately have
  leaks,      \* tokens spent on an indicator since it was whitelisted
  answered    \* per job: providers whose still-fresh row this job paid for

observed == <<lastGood, evidence, leaks, answered>>
vars == <<indicator, rows, tokens, jobs, run, budget,
          lastGood, evidence, leaks, answered>>

NoRow == [kind |-> "none"]
Row(s, failed, fresh) ==
  [kind |-> "row", score |-> s, failed |-> failed, fresh |-> fresh]
IdleRun == [pc |-> "idle"]

Actor(r) == run[r].job[1]              \* the indicator a busy runner works on
Forced(r) == run[r].job[2]
LowestRank(S) == CHOOSE p \in S : \A q \in S : Rank[p] <= Rank[q]
Current(r) == LowestRank(run[r].todo)  \* the provider the loop has reached

PcNames == {"look", "cache", "quota", "call", "rescore", "write"}
RunState ==
  {IdleRun}
  \cup [pc : PcNames, job : Indicators \X BOOLEAN, todo : SUBSET Providers,
        gate : Providers \cup {Due, NoGate}, fetched : BOOLEAN,
        conf : Confidences, locked : BOOLEAN]
RowState ==
  {NoRow} \cup [kind : {"row"}, score : OptScore, failed : BOOLEAN, fresh : BOOLEAN]
JobState ==
  [st : {"absent", "waiting", "active", "delayed", "completed", "failed"},
   tries : 0 .. MaxAttempts, gate : Providers \cup {Due}]
IndicatorState ==
  [exists : BOOLEAN, conf : Confidences, locked : BOOLEAN, white : BOOLEAN]
Bounds == {"enqueue", "edit", "error", "refusal", "crash", "expire", "lookup"}

TypeOK ==
  /\ indicator \in [Indicators -> IndicatorState]
  /\ rows \in [Indicators -> [Providers -> RowState]]
  /\ tokens \in [Providers -> Nat]
  /\ jobs \in [Jobs -> JobState]
  /\ run \in [Runners -> RunState]
  /\ budget \in [Bounds -> Nat]
  /\ lastGood \in [Indicators -> [Providers -> OptScore]]
  /\ evidence \in [Indicators -> SUBSET Confidences]
  /\ leaks \in [Indicators -> Nat]
  /\ answered \in [Jobs -> SUBSET Providers]

Ingested == [exists |-> TRUE, conf |-> Default, locked |-> FALSE, white |-> FALSE]
NoJob == [st |-> "absent", tries |-> 0, gate |-> Due]

Init ==
  /\ indicator = [i \in Indicators |-> Ingested]
  /\ rows = [i \in Indicators |-> [p \in Providers |-> NoRow]]
  /\ tokens = Limit
  /\ jobs = [j \in Jobs |-> NoJob]
  /\ run = [r \in Runners |-> IdleRun]
  /\ budget = [enqueue |-> MaxEnqueues, edit |-> MaxEdits, error |-> MaxErrors,
               refusal |-> MaxRefusals, crash |-> MaxCrashes,
               expire |-> MaxExpiries, lookup |-> MaxLookups]
  /\ lastGood = [i \in Indicators |-> [p \in Providers |-> NoScore]]
  /\ evidence = [i \in Indicators |-> {Default}]
  /\ leaks = [i \in Indicators |-> 0]
  /\ answered = [j \in Jobs |-> {}]

Spend(b) == budget[b] > 0 /\ budget' = [budget EXCEPT ![b] = @ - 1]
-----------------------------------------------------------------------------
(* BullMQ.  Adding a job whose id is present in any state is a no-op.      *)

\* enrichAllPending queues unforced jobs for indicators that have no rows and
\* are not whitelisted; enrichIndicatorNow queues a forced job.
Enqueue(j) ==
  LET i == j[1] IN
  /\ jobs[j].st = "absent"
  /\ indicator[i].exists
  /\ j[2] \/ (~indicator[i].white /\ \A p \in Providers : rows[i][p] = NoRow)
  /\ Spend("enqueue")
  /\ jobs' = [jobs EXCEPT ![j] = [NoJob EXCEPT !.st = "waiting"]]
  /\ UNCHANGED <<indicator, rows, tokens, run>> /\ UNCHANGED observed

\* removeOnComplete / removeOnFail: a finished job's id becomes free again.
Evict(j) ==
  /\ jobs[j].st \in {"completed", "failed"}
  /\ jobs' = [jobs EXCEPT ![j] = NoJob]
  /\ UNCHANGED <<indicator, rows, tokens, run, budget>> /\ UNCHANGED observed

\* A delayed job's time comes.
Promote(j) ==
  /\ jobs[j].st = "delayed" /\ jobs[j].gate = Due
  /\ jobs' = [jobs EXCEPT ![j].st = "waiting"]
  /\ UNCHANGED <<indicator, rows, tokens, run, budget>> /\ UNCHANGED observed

\* enrichAll's loop: configured providers that support the type, minus
\* VirusTotal; nothing when the indicator is gone.
Plan(i) ==
  IF indicator[i].exists THEN Supports[i] \ {VirusTotal} ELSE {}

NewRun(j, todo) ==
  [pc |-> "look", job |-> j, todo |-> todo, gate |-> NoGate, fetched |-> FALSE,
   conf |-> Default, locked |-> FALSE]

\* PRIORITY: forced jobs are INTERACTIVE and go before BULK ones.
Start(w, j) ==
  /\ run[w] = IdleRun
  /\ jobs[j].st = "waiting"
  /\ ~j[2] => \A k \in Jobs : k[2] => jobs[k].st # "waiting"
  /\ jobs' = [jobs EXCEPT ![j].st = "active"]
  /\ run' = [run EXCEPT ![w] = NewRun(j, Plan(j[1]))]
  /\ UNCHANGED <<indicator, rows, tokens, budget>> /\ UNCHANGED observed

\* lookupIndicator and bulkLookup call enrichOne inline, unforced, for the
\* providers the analyst ticked; the indicator was ingested just before.
Lookup(u, i, asked) ==
  /\ run[u] = IdleRun
  /\ indicator[i].exists
  /\ Spend("lookup")
  /\ run' = [run EXCEPT ![u] = NewRun(<<i, FALSE>>, asked)]
  /\ UNCHANGED <<indicator, rows, tokens, jobs>> /\ UNCHANGED observed
-----------------------------------------------------------------------------
(* enrichOne, one provider of the loop.                                    *)

At(r, pc) == run[r].pc = pc
Goto(r, pc) == run' = [run EXCEPT ![r].pc = pc]
\* The loop moves on to the next provider.
Advance(r) ==
  run' = [run EXCEPT ![r].pc = "look", ![r].todo = @ \ {Current(r)}]
\* The outcome is rate_limited; the worker will look for the first of these.
AdvanceLimited(r, g) ==
  run' = [run EXCEPT ![r].pc = "look", ![r].todo = @ \ {Current(r)},
                     ![r].gate = IF @ = NoGate THEN g ELSE @]

\* Reads the indicator; each reason to skip is an early return.
SkippedUnlessWhite(i, p) == ~indicator[i].exists \/ p \notin Supports[i]
Skipped(i, p) ==
  ~indicator[i].exists \/ p \notin Supports[i] \/ indicator[i].white

Look(r) ==
  /\ At(r, "look") /\ run[r].todo # {}
  /\ IF Skipped(Actor(r), Current(r)) THEN Advance(r)
     ELSE Goto(r, IF Forced(r) THEN "quota" ELSE "cache")
  /\ UNCHANGED <<indicator, rows, tokens, jobs, budget>> /\ UNCHANGED observed

\* A row that has not expired answers, an error's as well as a result's.
\* (FreshIfScored takes a null or zero score for no answer.)
FreshIfScored(i, p) ==
  rows[i][p] # NoRow /\ rows[i][p].fresh /\ rows[i][p].score > 0
Fresh(i, p) == rows[i][p] # NoRow /\ rows[i][p].fresh

Cache(r) ==
  /\ At(r, "cache")
  /\ IF Fresh(Actor(r), Current(r)) THEN Advance(r) ELSE Goto(r, "quota")
  /\ UNCHANGED <<indicator, rows, tokens, jobs, budget>> /\ UNCHANGED observed

\* consumeToken (module RateLimiter has the detail).
Quota(r) ==
  /\ At(r, "quota")
  /\ IF tokens[Current(r)] > 0
     THEN /\ tokens' = [tokens EXCEPT ![Current(r)] = @ - 1]
          /\ Goto(r, "call")
          /\ leaks' = [leaks EXCEPT ![Actor(r)] =
                         IF indicator[Actor(r)].white THEN @ + 1 ELSE @]
     ELSE AdvanceLimited(r, Current(r)) /\ UNCHANGED <<tokens, leaks>>
  /\ UNCHANGED <<indicator, rows, jobs, budget, lastGood, evidence, answered>>

\* The job, if any, now has a fresh row for its provider.
Paid(r) ==
  IF r \in Slots THEN [answered EXCEPT ![run[r].job] = @ \cup {Current(r)}]
  ELSE answered

\* The provider answers and the row is upserted.  A zero from OTX ends
\* enrichAll's loop; the lookup pages have no such shortcut.
Answer(r, s) ==
  LET i == Actor(r) p == Current(r)
      done == r \in Slots /\ p = Otx /\ s = 0
  IN
  /\ At(r, "call") /\ indicator[i].exists
  /\ rows' = [rows EXCEPT ![i][p] = Row(s, FALSE, TRUE)]
  /\ run' = [run EXCEPT ![r].pc = "look", ![r].fetched = TRUE,
                        ![r].todo = IF done THEN {} ELSE @ \ {p}]
  /\ lastGood' = [lastGood EXCEPT ![i][p] = s]
  /\ evidence' = [evidence EXCEPT ![i] = IF s = NoScore THEN @ ELSE @ \cup {s}]
  /\ answered' = Paid(r)
  /\ UNCHANGED <<indicator, tokens, jobs, budget, leaks>>

\* ProviderRateLimitError: the token is spent and nothing is stored.
Upstream429(r) ==
  /\ At(r, "call") /\ Spend("refusal")
  /\ AdvanceLimited(r, Due)
  /\ UNCHANGED <<indicator, rows, tokens, jobs>> /\ UNCHANGED observed

\* Any other failure is recorded with a short time to live; an existing row
\* keeps its score.
ErrorRowReset(i, p) == Row(NoScore, TRUE, TRUE)
ErrorRow(i, p) ==
  IF rows[i][p] = NoRow THEN Row(NoScore, TRUE, TRUE)
  ELSE Row(rows[i][p].score, TRUE, TRUE)

Fail(r) ==
  LET i == Actor(r) p == Current(r) IN
  /\ At(r, "call") /\ indicator[i].exists /\ Spend("error")
  /\ rows' = [rows EXCEPT ![i][p] = ErrorRow(i, p)]
  /\ Advance(r)
  /\ answered' = Paid(r)
  /\ UNCHANGED <<indicator, tokens, jobs, lastGood, evidence, leaks>>
-----------------------------------------------------------------------------
(* The end of the worker's handler.                                        *)

Stop(r, job) ==
  /\ run' = [run EXCEPT ![r] = IdleRun]
  /\ jobs' = IF r \in Slots THEN [jobs EXCEPT ![run[r].job] = job] ELSE jobs
  /\ answered' = IF r \in Slots /\ job.st # "delayed"
                   THEN [answered EXCEPT ![run[r].job] = {}] ELSE answered

Completed(r) == [jobs[run[r].job] EXCEPT !.st = "completed"]
\* moveToDelayed past the first refusal; no attempt is counted.  (A job that
\* returned without being moved would stay active for ever.)
DeferredNowhere(r) == jobs[run[r].job]
Deferred(r) == [jobs[run[r].job] EXCEPT !.st = "delayed", !.gate = run[r].gate]
\* The handler rejects: retried with backoff until the attempts are used up.
Retried(r) ==
  LET n == jobs[run[r].job].tries + 1 IN
  [st |-> IF n < MaxAttempts THEN "delayed" ELSE "failed", tries |-> n, gate |-> Due]

\* The loop is over.  A deferral returns before the recompute; a run that
\* fetched nothing has nothing to recompute; lookups never recompute.
LoopDone(r) == At(r, "look") /\ run[r].todo = {}
Recomputes(r) == r \in Slots /\ run[r].gate = NoGate /\ run[r].fetched

Defer(r) ==
  /\ LoopDone(r) /\ r \in Slots /\ run[r].gate # NoGate
  /\ Stop(r, Deferred(r))
  /\ UNCHANGED <<indicator, rows, tokens, budget, lastGood, evidence, leaks>>

Finish(r) ==
  /\ LoopDone(r) /\ (r \in Lookups \/ (run[r].gate = NoGate /\ ~run[r].fetched))
  /\ Stop(r, Completed(r))
  /\ UNCHANGED <<indicator, rows, tokens, budget, lastGood, evidence, leaks>>

\* The provider answered but the indicator was deleted meanwhile: both the
\* upsert and the error upsert violate the foreign key, and enrichOne rejects.
Orphaned(r) ==
  /\ At(r, "call") /\ ~indicator[Actor(r)].exists
  /\ Stop(r, Retried(r))
  /\ UNCHANGED <<indicator, rows, tokens, budget, lastGood, evidence, leaks>>

\* recomputeIndicatorConfidence, first statement: confidence and lock.
Recompute(r) ==
  /\ LoopDone(r) /\ Recomputes(r)
  /\ IF indicator[Actor(r)].exists
     THEN /\ run' = [run EXCEPT ![r].pc = "rescore",
                                ![r].conf = indicator[Actor(r)].conf,
                                ![r].locked = indicator[Actor(r)].locked]
          /\ UNCHANGED <<jobs, answered>>
     ELSE Stop(r, Completed(r))
  /\ UNCHANGED <<indicator, rows, tokens, budget, lastGood, evidence, leaks>>

Greatest(S) == CHOOSE n \in S : \A m \in S : m <= n
\* pickIndicatorConfidence.  (PickMaxOfNone is the slip of taking the maximum
\* of an empty list, which in JavaScript is minus infinity.)
PickMaxOfNone(current, locked, scores) ==
  IF locked THEN current ELSE IF scores = {} THEN NoScore ELSE Greatest(scores)
Pick(current, locked, scores) ==
  IF locked \/ scores = {} THEN current ELSE Greatest(scores)

\* Rows without an error and with a score.
Usable(i) == {p \in Providers : rows[i][p] # NoRow /\ ~rows[i][p].failed
                                 /\ rows[i][p].score # NoScore}
UsableScores(i) == {rows[i][p].score : p \in Usable(i)}

\* Second statement: the scores; nothing is written when nothing changes.
Rescore(r) ==
  LET next == Pick(run[r].conf, run[r].locked, UsableScores(Actor(r))) IN
  /\ At(r, "rescore")
  /\ IF next = run[r].conf THEN Stop(r, Completed(r))
     ELSE /\ run' = [run EXCEPT ![r].pc = "write", ![r].conf = next]
          /\ UNCHANGED <<jobs, answered>>
  /\ UNCHANGED <<indicator, rows, tokens, budget, lastGood, evidence, leaks>>

\* Third statement: an unconditional update of the confidence.
Write(r) ==
  LET i == Actor(r) IN
  /\ At(r, "write")
  /\ IF indicator[i].exists
     THEN /\ indicator' = [indicator EXCEPT ![i].conf = run[r].conf]
          /\ Stop(r, Completed(r))
     ELSE Stop(r, Retried(r)) /\ UNCHANGED indicator
  /\ UNCHANGED <<rows, tokens, budget, lastGood, evidence, leaks>>
-----------------------------------------------------------------------------
(* The environment.                                                        *)

\* A window ends: minute windows alone, or, at midnight, all of them.  What
\* waits for a provider whose window ended is due.
Released(S, rec) == IF rec.gate \in S THEN [rec EXCEPT !.gate = Due] ELSE rec
WindowEnds(S) ==
  /\ \E p \in S : tokens[p] < Limit[p]
  /\ tokens' = [p \in Providers |-> IF p \in S THEN Limit[p] ELSE tokens[p]]
  /\ jobs' = [j \in Jobs |-> Released(S, jobs[j])]
  /\ run' = [r \in Runners |-> IF run[r] = IdleRun THEN IdleRun ELSE Released(S, run[r])]
  /\ UNCHANGED <<indicator, rows, budget>> /\ UNCHANGED observed
NewMinute == WindowEnds(Providers \ Daily)
NewDay == WindowEnds(Providers)

\* A row passes its expiresAt.
Expire(i, p) ==
  /\ rows[i][p] # NoRow /\ rows[i][p].fresh /\ Spend("expire")
  /\ rows' = [rows EXCEPT ![i][p].fresh = FALSE]
  /\ answered' = [j \in Jobs |-> IF j[1] = i THEN answered[j] \ {p} ELSE answered[j]]
  /\ UNCHANGED <<indicator, tokens, jobs, run, lastGood, evidence, leaks>>

\* The worker process dies; BullMQ finds its active jobs stalled and makes
\* them wait again.
Crash ==
  /\ \E w \in Slots : run[w] # IdleRun
  /\ Spend("crash")
  /\ run' = [r \in Runners |-> IF r \in Slots THEN IdleRun ELSE run[r]]
  /\ jobs' = [j \in Jobs |-> IF jobs[j].st = "active"
                              THEN [jobs[j] EXCEPT !.st = "waiting"] ELSE jobs[j]]
  /\ UNCHANGED <<indicator, rows, tokens>> /\ UNCHANGED observed

\* updateIndicatorConfidence: an equal value is not written.
SetConfidence(i, c, lock) ==
  /\ indicator[i].exists /\ (indicator[i].conf # c \/ indicator[i].locked # lock)
  /\ Spend("edit")
  /\ indicator' = [indicator EXCEPT ![i].conf = c, ![i].locked = lock]
  /\ evidence' = [evidence EXCEPT ![i] = @ \cup {c}]
  /\ UNCHANGED <<rows, tokens, jobs, run, lastGood, leaks, answered>>

SetWhitelisted(i, white) ==
  /\ indicator[i].exists /\ indicator[i].white # white
  /\ Spend("edit")
  /\ indicator' = [indicator EXCEPT ![i].white = white]
  /\ leaks' = [leaks EXCEPT ![i] = 0]
  /\ UNCHANGED <<rows, tokens, jobs, run, lastGood, evidence, answered>>

\* deleteIndicator; the enrichment rows go with it (onDelete: Cascade).
Delete(i) ==
  /\ indicator[i].exists
  /\ Spend("edit")
  /\ indicator' = [indicator EXCEPT ![i] = [Ingested EXCEPT !.exists = FALSE]]
  /\ rows' = [rows EXCEPT ![i] = [p \in Providers |-> NoRow]]
  /\ lastGood' = [lastGood EXCEPT ![i] = [p \in Providers |-> NoScore]]
  /\ answered' = [j \in Jobs |-> IF j[1] = i THEN {} ELSE answered[j]]
  /\ leaks' = [leaks EXCEPT ![i] = 0]
  /\ evidence' = [evidence EXCEPT ![i] = {Default}]
  /\ UNCHANGED <<tokens, jobs, run>>
-----------------------------------------------------------------------------
RunnerStep(r) ==
  \/ Look(r) \/ Cache(r) \/ Quota(r)
  \/ \E s \in OptScore : Answer(r, s)
  \/ Upstream429(r) \/ Fail(r) \/ Orphaned(r)
  \/ Defer(r) \/ Finish(r)
  \/ Recompute(r) \/ Rescore(r) \/ Write(r)

Queue ==
  \E j \in Jobs : Enqueue(j) \/ Evict(j) \/ Promote(j)
                  \/ \E w \in Slots : Start(w, j)

Analyst ==
  \E i \in Indicators :
    \/ \E c \in HandValues, lock \in BOOLEAN : SetConfidence(i, c, lock)
    \/ \E white \in BOOLEAN : SetWhitelisted(i, white)
    \/ Delete(i)
    \/ \E u \in Lookups, asked \in (SUBSET Providers) \ {{}} : Lookup(u, i, asked)

Time ==
  \/ NewMinute \/ NewDay
  \/ \E i \in Indicators, p \in Providers : Expire(i, p)

Next ==
  \/ \E r \in Runners : RunnerStep(r)
  \/ Queue \/ Analyst \/ Time \/ Crash

Spec == Init /\ [][Next]_vars

\* A slot that can take a job or a step does; windows end; delays pass.
Fairness ==
  /\ \A r \in Runners : WF_vars(RunnerStep(r))
  /\ \A j \in Jobs : WF_vars(Promote(j)) /\ SF_vars(\E w \in Slots : Start(w, j))
  /\ WF_vars(NewMinute) /\ WF_vars(NewDay)
FairSpec == Spec /\ Fairness
-----------------------------------------------------------------------------
(* Properties.                                                             *)

\* A failed lookup never costs the last score a provider gave: whatever
\* order results and errors of concurrent runs are stored in, a row's score
\* is the last one answered (enrich.ts upserts errors without the score).
LastScoreKept ==
  \A i \in Indicators, p \in Providers :
    rows[i][p] # NoRow => rows[i][p].score = lastGood[i][p]

\* An indicator's confidence is always one that somebody vouched for: the
\* ingest default, a value an analyst set, or a score a provider answered
\* for this indicator, never a value made up by recomputing.
ConfidenceHasEvidence ==
  \A i \in Indicators : indicator[i].conf \in evidence[i]

\* Whitelisting stops the spending: tokens spent on an indicator after it was
\* whitelisted are those of lookups already past the check, one per runner.
WhitelistLeakBounded ==
  \A i \in Indicators : leaks[i] <= Cardinality(Runners)

Busy(i) ==
  \/ \E f \in Forces : jobs[<<i, f>>].st \in {"waiting", "active", "delayed"}
  \/ \E r \in Runners : run[r] # IdleRun /\ Actor(r) = i

\* An analyst gave the indicator a confidence (no provider gives these values).
HandSet(i) == evidence[i] \cap HandValues # {}

\* "The max provider score wins": when nothing is pending for an indicator
\* whose confidence no analyst has set by hand, no provider's detection is larger
\* than its confidence.
NoBuriedDetection ==
  \A i \in Indicators :
    indicator[i].exists /\ ~HandSet(i) /\ ~Busy(i) =>
      \A s \in UsableScores(i) : s <= indicator[i].conf

Spends(r) == At(r, "quota") /\ run'[r].pc = "call"

\* Deferral is resumable: an unforced job that comes back never pays again
\* for a provider it already has a fresh row from ("cache-first ... never
\* throwing away work").
NoWorkThrownAway ==
  [][\A w \in Slots : Spends(w) /\ ~Forced(w) =>
       Current(w) \notin answered[run[w].job]]_vars

\* The same for every job, forced ones included.
NoJobPaysTwice ==
  [][\A w \in Slots : Spends(w) => Current(w) \notin answered[run[w].job]]_vars

\* "An analyst-locked confidence is never overwritten": while the lock is on,
\* only an analyst's edit changes the confidence.
LockIsRespected ==
  [][\A i \in Indicators :
       indicator[i].locked /\ indicator'[i].exists
         /\ indicator'[i].conf # indicator[i].conf =>
       \E c \in HandValues, lock \in BOOLEAN : SetConfidence(i, c, lock)]_vars

\* Every job that is queued ends: deferrals, retries and crashes included.
JobsEnd ==
  \A j \in Jobs : jobs[j].st = "waiting" ~> jobs[j].st \in {"completed", "failed", "absent"}
=============================================================================
