-------------------------- MODULE EnrichmentProofs --------------------------
(*****************************************************************************)
(* What the enrichment pipeline keeps, for every set of indicators,          *)
(* providers and runners and every bound.                                    *)
(*                                                                           *)
(* It keeps its types. Types alone are not inductive: a slot that stops      *)
(* writes the record of its job, so its job must be one of the queue and     *)
(* have an attempt left, and what it reads of the loop's next provider       *)
(* must exist. TypeInv adds that bookkeeping; a lemma per action shows       *)
(* that it is kept. The state is cut into three parts: the runs with the     *)
(* bookkeeping (RunPart), the job records (JobPart), the rest (DataPart).    *)
(*                                                                           *)
(* The safety properties stand on top of it. Each has an inductive           *)
(* invariant of its own, and they share two facts: how a step moves a        *)
(* runner (Moves), and how it changes the rows (RowSteps) and the            *)
(* indicators (IndicatorSteps).                                              *)
(*****************************************************************************)
EXTENDS Enrichment, FiniteSetTheorems, WellFoundedInduction, TLAPS

BusyRun ==
  [pc : PcNames, job : Indicators \X BOOLEAN, todo : SUBSET Providers,
   gate : Providers \cup {Due, NoGate}, fetched : BOOLEAN,
   conf : Confidences, locked : BOOLEAN]

\* The job a slot works on is active, and no other slot works on it.
SlotsMatchJobs ==
  \A w \in Slots : run[w] # IdleRun =>
    /\ run[w].job \in Jobs
    /\ jobs[run[w].job].st = "active"
    /\ \A v \in Slots : v # w /\ run[v] # IdleRun => run[v].job # run[w].job

\* A job that is still to run has an attempt left.
AttemptsLeft ==
  \A j \in Jobs : jobs[j].st \in {"waiting", "active", "delayed"} =>
    jobs[j].tries < MaxAttempts

\* Inside enrichOne the loop has a provider at hand.
InLoop ==
  \A r \in Runners : run[r].pc \in {"cache", "quota", "call"} => run[r].todo # {}

TypeInv == TypeOK /\ SlotsMatchJobs /\ AttemptsLeft /\ InLoop

\* Every non-empty set of naturals has a least element.
LEMMA LeastNatural ==
  ASSUME NEW S, S \subseteq Nat, S # {}
  PROVE  \E n \in S : \A m \in S : n <= m
<1>. DEFINE R == {ss \in Nat \X Nat : ss[1] < ss[2]}
<1>1. IsWellFoundedOn(R, Nat)
  BY NatLessThanWellFounded DEF OpToRel
<1>2. \E n \in S : \A m \in S : ~ (<<m, n>> \in R)
  BY <1>1, WFMin
<1>3. \A n, m \in S : ~ (<<m, n>> \in R) => n <= m
  OBVIOUS
<1>. HIDE DEF R
<1>. QED
  BY <1>2, <1>3

\* The loop's next provider is one of those left to do.
LEMMA LowestRankIsMember ==
  ASSUME NEW S, S \subseteq Providers, S # {}
  PROVE  LowestRank(S) \in S
<1>. DEFINE Ranks == {Rank[p] : p \in S}
<1>1. Ranks \subseteq Nat /\ Ranks # {}
  BY ProvidersAssumption
<1>2. PICK n \in Ranks : \A m \in Ranks : n <= m
  BY <1>1, LeastNatural
<1>3. \E p \in S : \A q \in S : Rank[p] <= Rank[q]
  BY <1>2
<1>. QED
  BY <1>3 DEF LowestRank

\* Math.max of scores is one of them.
LEMMA GreatestIsMember ==
  ASSUME NEW S, S \subseteq 0 .. 100, S # {}
  PROVE  Greatest(S) \in S
<1>. DEFINE Complements == {100 - s : s \in S}
<1>1. Complements \subseteq Nat
  OBVIOUS
<1>2. Complements # {}
  OBVIOUS
<1>3. PICK n \in Complements : \A m \in Complements : n <= m
  BY <1>1, <1>2, LeastNatural
<1>4. PICK s \in S : n = 100 - s
  BY <1>3
<1>5. ASSUME NEW m \in S PROVE m <= s
  <2>1. m \in 0 .. 100 /\ s \in 0 .. 100 /\ 100 - m \in Complements
    OBVIOUS
  <2>2. 100 - s <= 100 - m
    BY <2>1, <1>3, <1>4
  <2>. QED
    BY <2>1, <2>2
<1>. QED
  BY <1>5 DEF Greatest
-----------------------------------------------------------------------------
LEMMA BusyRunType ==
  ASSUME TypeOK, NEW r \in Runners, run[r] # IdleRun
  PROVE  run[r] \in BusyRun
BY DEF TypeOK, RunState, BusyRun

LEMMA IdleRunType == IdleRun \in RunState /\ \A x \in BusyRun : x \in RunState /\ x # IdleRun
BY DEF RunState, BusyRun, IdleRun, PcNames

LEMMA CurrentType ==
  ASSUME TypeInv, NEW r \in Runners, run[r] # IdleRun, run[r].todo # {}
  PROVE  Current(r) \in run[r].todo /\ Current(r) \in Providers
<1>1. run[r].todo \subseteq Providers
  BY BusyRunType DEF TypeInv, BusyRun
<1>. QED
  BY <1>1, LowestRankIsMember DEF Current

\* What is known of a runner that is somewhere in enrichOne or the recompute.
LEMMA AtIsBusy ==
  ASSUME TypeInv, NEW r \in Runners, NEW pc \in PcNames, At(r, pc)
  PROVE  /\ run[r] \in BusyRun /\ run[r] # IdleRun
         /\ Actor(r) \in Indicators /\ Forced(r) \in BOOLEAN
<1>1. run[r] # IdleRun
  BY DEF At, IdleRun, PcNames
<1>2. run[r] \in BusyRun
  BY <1>1, BusyRunType DEF TypeInv
<1>. QED
  BY <1>1, <1>2 DEF BusyRun, Actor, Forced

LEMMA InitTypeInv == Init => TypeInv
<1>. SUFFICES ASSUME Init PROVE TypeInv
  OBVIOUS
<1>1. TypeOK
  <2>1. indicator \in [Indicators -> IndicatorState]
    BY DEF Init, Ingested, IndicatorState, Confidences
  <2>2. rows \in [Indicators -> [Providers -> RowState]]
    BY DEF Init, RowState
  <2>3. tokens \in [Providers -> Nat]
    BY ProvidersAssumption DEF Init
  <2>4. jobs \in [Jobs -> JobState]
    BY DEF Init, NoJob, JobState, MaxAttempts
  <2>5. run \in [Runners -> RunState]
    BY DEF Init, RunState
  <2>6. budget \in [Bounds -> Nat]
    BY BoundsAssumption DEF Init, Bounds
  <2>7. /\ lastGood \in [Indicators -> [Providers -> OptScore]]
        /\ evidence \in [Indicators -> SUBSET Confidences]
        /\ leaks \in [Indicators -> Nat]
        /\ answered \in [Jobs -> SUBSET Providers]
    BY DEF Init, OptScore, Confidences
  <2>. QED
    BY <2>1, <2>2, <2>3, <2>4, <2>5, <2>6, <2>7 DEF TypeOK
<1>2. SlotsMatchJobs
  BY DEF Init, SlotsMatchJobs, Runners
<1>3. AttemptsLeft
  BY DEF Init, AttemptsLeft, NoJob
<1>4. InLoop
  BY DEF Init, InLoop, IdleRun
<1>. QED
  BY <1>1, <1>2, <1>3, <1>4 DEF TypeInv
-----------------------------------------------------------------------------
RunPart ==
  run \in [Runners -> RunState] /\ SlotsMatchJobs /\ AttemptsLeft /\ InLoop

\* A busy runner that moves on with the same job keeps the run part.
LEMMA MoveKeeps ==
  ASSUME TypeInv, NEW r \in Runners, run[r] # IdleRun,
         NEW x \in BusyRun, x.job = run[r].job,
         x.pc \in {"cache", "quota", "call"} => x.todo # {},
         run' = [run EXCEPT ![r] = x], UNCHANGED jobs
  PROVE  RunPart'
<1>1. run' \in [Runners -> RunState]
  BY IdleRunType DEF TypeInv, TypeOK
<1>2. x # IdleRun
  BY IdleRunType
<1>3. /\ run'[r] = x
      /\ \A v \in Runners : v # r => run'[v] = run[v]
  BY DEF TypeInv, TypeOK
<1>4. Slots \subseteq Runners
  BY DEF Runners
<1>5. SlotsMatchJobs'
  BY <1>2, <1>3, <1>4 DEF TypeInv, SlotsMatchJobs
<1>6. AttemptsLeft'
  BY DEF TypeInv, AttemptsLeft
<1>7. InLoop'
  BY <1>3 DEF TypeInv, InLoop
<1>. QED
  BY <1>1, <1>5, <1>6, <1>7 DEF RunPart

\* A runner that stops leaves its job where another slot may take it.
LEMMA StopKeeps ==
  ASSUME TypeInv, NEW r \in Runners, run[r] # IdleRun, NEW job \in JobState,
         job.st \in {"waiting", "active", "delayed"} => job.tries < MaxAttempts,
         Stop(r, job)
  PROVE  /\ RunPart' /\ jobs' \in [Jobs -> JobState]
         /\ answered' \in [Jobs -> SUBSET Providers]
<1>1. /\ run' \in [Runners -> RunState]
      /\ run'[r] = IdleRun
      /\ \A v \in Runners : v # r => run'[v] = run[v]
  BY DEF TypeInv, TypeOK, Stop, RunState
<1>2. Slots \subseteq Runners
  BY DEF Runners
<1>3. CASE r \in Slots
  <2>1. run[r].job \in Jobs
    BY <1>3 DEF TypeInv, SlotsMatchJobs
  <2>2. /\ jobs' \in [Jobs -> JobState]
        /\ jobs'[run[r].job] = job
        /\ \A j \in Jobs : j # run[r].job => jobs'[j] = jobs[j]
    BY <1>3, <2>1 DEF TypeInv, TypeOK, Stop
  <2>3. answered' \in [Jobs -> SUBSET Providers]
    BY <1>3, <2>1 DEF TypeInv, TypeOK, Stop
  <2>4. SlotsMatchJobs'
    BY <1>1, <1>2, <1>3, <2>1, <2>2 DEF TypeInv, SlotsMatchJobs
  <2>5. AttemptsLeft'
    BY <2>2 DEF TypeInv, AttemptsLeft
  <2>. QED
    BY <1>1, <2>2, <2>3, <2>4, <2>5 DEF TypeInv, InLoop, RunPart, IdleRun
<1>4. CASE r \notin Slots
  <2>1. UNCHANGED <<jobs, answered>>
    BY <1>4 DEF Stop
  <2>2. SlotsMatchJobs'
    BY <1>1, <1>2, <1>4, <2>1 DEF TypeInv, SlotsMatchJobs
  <2>. QED
    BY SMTT(30), <1>1, <2>1, <2>2 DEF TypeInv, TypeOK, AttemptsLeft, InLoop, RunPart, IdleRun
<1>. QED
  BY <1>3, <1>4

\* The moves inside the loop.
LEMMA AdvanceMoves ==
  ASSUME TypeInv, NEW r \in Runners, run[r] # IdleRun, UNCHANGED jobs,
         \/ Advance(r)
         \/ \E g \in Providers \cup {Due} : AdvanceLimited(r, g)
         \/ \E pc \in {"cache", "quota", "call"} : run[r].todo # {} /\ Goto(r, pc)
  PROVE  RunPart'
<1>1. run[r] \in BusyRun /\ run \in [Runners -> RunState]
  BY BusyRunType DEF TypeInv, TypeOK
<1>2. ASSUME Advance(r) PROVE RunPart'
  <2>. DEFINE x == [run[r] EXCEPT !.pc = "look", !.todo = @ \ {Current(r)}]
  <2>1. x \in BusyRun /\ x.job = run[r].job /\ x.pc = "look"
    BY <1>1 DEF BusyRun, PcNames
  <2>2. run' = [run EXCEPT ![r] = x]
    BY <1>1, <1>2 DEF Advance
  <2>. QED
    BY <2>1, <2>2, MoveKeeps
<1>3. ASSUME NEW g \in Providers \cup {Due}, AdvanceLimited(r, g) PROVE RunPart'
  <2>. DEFINE x == [run[r] EXCEPT !.pc = "look", !.todo = @ \ {Current(r)},
                                  !.gate = IF @ = NoGate THEN g ELSE @]
  <2>1. x \in BusyRun /\ x.job = run[r].job /\ x.pc = "look"
    BY <1>1 DEF BusyRun, PcNames
  <2>2. run' = [run EXCEPT ![r] = x]
    BY <1>1, <1>3 DEF AdvanceLimited
  <2>. QED
    BY <2>1, <2>2, MoveKeeps
<1>4. ASSUME NEW pc \in {"cache", "quota", "call"}, run[r].todo # {}, Goto(r, pc)
      PROVE  RunPart'
  <2>. DEFINE x == [run[r] EXCEPT !.pc = pc]
  <2>1. x \in BusyRun /\ x.job = run[r].job /\ x.todo # {}
    BY <1>1, <1>4 DEF BusyRun, PcNames
  <2>2. run' = [run EXCEPT ![r] = x]
    BY <1>1, <1>4 DEF Goto
  <2>. QED
    BY <2>1, <2>2, MoveKeeps
<1>. QED
  BY <1>2, <1>3, <1>4
-----------------------------------------------------------------------------
\* The variables beside the run and the jobs.
DataPart ==
  /\ indicator \in [Indicators -> IndicatorState]
  /\ rows \in [Indicators -> [Providers -> RowState]]
  /\ tokens \in [Providers -> Nat]
  /\ budget \in [Bounds -> Nat]
  /\ lastGood \in [Indicators -> [Providers -> OptScore]]
  /\ evidence \in [Indicators -> SUBSET Confidences]
  /\ leaks \in [Indicators -> Nat]

JobPart == jobs \in [Jobs -> JobState] /\ answered \in [Jobs -> SUBSET Providers]

LEMMA TypeInvParts ==
  /\ TypeInv <=> DataPart /\ JobPart /\ RunPart
  /\ TypeInv' <=> DataPart' /\ JobPart' /\ RunPart'
BY DEF TypeInv, TypeOK, DataPart, JobPart, RunPart

LEMMA SpendType ==
  ASSUME TypeInv, NEW b \in Bounds, Spend(b)
  PROVE  budget' \in [Bounds -> Nat]
BY DEF TypeInv, TypeOK, Spend

\* Actions that touch neither the runs nor the states of jobs.
LEMMA RunPartUnchanged ==
  ASSUME TypeInv, UNCHANGED <<run, jobs>>
  PROVE  RunPart'
BY DEF TypeInv, TypeOK, RunPart, SlotsMatchJobs, AttemptsLeft, InLoop

\* BullMQ's own commands move a job that no slot works on.
LEMMA JobMoveKeeps ==
  ASSUME TypeInv, NEW j \in Jobs, jobs[j].st # "active", UNCHANGED run,
         NEW job \in JobState,
         job.st \in {"waiting", "active", "delayed"} => job.tries < MaxAttempts,
         jobs' = [jobs EXCEPT ![j] = job]
  PROVE  RunPart' /\ jobs' \in [Jobs -> JobState]
<1>1. jobs' \in [Jobs -> JobState]
  BY DEF TypeInv, TypeOK
<1>2. \A k \in Jobs : jobs'[k] = IF k = j THEN job ELSE jobs[k]
  BY DEF TypeInv, TypeOK
<1>. QED
  BY <1>1, <1>2 DEF TypeInv, TypeOK, RunPart, SlotsMatchJobs, AttemptsLeft, InLoop

LEMMA EnqueueTyped ==
  ASSUME TypeInv, NEW j \in Jobs, Enqueue(j) PROVE TypeInv'
<1>. DEFINE job == [NoJob EXCEPT !.st = "waiting"]
<1>1. job \in JobState /\ job.tries < MaxAttempts
  BY DEF NoJob, JobState, MaxAttempts
<1>2. RunPart' /\ jobs' \in [Jobs -> JobState]
  BY <1>1, JobMoveKeeps DEF Enqueue
<1>3. budget' \in [Bounds -> Nat]
  BY SpendType DEF Enqueue, Bounds
<1>. QED
  BY <1>2, <1>3, TypeInvParts DEF DataPart, JobPart, Enqueue, observed

LEMMA EvictTyped ==
  ASSUME TypeInv, NEW j \in Jobs, Evict(j) PROVE TypeInv'
<1>1. NoJob \in JobState /\ NoJob.st = "absent"
  BY DEF NoJob, JobState, MaxAttempts
<1>2. RunPart' /\ jobs' \in [Jobs -> JobState]
  BY <1>1, JobMoveKeeps DEF Evict
<1>. QED
  BY <1>2, TypeInvParts DEF DataPart, JobPart, Evict, observed

LEMMA PromoteTyped ==
  ASSUME TypeInv, NEW j \in Jobs, Promote(j) PROVE TypeInv'
<1>. DEFINE job == [jobs[j] EXCEPT !.st = "waiting"]
<1>1. jobs[j] \in JobState /\ jobs[j].tries < MaxAttempts
  BY DEF TypeInv, TypeOK, AttemptsLeft, Promote
<1>2. job \in JobState /\ job.tries < MaxAttempts
  BY <1>1 DEF JobState
<1>3. jobs' = [jobs EXCEPT ![j] = job]
  BY DEF Promote, TypeInv, TypeOK
<1>4. RunPart' /\ jobs' \in [Jobs -> JobState]
  BY <1>2, <1>3, JobMoveKeeps DEF Promote
<1>. QED
  BY <1>4, TypeInvParts DEF DataPart, JobPart, Promote, observed

LEMMA NewRunType ==
  ASSUME NEW i \in Indicators, NEW f \in BOOLEAN, NEW todo \in SUBSET Providers
  PROVE  /\ NewRun(<<i, f>>, todo) \in BusyRun
         /\ NewRun(<<i, f>>, todo).job = <<i, f>>
         /\ NewRun(<<i, f>>, todo).pc = "look"
BY DEF NewRun, BusyRun, PcNames, Confidences

LEMMA StartTyped ==
  ASSUME TypeInv, NEW w \in Slots, NEW j \in Jobs, Start(w, j) PROVE TypeInv'
<1>. DEFINE job == [jobs[j] EXCEPT !.st = "active"]
            x == NewRun(j, Plan(j[1]))
<1>1. jobs[j] \in JobState /\ jobs[j].st = "waiting" /\ jobs[j].tries < MaxAttempts
  BY DEF TypeInv, TypeOK, AttemptsLeft, Start
<1>2. PICK i \in Indicators, f \in Forces : j = <<i, f>>
  BY DEF Jobs
<1>3. f \in BOOLEAN
  BY RunnersAssumption
<1>4. Plan(i) \subseteq Providers
  BY ProvidersAssumption DEF Plan
<1>5. x \in BusyRun /\ x.job = j /\ x.pc = "look" /\ x # IdleRun /\ x \in RunState
  BY <1>2, <1>3, <1>4, NewRunType, IdleRunType
<1>6. /\ jobs' \in [Jobs -> JobState]
      /\ \A k \in Jobs : jobs'[k] = IF k = j THEN job ELSE jobs[k]
      /\ job.st = "active" /\ job.tries = jobs[j].tries
  BY <1>1 DEF Start, TypeInv, TypeOK, JobState
<1>7. w \in Runners /\ Slots \subseteq Runners
  BY DEF Runners
<1>8. run' = [run EXCEPT ![w] = x]
  BY DEF Start
<1>9. /\ run' \in [Runners -> RunState]
      /\ \A v \in Runners : run'[v] = IF v = w THEN x ELSE run[v]
  BY <1>5, <1>7, <1>8 DEF TypeInv, TypeOK
<1>. HIDE DEF job, x
<1>10. SlotsMatchJobs'
  BY <1>1, <1>5, <1>6, <1>7, <1>9 DEF TypeInv, SlotsMatchJobs
<1>11. AttemptsLeft'
  BY <1>1, <1>6 DEF TypeInv, AttemptsLeft
<1>12. InLoop'
  BY <1>5, <1>9 DEF TypeInv, InLoop
<1>. QED
  BY <1>6, <1>9, <1>10, <1>11, <1>12, TypeInvParts
     DEF RunPart, DataPart, JobPart, Start, observed

LEMMA LookupTyped ==
  ASSUME TypeInv, NEW u \in Lookups, NEW i \in Indicators,
         NEW asked \in SUBSET Providers, Lookup(u, i, asked)
  PROVE  TypeInv'
<1>. DEFINE x == NewRun(<<i, FALSE>>, asked)
<1>1. x \in BusyRun /\ x.pc = "look" /\ x # IdleRun /\ x \in RunState
  BY NewRunType, IdleRunType
<1>2. u \in Runners /\ Slots \subseteq Runners /\ u \notin Slots
  BY RunnersAssumption DEF Runners
<1>3. /\ run' \in [Runners -> RunState]
      /\ \A v \in Runners : run'[v] = IF v = u THEN x ELSE run[v]
  BY <1>1, <1>2 DEF TypeInv, TypeOK, Lookup
<1>4. UNCHANGED jobs
  BY DEF Lookup
<1>. HIDE DEF x
<1>5. SlotsMatchJobs'
  BY <1>2, <1>3, <1>4 DEF TypeInv, SlotsMatchJobs
<1>6. InLoop'
  BY <1>1, <1>3 DEF TypeInv, InLoop
<1>7. budget' \in [Bounds -> Nat]
  BY SpendType DEF Lookup, Bounds
<1>. QED
  BY <1>3, <1>4, <1>5, <1>6, <1>7, TypeInvParts
     DEF RunPart, DataPart, JobPart, Lookup, observed, TypeInv, AttemptsLeft
-----------------------------------------------------------------------------
LEMMA LookTyped ==
  ASSUME TypeInv, NEW r \in Runners, Look(r) PROVE TypeInv'
<1>1. run[r] # IdleRun
  BY AtIsBusy DEF Look, PcNames
<1>2. RunPart'
  BY <1>1, AdvanceMoves DEF Look
<1>. QED
  BY <1>2, TypeInvParts DEF DataPart, JobPart, Look, observed

LEMMA CacheTyped ==
  ASSUME TypeInv, NEW r \in Runners, Cache(r) PROVE TypeInv'
<1>1. run[r] # IdleRun /\ run[r].todo # {}
  BY AtIsBusy DEF Cache, PcNames, TypeInv, InLoop, At
<1>2. RunPart'
  BY <1>1, AdvanceMoves DEF Cache
<1>. QED
  BY <1>2, TypeInvParts DEF DataPart, JobPart, Cache, observed

LEMMA QuotaTyped ==
  ASSUME TypeInv, NEW r \in Runners, Quota(r) PROVE TypeInv'
<1>1. run[r] # IdleRun /\ run[r].todo # {} /\ Actor(r) \in Indicators
  BY AtIsBusy DEF Quota, PcNames, TypeInv, InLoop, At
<1>2. Current(r) \in Providers
  BY <1>1, CurrentType
<1>3. RunPart'
  BY <1>1, <1>2, AdvanceMoves DEF Quota
<1>4. tokens' \in [Providers -> Nat]
  BY <1>2, SMTT(30) DEF Quota, TypeInv, TypeOK
<1>5. leaks' \in [Indicators -> Nat]
  <2>. DEFINE n == IF indicator[Actor(r)].white THEN leaks[Actor(r)] + 1
                   ELSE leaks[Actor(r)]
  <2>1. leaks' = leaks \/ leaks' = [leaks EXCEPT ![Actor(r)] = n]
    BY DEF Quota
  <2>2. leaks \in [Indicators -> Nat] /\ leaks[Actor(r)] \in Nat
    BY <1>1 DEF TypeInv, TypeOK
  <2>3. n \in Nat
    BY <2>2
  <2>. HIDE DEF n
  <2>. QED
    BY <2>1, <2>2, <2>3
<1>. QED
  BY <1>3, <1>4, <1>5, TypeInvParts DEF DataPart, JobPart, Quota

LEMMA PaidType ==
  ASSUME TypeInv, NEW r \in Runners, run[r] # IdleRun, Current(r) \in Providers
  PROVE  Paid(r) \in [Jobs -> SUBSET Providers]
BY DEF Paid, TypeInv, TypeOK, SlotsMatchJobs

LEMMA SetRowType ==
  ASSUME TypeInv, NEW i \in Indicators, NEW p \in Providers, NEW row \in RowState
  PROVE  [rows EXCEPT ![i][p] = row] \in [Indicators -> [Providers -> RowState]]
BY DEF TypeInv, TypeOK

LEMMA AnswerTyped ==
  ASSUME TypeInv, NEW r \in Runners, NEW s \in OptScore, Answer(r, s)
  PROVE  TypeInv'
<1>1. /\ run[r] # IdleRun /\ run[r].todo # {} /\ Actor(r) \in Indicators
      /\ run[r] \in BusyRun
  BY AtIsBusy DEF Answer, PcNames, TypeInv, InLoop, At
<1>2. Current(r) \in Providers
  BY <1>1, CurrentType
<1>3. RunPart'
  <2>. DEFINE rest == IF r \in Slots /\ Current(r) = Otx /\ s = 0
                       THEN {} ELSE run[r].todo \ {Current(r)}
              x == [run[r] EXCEPT !.pc = "look", !.fetched = TRUE, !.todo = rest]
  <2>1. x \in BusyRun /\ x.job = run[r].job /\ x.pc = "look"
    BY <1>1 DEF BusyRun, PcNames
  <2>2. run' = [run EXCEPT ![r] = x] /\ UNCHANGED jobs
    BY <1>1 DEF Answer, TypeInv, TypeOK
  <2>. QED
    BY <1>1, <2>1, <2>2, MoveKeeps
<1>4. rows' \in [Indicators -> [Providers -> RowState]]
  <2>1. Row(s, FALSE, TRUE) \in RowState
    BY DEF Row, RowState
  <2>. QED
    BY <1>1, <1>2, <2>1, SetRowType DEF Answer
<1>5. lastGood' \in [Indicators -> [Providers -> OptScore]]
  BY <1>1, <1>2 DEF Answer, TypeInv, TypeOK
<1>6. evidence' \in [Indicators -> SUBSET Confidences]
  BY <1>1 DEF Answer, TypeInv, TypeOK, OptScore, Confidences
<1>7. answered' \in [Jobs -> SUBSET Providers]
  BY <1>1, <1>2, PaidType DEF Answer
<1>. QED
  BY <1>3, <1>4, <1>5, <1>6, <1>7, TypeInvParts DEF DataPart, JobPart, Answer

LEMMA Upstream429Typed ==
  ASSUME TypeInv, NEW r \in Runners, Upstream429(r) PROVE TypeInv'
<1>1. run[r] # IdleRun
  BY AtIsBusy DEF Upstream429, PcNames
<1>2. RunPart'
  BY <1>1, AdvanceMoves DEF Upstream429
<1>3. budget' \in [Bounds -> Nat]
  BY SpendType DEF Upstream429, Bounds
<1>. QED
  BY <1>2, <1>3, TypeInvParts DEF DataPart, JobPart, Upstream429, observed

LEMMA ErrorRowType ==
  ASSUME TypeInv, NEW i \in Indicators, NEW p \in Providers
  PROVE  ErrorRow(i, p) \in RowState
<1>1. rows[i][p] \in RowState
  BY DEF TypeInv, TypeOK
<1>2. NoScore \in OptScore
  BY DEF OptScore
<1>. QED
  BY <1>1, <1>2 DEF ErrorRow, Row, RowState

LEMMA FailTyped ==
  ASSUME TypeInv, NEW r \in Runners, Fail(r) PROVE TypeInv'
<1>1. run[r] # IdleRun /\ run[r].todo # {} /\ Actor(r) \in Indicators
  BY AtIsBusy DEF Fail, PcNames, TypeInv, InLoop, At
<1>2. Current(r) \in Providers
  BY <1>1, CurrentType
<1>3. RunPart'
  BY <1>1, AdvanceMoves DEF Fail
<1>4. rows' \in [Indicators -> [Providers -> RowState]]
  BY <1>1, <1>2, ErrorRowType, SetRowType DEF Fail
<1>5. answered' \in [Jobs -> SUBSET Providers]
  BY <1>1, <1>2, PaidType DEF Fail
<1>6. budget' \in [Bounds -> Nat]
  BY SpendType DEF Fail, Bounds
<1>. QED
  BY <1>3, <1>4, <1>5, <1>6, TypeInvParts DEF DataPart, JobPart, Fail

\* What a stopping slot leaves in the queue is a job, with an attempt to spare
\* unless it is over.
LEMMA LeftBehind ==
  ASSUME TypeInv, NEW r \in Slots, run[r] # IdleRun
  PROVE  /\ Completed(r) \in JobState /\ Completed(r).st = "completed"
         /\ Retried(r) \in JobState
         /\ Retried(r).st \in {"waiting", "active", "delayed"} =>
              Retried(r).tries < MaxAttempts
         /\ run[r].gate # NoGate => Deferred(r) \in JobState
         /\ Deferred(r).tries < MaxAttempts
<1>1. r \in Runners
  BY DEF Runners
<1>2. run[r].job \in Jobs /\ jobs[run[r].job].st = "active"
  BY DEF TypeInv, SlotsMatchJobs
<1>3. jobs[run[r].job] \in JobState /\ jobs[run[r].job].tries < MaxAttempts
  BY <1>2 DEF TypeInv, TypeOK, AttemptsLeft
<1>4. run[r].gate \in Providers \cup {Due, NoGate}
  BY <1>1, BusyRunType DEF TypeInv, BusyRun
<1>5. Completed(r) \in JobState /\ Completed(r).st = "completed"
  BY <1>3 DEF Completed, JobState
<1>6. /\ Retried(r) \in JobState
      /\ Retried(r).st \in {"waiting", "active", "delayed"} =>
           Retried(r).tries < MaxAttempts
  BY <1>3 DEF Retried, JobState, MaxAttempts
<1>7. /\ run[r].gate # NoGate => Deferred(r) \in JobState
      /\ Deferred(r).tries < MaxAttempts
  BY <1>3, <1>4 DEF Deferred, JobState
<1>. QED
  BY <1>5, <1>6, <1>7

\* For a request that is no job, Stop's second argument is not used.
LEMMA LookupStops ==
  ASSUME TypeInv, NEW r \in Runners \ Slots, run[r] # IdleRun, NEW job, Stop(r, job)
  PROVE  RunPart' /\ JobPart'
<1>1. NoJob \in JobState /\ NoJob.st = "absent"
  BY DEF NoJob, JobState, MaxAttempts
<1>2. Stop(r, NoJob)
  BY DEF Stop
<1>. QED
  BY <1>1, <1>2, StopKeeps DEF JobPart

LEMMA StopTyped ==
  ASSUME TypeInv, NEW r \in Runners, run[r] # IdleRun,
         \/ Stop(r, Completed(r))
         \/ Stop(r, Retried(r))
         \/ run[r].gate # NoGate /\ Stop(r, Deferred(r))
  PROVE  RunPart' /\ JobPart'
<1>1. CASE r \in Slots
  BY <1>1, LeftBehind, StopKeeps DEF JobPart
<1>2. CASE r \notin Slots
  BY <1>2, LookupStops
<1>. QED
  BY <1>1, <1>2
-----------------------------------------------------------------------------
LEMMA DeferTyped ==
  ASSUME TypeInv, NEW r \in Runners, Defer(r) PROVE TypeInv'
<1>1. run[r] # IdleRun
  BY AtIsBusy DEF Defer, LoopDone, PcNames
<1>2. RunPart' /\ JobPart'
  BY <1>1, StopTyped DEF Defer
<1>. QED
  BY <1>2, TypeInvParts DEF DataPart, Defer

LEMMA FinishTyped ==
  ASSUME TypeInv, NEW r \in Runners, Finish(r) PROVE TypeInv'
<1>1. run[r] # IdleRun
  BY AtIsBusy DEF Finish, LoopDone, PcNames
<1>2. RunPart' /\ JobPart'
  BY <1>1, StopTyped DEF Finish
<1>. QED
  BY <1>2, TypeInvParts DEF DataPart, Finish

LEMMA OrphanedTyped ==
  ASSUME TypeInv, NEW r \in Runners, Orphaned(r) PROVE TypeInv'
<1>1. run[r] # IdleRun
  BY AtIsBusy DEF Orphaned, PcNames
<1>2. RunPart' /\ JobPart'
  BY <1>1, StopTyped DEF Orphaned
<1>. QED
  BY <1>2, TypeInvParts DEF DataPart, Orphaned

LEMMA RecomputeTyped ==
  ASSUME TypeInv, NEW r \in Runners, Recompute(r) PROVE TypeInv'
<1>1. run[r] # IdleRun /\ run[r] \in BusyRun /\ Actor(r) \in Indicators
  BY AtIsBusy DEF Recompute, LoopDone, PcNames
<1>2. CASE indicator[Actor(r)].exists
  <2>. DEFINE x == [run[r] EXCEPT !.pc = "rescore",
                                  !.conf = indicator[Actor(r)].conf,
                                  !.locked = indicator[Actor(r)].locked]
  <2>1. indicator[Actor(r)] \in IndicatorState
    BY <1>1 DEF TypeInv, TypeOK
  <2>2. x \in BusyRun /\ x.job = run[r].job /\ x.pc = "rescore"
    BY <1>1, <2>1 DEF BusyRun, PcNames, IndicatorState
  <2>3. run' = [run EXCEPT ![r] = x] /\ UNCHANGED <<jobs, answered>>
    BY <1>2 DEF Recompute, TypeInv, TypeOK
  <2>4. RunPart'
    BY <1>1, <2>2, <2>3, MoveKeeps
  <2>. QED
    BY <2>3, <2>4, TypeInvParts DEF DataPart, JobPart, Recompute
<1>3. CASE ~indicator[Actor(r)].exists
  <2>1. RunPart' /\ JobPart'
    BY <1>1, <1>3, StopTyped DEF Recompute
  <2>. QED
    BY <2>1, TypeInvParts DEF DataPart, Recompute
<1>. QED
  BY <1>2, <1>3

\* The scores that count are scores.
LEMMA UsableScoresType ==
  ASSUME TypeInv, NEW i \in Indicators
  PROVE  UsableScores(i) \subseteq Scores
<1>1. \A p \in Providers : rows[i][p] \in RowState
  BY DEF TypeInv, TypeOK
<1>. QED
  BY <1>1 DEF UsableScores, Usable, RowState, OptScore

\* pickIndicatorConfidence answers with the current value or a given score.
LEMMA PickIsGiven ==
  ASSUME NEW current, NEW locked \in BOOLEAN, NEW scores \in SUBSET Scores
  PROVE  Pick(current, locked, scores) \in {current} \cup scores
<1>1. scores # {} => Greatest(scores) \in scores
  BY ScoresAssumption, GreatestIsMember
<1>. QED
  BY <1>1 DEF Pick

LEMMA RescoreTyped ==
  ASSUME TypeInv, NEW r \in Runners, Rescore(r) PROVE TypeInv'
<1>1. run[r] # IdleRun /\ run[r] \in BusyRun /\ Actor(r) \in Indicators
  BY AtIsBusy DEF Rescore, PcNames
<1>. DEFINE next == Pick(run[r].conf, run[r].locked, UsableScores(Actor(r)))
            x == [run[r] EXCEPT !.pc = "write", !.conf = next]
<1>2. next \in Confidences
  <2>1. next \in {run[r].conf} \cup UsableScores(Actor(r))
    BY <1>1, UsableScoresType, PickIsGiven DEF BusyRun
  <2>. QED
    BY <1>1, <2>1, UsableScoresType DEF BusyRun, Confidences
<1>. HIDE DEF next
<1>3. CASE next = run[r].conf
  <2>1. RunPart' /\ JobPart'
    BY <1>1, <1>3, StopTyped DEF Rescore, next
  <2>. QED
    BY <2>1, TypeInvParts DEF DataPart, Rescore
<1>4. CASE next # run[r].conf
  <2>1. x \in BusyRun /\ x.job = run[r].job /\ x.pc = "write"
    BY <1>1, <1>2 DEF BusyRun, PcNames
  <2>2. run' = [run EXCEPT ![r] = x] /\ UNCHANGED <<jobs, answered>>
    BY <1>4 DEF Rescore, next, TypeInv, TypeOK
  <2>3. RunPart'
    BY <1>1, <2>1, <2>2, MoveKeeps
  <2>. QED
    BY <2>2, <2>3, TypeInvParts DEF DataPart, JobPart, Rescore
<1>. QED
  BY <1>3, <1>4

LEMMA WriteTyped ==
  ASSUME TypeInv, NEW r \in Runners, Write(r) PROVE TypeInv'
<1>1. run[r] # IdleRun /\ run[r] \in BusyRun /\ Actor(r) \in Indicators
  BY AtIsBusy DEF Write, PcNames
<1>2. RunPart' /\ JobPart'
  BY <1>1, StopTyped DEF Write
<1>3. indicator' \in [Indicators -> IndicatorState]
  <2>1. run[r].conf \in Confidences
    BY <1>1 DEF BusyRun
  <2>. DEFINE row == [indicator[Actor(r)] EXCEPT !.conf = run[r].conf]
  <2>0. indicator[Actor(r)] \in IndicatorState
    BY <1>1 DEF TypeInv, TypeOK
  <2>2. row \in IndicatorState
    BY <2>0, <2>1 DEF IndicatorState
  <2>3. \/ UNCHANGED indicator
        \/ indicator' = [indicator EXCEPT ![Actor(r)] = row]
    BY DEF Write
  <2>. HIDE DEF row
  <2>. QED
    BY <1>1, <2>2, <2>3 DEF TypeInv, TypeOK
<1>. QED
  BY <1>2, <1>3, TypeInvParts DEF DataPart, Write
-----------------------------------------------------------------------------
LEMMA ReleasedType ==
  ASSUME NEW S
  PROVE  /\ \A rec \in JobState : /\ Released(S, rec) \in JobState
                                  /\ Released(S, rec).st = rec.st
                                  /\ Released(S, rec).tries = rec.tries
         /\ \A x \in BusyRun : /\ Released(S, x) \in BusyRun
                               /\ Released(S, x).job = x.job
                               /\ Released(S, x).pc = x.pc
                               /\ Released(S, x).todo = x.todo
BY DEF Released, JobState, BusyRun

LEMMA WindowEndsTyped ==
  ASSUME TypeInv, NEW S \in SUBSET Providers, WindowEnds(S) PROVE TypeInv'
<1>1. \A j \in Jobs : /\ jobs'[j] \in JobState
                      /\ jobs'[j].st = jobs[j].st /\ jobs'[j].tries = jobs[j].tries
  <2>1. \A j \in Jobs : jobs[j] \in JobState /\ jobs'[j] = Released(S, jobs[j])
    BY DEF TypeInv, TypeOK, WindowEnds
  <2>. QED
    BY <2>1, ReleasedType
<1>2. jobs' \in [Jobs -> JobState]
  BY <1>1 DEF WindowEnds
<1>3. \A r \in Runners : run[r] = IdleRun => run'[r] = IdleRun
  BY DEF WindowEnds
<1>4. \A r \in Runners : run[r] # IdleRun =>
        /\ run'[r] \in BusyRun
        /\ run'[r].job = run[r].job /\ run'[r].pc = run[r].pc
        /\ run'[r].todo = run[r].todo
  <2>1. \A r \in Runners : run[r] # IdleRun =>
          run[r] \in BusyRun /\ run'[r] = Released(S, run[r])
    BY BusyRunType DEF TypeInv, WindowEnds
  <2>. QED
    BY <2>1, ReleasedType
<1>5. run' \in [Runners -> RunState]
  <2>1. \A r \in Runners : run'[r] \in RunState
    BY <1>3, <1>4, IdleRunType
  <2>2. run' = [r \in Runners |-> IF run[r] = IdleRun THEN IdleRun
                                   ELSE Released(S, run[r])]
    BY DEF WindowEnds
  <2>3. run' = [r \in Runners |-> run'[r]]
    BY <2>2
  <2>. QED
    BY <2>1, <2>3
<1>6. Slots \subseteq Runners
  BY DEF Runners
<1>7. SlotsMatchJobs'
  BY <1>1, <1>3, <1>4, <1>6 DEF TypeInv, SlotsMatchJobs
<1>8. AttemptsLeft'
  BY <1>1 DEF TypeInv, AttemptsLeft
<1>9. InLoop'
  BY <1>3, <1>4 DEF TypeInv, InLoop, IdleRun
<1>10. tokens' \in [Providers -> Nat]
  BY ProvidersAssumption DEF WindowEnds, TypeInv, TypeOK
<1>. QED
  BY <1>2, <1>5, <1>7, <1>8, <1>9, <1>10, TypeInvParts
     DEF DataPart, JobPart, RunPart, WindowEnds, observed

LEMMA ExpireTyped ==
  ASSUME TypeInv, NEW i \in Indicators, NEW p \in Providers, Expire(i, p)
  PROVE  TypeInv'
<1>. DEFINE row == [rows[i][p] EXCEPT !.fresh = FALSE]
<1>1. rows[i][p] \in RowState /\ rows[i][p] # NoRow
  BY DEF TypeInv, TypeOK, Expire
<1>2. row \in RowState
  BY <1>1 DEF RowState
<1>3. rows' = [rows EXCEPT ![i][p] = row]
  BY DEF Expire, TypeInv, TypeOK
<1>. HIDE DEF row
<1>4. rows' \in [Indicators -> [Providers -> RowState]]
  BY <1>2, <1>3, SetRowType
<1>5. answered' \in [Jobs -> SUBSET Providers]
  BY DEF Expire, TypeInv, TypeOK
<1>6. budget' \in [Bounds -> Nat]
  BY SpendType DEF Expire, Bounds
<1>7. RunPart' /\ UNCHANGED <<indicator, tokens, lastGood, evidence, leaks, jobs>>
  BY RunPartUnchanged DEF Expire
<1>. QED
  BY <1>4, <1>5, <1>6, <1>7, TypeInvParts DEF DataPart, JobPart

LEMMA CrashTyped ==
  ASSUME TypeInv, Crash PROVE TypeInv'
<1>1. \A j \in Jobs : /\ jobs'[j] \in JobState
                      /\ jobs'[j].tries = jobs[j].tries
                      /\ jobs'[j].st = IF jobs[j].st = "active" THEN "waiting"
                                       ELSE jobs[j].st
  BY DEF Crash, TypeInv, TypeOK, JobState
<1>2. jobs' \in [Jobs -> JobState]
  BY <1>1 DEF Crash
<1>3. \A r \in Runners : run'[r] = IF r \in Slots THEN IdleRun ELSE run[r]
  BY DEF Crash
<1>4. run' \in [Runners -> RunState]
  BY IdleRunType DEF Crash, TypeInv, TypeOK
<1>5. SlotsMatchJobs' /\ InLoop'
  BY <1>3 DEF TypeInv, SlotsMatchJobs, InLoop, IdleRun, Runners
<1>6. AttemptsLeft'
  BY <1>1 DEF TypeInv, AttemptsLeft
<1>7. budget' \in [Bounds -> Nat]
  BY SpendType DEF Crash, Bounds
<1>. QED
  BY <1>2, <1>4, <1>5, <1>6, <1>7, TypeInvParts
     DEF DataPart, JobPart, RunPart, Crash, observed

LEMMA SetConfidenceTyped ==
  ASSUME TypeInv, NEW i \in Indicators, NEW c \in HandValues, NEW lock \in BOOLEAN,
         SetConfidence(i, c, lock)
  PROVE  TypeInv'
<1>. DEFINE row == [indicator[i] EXCEPT !.conf = c, !.locked = lock]
<1>1. c \in Confidences
  BY DEF Confidences
<1>2. row \in IndicatorState
  <2>1. indicator[i] \in IndicatorState
    BY DEF TypeInv, TypeOK
  <2>. QED
    BY <1>1, <2>1 DEF IndicatorState
<1>3. indicator' = [indicator EXCEPT ![i] = row]
  BY DEF SetConfidence, TypeInv, TypeOK
<1>. HIDE DEF row
<1>4. indicator' \in [Indicators -> IndicatorState]
  BY <1>2, <1>3 DEF TypeInv, TypeOK
<1>5. evidence' \in [Indicators -> SUBSET Confidences]
  BY <1>1 DEF SetConfidence, TypeInv, TypeOK
<1>6. budget' \in [Bounds -> Nat]
  BY SpendType DEF SetConfidence, Bounds
<1>7. RunPart' /\ UNCHANGED <<rows, tokens, jobs, lastGood, leaks, answered>>
  BY RunPartUnchanged DEF SetConfidence
<1>. QED
  BY <1>4, <1>5, <1>6, <1>7, TypeInvParts DEF DataPart, JobPart

LEMMA SetWhitelistedTyped ==
  ASSUME TypeInv, NEW i \in Indicators, NEW white \in BOOLEAN,
         SetWhitelisted(i, white)
  PROVE  TypeInv'
<1>. DEFINE row == [indicator[i] EXCEPT !.white = white]
<1>1. row \in IndicatorState
  <2>1. indicator[i] \in IndicatorState
    BY DEF TypeInv, TypeOK
  <2>. QED
    BY <2>1 DEF IndicatorState
<1>2. indicator' = [indicator EXCEPT ![i] = row]
  BY DEF SetWhitelisted, TypeInv, TypeOK
<1>. HIDE DEF row
<1>3. indicator' \in [Indicators -> IndicatorState]
  BY <1>1, <1>2 DEF TypeInv, TypeOK
<1>4. leaks' \in [Indicators -> Nat]
  BY DEF SetWhitelisted, TypeInv, TypeOK
<1>5. budget' \in [Bounds -> Nat]
  BY SpendType DEF SetWhitelisted, Bounds
<1>6. RunPart' /\ UNCHANGED <<rows, tokens, jobs, lastGood, evidence, answered>>
  BY RunPartUnchanged DEF SetWhitelisted
<1>. QED
  BY <1>3, <1>4, <1>5, <1>6, TypeInvParts DEF DataPart, JobPart

LEMMA DeleteTyped ==
  ASSUME TypeInv, NEW i \in Indicators, Delete(i) PROVE TypeInv'
<1>1. indicator' \in [Indicators -> IndicatorState]
  <2>1. [Ingested EXCEPT !.exists = FALSE] \in IndicatorState
    BY DEF Ingested, IndicatorState, Confidences
  <2>. QED
    BY <2>1 DEF Delete, TypeInv, TypeOK
<1>2. rows' \in [Indicators -> [Providers -> RowState]]
  BY DEF Delete, TypeInv, TypeOK, RowState
<1>3. lastGood' \in [Indicators -> [Providers -> OptScore]]
  BY DEF Delete, TypeInv, TypeOK, OptScore
<1>4. answered' \in [Jobs -> SUBSET Providers]
  BY DEF Delete, TypeInv, TypeOK
<1>5. leaks' \in [Indicators -> Nat] /\ evidence' \in [Indicators -> SUBSET Confidences]
  BY DEF Delete, TypeInv, TypeOK, Confidences
<1>6. budget' \in [Bounds -> Nat]
  BY SpendType DEF Delete, Bounds
<1>7. RunPart' /\ UNCHANGED <<tokens, jobs>>
  BY RunPartUnchanged DEF Delete
<1>. QED
  BY <1>1, <1>2, <1>3, <1>4, <1>5, <1>6, <1>7, TypeInvParts DEF DataPart, JobPart

LEMMA StutterTyped ==
  ASSUME TypeInv, UNCHANGED vars PROVE TypeInv'
BY RunPartUnchanged, TypeInvParts DEF vars, DataPart, JobPart

LEMMA StepTyped ==
  ASSUME TypeInv, [Next]_vars PROVE TypeInv'
<1>1. ASSUME NEW r \in Runners, RunnerStep(r) PROVE TypeInv'
  BY <1>1, LookTyped, CacheTyped, QuotaTyped, AnswerTyped, Upstream429Typed,
     FailTyped, OrphanedTyped, DeferTyped, FinishTyped, RecomputeTyped,
     RescoreTyped, WriteTyped
     DEF RunnerStep
<1>2. CASE Queue
  BY <1>2, EnqueueTyped, EvictTyped, PromoteTyped, StartTyped DEF Queue
<1>3. CASE Analyst
  BY <1>3, SetConfidenceTyped, SetWhitelistedTyped, DeleteTyped, LookupTyped
     DEF Analyst
<1>4. CASE Time
  BY <1>4, WindowEndsTyped, ExpireTyped, ProvidersAssumption
     DEF Time, NewMinute, NewDay
<1>5. CASE Crash
  BY <1>5, CrashTyped
<1>6. CASE UNCHANGED vars
  BY <1>6, StutterTyped
<1>. QED
  BY <1>1, <1>2, <1>3, <1>4, <1>5, <1>6 DEF Next

\* The types and the bookkeeping of runs and jobs hold throughout: a slot's
\* job is active and its alone, a job that may still run has attempts left.
THEOREM TypeInvariant == Spec => []TypeInv
BY InitTypeInv, StepTyped, PTL DEF Spec

\* Every variable keeps its type, whatever the sets and the bounds.
THEOREM TypeCorrect == Spec => []TypeOK
<1>1. TypeInv => TypeOK
  BY DEF TypeInv
<1>. QED
  BY <1>1, TypeInvariant, PTL
-----------------------------------------------------------------------------
\* The runner is where it was, with the same job, plan and snapshot.
Stays(r) ==
  /\ run'[r].pc = run[r].pc /\ run'[r].job = run[r].job
  /\ run'[r].todo = run[r].todo /\ run'[r].conf = run[r].conf

\* Only the runner that takes a step moves.
LEMMA OthersRest ==
  ASSUME TypeInv, NEW q \in Runners, RunnerStep(q), NEW r \in Runners, r # q
  PROVE  run'[r] = run[r]
<1>1. run \in [Runners -> RunState]
  BY DEF TypeInv, TypeOK
<1>2. CASE Look(q) \/ Cache(q) \/ Quota(q)
  BY <1>1, <1>2 DEF Look, Cache, Quota, Advance, AdvanceLimited, Goto
<1>3. CASE Upstream429(q) \/ Fail(q) \/ \E s \in OptScore : Answer(q, s)
  BY <1>1, <1>3 DEF Upstream429, Fail, Answer, Advance, AdvanceLimited
<1>4. CASE Orphaned(q) \/ Defer(q) \/ Finish(q) \/ Write(q)
  BY <1>1, <1>4 DEF Orphaned, Defer, Finish, Write, Stop
<1>5. CASE Recompute(q) \/ Rescore(q)
  BY <1>1, <1>5 DEF Recompute, Rescore, Stop
<1>. QED
  BY <1>2, <1>3, <1>4, <1>5 DEF RunnerStep

\* A step of a runner stops it, brings it back to the loop's head, or is one
\* of the five that carry it further.
LEMMA OwnStep ==
  ASSUME TypeInv, NEW r \in Runners, RunnerStep(r)
  PROVE  \/ run'[r] = IdleRun \/ run'[r].pc = "look"
         \/ Look(r) \/ Cache(r) \/ Quota(r) \/ Recompute(r) \/ Rescore(r)
<1>1. run \in [Runners -> RunState]
  BY DEF TypeInv, TypeOK
<1>2. CASE Upstream429(r) \/ Fail(r) \/ \E s \in OptScore : Answer(r, s)
  <2>1. run[r] \in BusyRun
    BY <1>2, AtIsBusy DEF Upstream429, Fail, Answer, PcNames
  <2>2. CASE Advance(r)
    <3>1. run'[r] = [run[r] EXCEPT !.pc = "look", !.todo = @ \ {Current(r)}]
      BY <1>1, <2>2 DEF Advance
    <3>. QED
      BY <2>1, <3>1 DEF BusyRun
  <2>3. ASSUME NEW g, AdvanceLimited(r, g) PROVE run'[r].pc = "look"
    <3>. DEFINE gate == IF run[r].gate = NoGate THEN g ELSE run[r].gate
    <3>1. run'[r] = [run[r] EXCEPT !.pc = "look", !.todo = @ \ {Current(r)},
                                   !.gate = gate]
      BY <1>1, <2>1, <2>3 DEF AdvanceLimited, BusyRun
    <3>. HIDE DEF gate
    <3>. QED
      BY <2>1, <3>1 DEF BusyRun
  <2>4. ASSUME NEW s \in OptScore, Answer(r, s) PROVE run'[r].pc = "look"
    <3>. DEFINE todo == IF r \in Slots /\ Current(r) = Otx /\ s = 0
                        THEN {} ELSE run[r].todo \ {Current(r)}
    <3>1. run'[r] = [run[r] EXCEPT !.pc = "look", !.fetched = TRUE, !.todo = todo]
      BY <1>1, <2>1, <2>4 DEF Answer, BusyRun
    <3>. HIDE DEF todo
    <3>. QED
      BY <2>1, <3>1 DEF BusyRun
  <2>. QED
    BY <1>2, <2>2, <2>3, <2>4 DEF Upstream429, Fail
<1>3. CASE Orphaned(r) \/ Defer(r) \/ Finish(r) \/ Write(r)
  BY <1>1, <1>3 DEF Orphaned, Defer, Finish, Write, Stop
<1>. QED
  BY <1>2, <1>3 DEF RunnerStep

LEMMA Moves ==
  ASSUME TypeInv, [Next]_vars, NEW r \in Runners
  PROVE  \/ Stays(r) \/ run'[r] = IdleRun \/ run'[r].pc = "look"
         \/ Look(r) \/ Cache(r) \/ Quota(r) \/ Recompute(r) \/ Rescore(r)
<1>1. run \in [Runners -> RunState] /\ Slots \subseteq Runners /\ Lookups \subseteq Runners
  BY DEF TypeInv, TypeOK, Runners
<1>2. ASSUME NEW q \in Runners, RunnerStep(q), q # r PROVE Stays(r)
  BY <1>2, OthersRest DEF Stays
<1>3. ASSUME NEW j \in Jobs, NEW w \in Slots, Start(w, j)
      PROVE  Stays(r) \/ run'[r].pc = "look"
  BY <1>1, <1>3 DEF Start, NewRun, Stays
<1>4. ASSUME NEW i \in Indicators, NEW u \in Lookups, NEW asked, Lookup(u, i, asked)
      PROVE  Stays(r) \/ run'[r].pc = "look"
  BY <1>1, <1>4 DEF Lookup, NewRun, Stays
<1>5. ASSUME NEW j \in Jobs, Enqueue(j) \/ Evict(j) \/ Promote(j) PROVE Stays(r)
  BY <1>5 DEF Enqueue, Evict, Promote, Stays
<1>6. ASSUME NEW i \in Indicators,
             \/ \E c \in HandValues, lock \in BOOLEAN : SetConfidence(i, c, lock)
             \/ \E white \in BOOLEAN : SetWhitelisted(i, white)
             \/ Delete(i)
             \/ \E p \in Providers : Expire(i, p)
      PROVE  Stays(r)
  BY <1>6 DEF SetConfidence, SetWhitelisted, Delete, Expire, Stays
<1>7. ASSUME NEW S, WindowEnds(S) PROVE Stays(r)
  <2>1. CASE run[r] = IdleRun
    BY <1>7, <2>1 DEF WindowEnds, Stays
  <2>2. CASE run[r] # IdleRun
    <3>1. run[r] \in BusyRun
      BY <2>2, BusyRunType DEF TypeInv
    <3>. QED
      BY <1>7, <2>2, <3>1 DEF WindowEnds, Released, BusyRun, Stays
  <2>. QED
    BY <2>1, <2>2
<1>8. ASSUME Crash PROVE Stays(r) \/ run'[r] = IdleRun
  BY <1>8 DEF Crash, Stays
<1>9. CASE UNCHANGED vars
  BY <1>9 DEF vars, Stays
<1>10. CASE Queue
  BY <1>3, <1>5, <1>10 DEF Queue
<1>11. CASE Analyst
  BY <1>4, <1>6, <1>11 DEF Analyst
<1>12. CASE Time
  BY <1>6, <1>7, <1>12 DEF Time, NewMinute, NewDay
<1>13. CASE \E q \in Runners : RunnerStep(q)
  BY <1>2, <1>13, OwnStep
<1>. QED
  BY <1>8, <1>9, <1>10, <1>11, <1>12, <1>13 DEF Next
-----------------------------------------------------------------------------
(* The last score is kept.                                                 *)

\* Only an answer, an error, a deletion and an expiry touch the rows or the
\* record of what providers answered.
LEMMA RowSteps ==
  ASSUME [Next]_vars
  PROVE  \/ UNCHANGED <<rows, lastGood>>
         \/ \E r \in Runners : Fail(r) \/ \E s \in OptScore : Answer(r, s)
         \/ \E i \in Indicators : Delete(i) \/ \E p \in Providers : Expire(i, p)
<1>1. ASSUME NEW r \in Runners, RunnerStep(r)
      PROVE  \/ UNCHANGED <<rows, lastGood>>
             \/ Fail(r) \/ \E s \in OptScore : Answer(r, s)
  BY <1>1 DEF RunnerStep, Look, Cache, Quota, Upstream429, Orphaned, Defer, Finish,
              Recompute, Rescore, Write, observed
<1>2. CASE Queue
  BY <1>2 DEF Queue, Enqueue, Evict, Promote, Start, observed
<1>3. CASE Analyst
  BY <1>3 DEF Analyst, SetConfidence, SetWhitelisted, Lookup, observed
<1>4. CASE Time
  BY <1>4 DEF Time, NewMinute, NewDay, WindowEnds, observed
<1>5. CASE Crash \/ UNCHANGED vars
  BY <1>5 DEF Crash, observed, vars
<1>. QED
  BY <1>1, <1>2, <1>3, <1>4, <1>5 DEF Next

\* A stored row carries the last score answered, and what was deleted or never
\* looked up has none: this is what the error upsert's update relies on.
ScoreInv ==
  \A i \in Indicators, p \in Providers :
    lastGood[i][p] = IF rows[i][p] = NoRow THEN NoScore ELSE rows[i][p].score

LEMMA RowIsNoNoRow ==
  ASSUME NEW s, NEW failed \in BOOLEAN, NEW fresh \in BOOLEAN
  PROVE  /\ Row(s, failed, fresh) # NoRow
         /\ Row(s, failed, fresh).score = s
         /\ Row(s, failed, fresh).fresh = fresh
BY DEF Row, NoRow

LEMMA ErrorRowKeepsScore ==
  ASSUME ScoreInv, NEW i \in Indicators, NEW p \in Providers
  PROVE  ErrorRow(i, p) # NoRow /\ ErrorRow(i, p).score = lastGood[i][p]
<1>1. CASE rows[i][p] = NoRow
  <2>1. ErrorRow(i, p) = Row(NoScore, TRUE, TRUE) /\ lastGood[i][p] = NoScore
    BY <1>1 DEF ErrorRow, ScoreInv
  <2>. QED
    BY <2>1, RowIsNoNoRow
<1>2. CASE rows[i][p] # NoRow
  <2>1. /\ ErrorRow(i, p) = Row(rows[i][p].score, TRUE, TRUE)
        /\ lastGood[i][p] = rows[i][p].score
    BY <1>2 DEF ErrorRow, ScoreInv
  <2>. PICK s : s = rows[i][p].score
    OBVIOUS
  <2>2. Row(s, TRUE, TRUE) # NoRow /\ Row(s, TRUE, TRUE).score = s
    BY DEF Row, NoRow
  <2>. QED
    BY ONLY <2>1, <2>2, s = rows[i][p].score
<1>. QED
  BY <1>1, <1>2

LEMMA ExpiredRow ==
  ASSUME NEW row \in RowState, row # NoRow
  PROVE  /\ [row EXCEPT !.fresh = FALSE] # NoRow
         /\ [row EXCEPT !.fresh = FALSE].score = row.score
BY DEF RowState, NoRow

LEMMA ScoreInvStep ==
  ASSUME TypeInv, ScoreInv, [Next]_vars PROVE ScoreInv'
<1>. SUFFICES ASSUME NEW k \in Indicators, NEW q \in Providers
              PROVE  lastGood'[k][q] = IF rows'[k][q] = NoRow THEN NoScore
                                       ELSE rows'[k][q].score
  BY DEF ScoreInv
<1>. /\ lastGood \in [Indicators -> [Providers -> OptScore]]
     /\ rows \in [Indicators -> [Providers -> RowState]]
  BY DEF TypeInv, TypeOK
<1>1. CASE UNCHANGED <<rows, lastGood>>
  BY <1>1 DEF ScoreInv
<1>2. ASSUME NEW r \in Runners, NEW s \in OptScore, Answer(r, s)
      PROVE  lastGood'[k][q] = IF rows'[k][q] = NoRow THEN NoScore
                               ELSE rows'[k][q].score
  <2>1. Actor(r) \in Indicators /\ Current(r) \in Providers
    BY <1>2, AtIsBusy, CurrentType DEF Answer, PcNames, TypeInv, InLoop, At
  <2>2. /\ rows' = [rows EXCEPT ![Actor(r)][Current(r)] = Row(s, FALSE, TRUE)]
        /\ lastGood' = [lastGood EXCEPT ![Actor(r)][Current(r)] = s]
    BY <1>2 DEF Answer
  <2>. DEFINE row == Row(s, FALSE, TRUE)
  <2>3. row # NoRow /\ row.score = s
    BY RowIsNoNoRow
  <2>. HIDE DEF row
  <2>4. CASE k = Actor(r) /\ q = Current(r)
    BY <2>1, <2>2, <2>3, <2>4 DEF row
  <2>5. CASE k # Actor(r) \/ q # Current(r)
    BY <2>1, <2>2, <2>5 DEF row, ScoreInv
  <2>. QED
    BY <2>4, <2>5
<1>3. ASSUME NEW r \in Runners, Fail(r)
      PROVE  lastGood'[k][q] = IF rows'[k][q] = NoRow THEN NoScore
                               ELSE rows'[k][q].score
  <2>1. Actor(r) \in Indicators /\ Current(r) \in Providers
    BY <1>3, AtIsBusy, CurrentType DEF Fail, PcNames, TypeInv, InLoop, At
  <2>2. /\ rows' = [rows EXCEPT ![Actor(r)][Current(r)]
                                  = ErrorRow(Actor(r), Current(r))]
        /\ lastGood' = lastGood
    BY <1>3 DEF Fail
  <2>3. CASE k = Actor(r) /\ q = Current(r)
    BY <2>1, <2>2, <2>3, ErrorRowKeepsScore
  <2>4. CASE k # Actor(r) \/ q # Current(r)
    BY <2>1, <2>2, <2>4 DEF ScoreInv
  <2>. QED
    BY <2>3, <2>4
<1>4. ASSUME NEW i \in Indicators, Delete(i)
      PROVE  lastGood'[k][q] = IF rows'[k][q] = NoRow THEN NoScore
                               ELSE rows'[k][q].score
  BY <1>4 DEF Delete, ScoreInv
<1>5. ASSUME NEW i \in Indicators, NEW p \in Providers, Expire(i, p)
      PROVE  lastGood'[k][q] = IF rows'[k][q] = NoRow THEN NoScore
                               ELSE rows'[k][q].score
  <2>. DEFINE row == [rows[i][p] EXCEPT !.fresh = FALSE]
  <2>1. row # NoRow /\ row.score = rows[i][p].score /\ rows[i][p] # NoRow
    BY <1>5, ExpiredRow DEF Expire
  <2>2. rows' = [rows EXCEPT ![i][p] = row] /\ lastGood' = lastGood
    BY <1>5 DEF Expire
  <2>. HIDE DEF row
  <2>3. CASE k = i /\ q = p
    BY <2>1, <2>2, <2>3 DEF ScoreInv
  <2>4. CASE k # i \/ q # p
    BY <2>2, <2>4 DEF ScoreInv
  <2>. QED
    BY <2>3, <2>4
<1>. QED
  BY <1>1, <1>2, <1>3, <1>4, <1>5, RowSteps

\* A failed lookup never costs the last score a provider gave, in whatever
\* order the results and errors of concurrent runs are stored (the upserts of
\* enrichOne).
THEOREM LastScoreIsKept == Spec => []LastScoreKept
<1>1. Init => ScoreInv
  BY DEF Init, ScoreInv
<1>2. ScoreInv => LastScoreKept
  BY DEF ScoreInv, LastScoreKept
<1>3. TypeInv /\ ScoreInv /\ [Next]_vars => ScoreInv'
  BY ScoreInvStep
<1>. QED
  BY <1>1, <1>2, <1>3, TypeInvariant, PTL DEF Spec
-----------------------------------------------------------------------------
(* A confidence has evidence.                                              *)

\* An indicator changes by an analyst's edit or a recompute's write.
LEMMA IndicatorSteps ==
  ASSUME TypeInv, [Next]_vars, NEW i \in Indicators
  PROVE  \/ indicator'[i] = indicator[i]
         \/ \E c \in HandValues, lock \in BOOLEAN : SetConfidence(i, c, lock)
         \/ \E white \in BOOLEAN : SetWhitelisted(i, white)
         \/ Delete(i)
         \/ \E r \in Runners : Write(r) /\ Actor(r) = i /\ indicator[i].exists
<1>. indicator \in [Indicators -> IndicatorState]
  BY DEF TypeInv, TypeOK
<1>1. ASSUME NEW r \in Runners, RunnerStep(r)
      PROVE  \/ indicator'[i] = indicator[i]
             \/ Write(r) /\ Actor(r) = i /\ indicator[i].exists
  <2>1. CASE Write(r)
    BY <2>1 DEF Write
  <2>2. CASE \E s \in OptScore : Answer(r, s)
    BY <2>2 DEF Answer
  <2>. QED
    BY <1>1, <2>1, <2>2
       DEF RunnerStep, Look, Cache, Quota, Upstream429, Fail, Orphaned, Defer, Finish,
           Recompute, Rescore
<1>2. CASE Queue
  BY <1>2 DEF Queue, Enqueue, Evict, Promote, Start
<1>3. CASE Analyst
  <2>1. ASSUME NEW k \in Indicators, k # i,
               \/ \E c \in HandValues, lock \in BOOLEAN : SetConfidence(k, c, lock)
               \/ \E white \in BOOLEAN : SetWhitelisted(k, white)
               \/ Delete(k)
        PROVE  indicator'[i] = indicator[i]
    BY <2>1 DEF SetConfidence, SetWhitelisted, Delete
  <2>2. ASSUME NEW u \in Lookups, NEW k \in Indicators, NEW asked, Lookup(u, k, asked)
        PROVE  indicator'[i] = indicator[i]
    BY <2>2 DEF Lookup
  <2>. QED
    BY <1>3, <2>1, <2>2 DEF Analyst
<1>4. CASE Time \/ Crash \/ UNCHANGED vars
  BY <1>4 DEF Time, NewMinute, NewDay, WindowEnds, Expire, Crash, vars
<1>. QED
  BY <1>1, <1>2, <1>3, <1>4 DEF Next

\* Deleted indicators stay deleted.
LEMMA ExistsBefore ==
  ASSUME TypeInv, [Next]_vars, NEW i \in Indicators, indicator'[i].exists
  PROVE  indicator[i].exists
<1>1. indicator \in [Indicators -> IndicatorState]
  BY DEF TypeInv, TypeOK
<1>2. ~Delete(i)
  BY <1>1 DEF Delete, Ingested
<1>. QED
  BY <1>2, IndicatorSteps DEF SetConfidence, SetWhitelisted

\* What vouches for an indicator is only ever added to, until it is deleted.
LEMMA EvidenceGrows ==
  ASSUME TypeInv, [Next]_vars, NEW i \in Indicators
  PROVE  evidence[i] \subseteq evidence'[i] \/ Delete(i)
<1>. evidence \in [Indicators -> SUBSET Confidences]
  BY DEF TypeInv, TypeOK
<1>1. ASSUME NEW r \in Runners, RunnerStep(r) PROVE evidence[i] \subseteq evidence'[i]
  <2>1. CASE \E s \in OptScore : Answer(r, s)
    BY <2>1 DEF Answer
  <2>. QED
    BY <1>1, <2>1
       DEF RunnerStep, Look, Cache, Quota, Upstream429, Fail, Orphaned, Defer, Finish,
           Recompute, Rescore, Write, observed
<1>2. CASE Queue
  BY <1>2 DEF Queue, Enqueue, Evict, Promote, Start, observed
<1>3. CASE Analyst
  <2>1. ASSUME NEW k \in Indicators, NEW c \in HandValues, NEW lock \in BOOLEAN,
               SetConfidence(k, c, lock)
        PROVE  evidence[i] \subseteq evidence'[i]
    BY <2>1 DEF SetConfidence
  <2>2. ASSUME NEW k \in Indicators, k # i, Delete(k) PROVE evidence'[i] = evidence[i]
    BY <2>2 DEF Delete
  <2>. QED
    BY <1>3, <2>1, <2>2 DEF Analyst, SetWhitelisted, Lookup, observed
<1>4. CASE Time \/ Crash \/ UNCHANGED vars
  BY <1>4 DEF Time, NewMinute, NewDay, WindowEnds, Expire, Crash, observed, vars
<1>. QED
  BY <1>1, <1>2, <1>3, <1>4 DEF Next

\* Every stored score was answered and not forgotten by a deletion.
RowsVouched ==
  \A i \in Indicators, p \in Providers :
    lastGood[i][p] # NoScore => lastGood[i][p] \in evidence[i]

\* What a recompute is about to write is vouched for, unless its indicator is
\* gone and the write will fail.
SnapshotsVouched ==
  \A r \in Runners :
    run[r].pc \in {"rescore", "write"} /\ indicator[Actor(r)].exists =>
      run[r].conf \in evidence[Actor(r)]

EvidenceInv == ConfidenceHasEvidence /\ RowsVouched /\ SnapshotsVouched

LEMMA RowsVouchedStep ==
  ASSUME TypeInv, RowsVouched, [Next]_vars PROVE RowsVouched'
<1>. SUFFICES ASSUME NEW k \in Indicators, NEW q \in Providers,
                     lastGood'[k][q] # NoScore
              PROVE  lastGood'[k][q] \in evidence'[k]
  BY DEF RowsVouched
<1>. /\ lastGood \in [Indicators -> [Providers -> OptScore]]
     /\ evidence \in [Indicators -> SUBSET Confidences]
  BY DEF TypeInv, TypeOK
<1>1. ~Delete(k)
  BY DEF Delete
<1>2. ASSUME NEW r \in Runners, NEW s \in OptScore, Answer(r, s)
      PROVE  lastGood'[k][q] = lastGood[k][q] \/ lastGood'[k][q] \in evidence'[k]
  <2>1. Actor(r) \in Indicators /\ Current(r) \in Providers
    BY <1>2, AtIsBusy, CurrentType DEF Answer, PcNames, TypeInv, InLoop, At
  <2>2. CASE k = Actor(r) /\ q = Current(r)
    BY <1>2, <2>1, <2>2 DEF Answer
  <2>3. CASE k # Actor(r) \/ q # Current(r)
    BY <1>2, <2>1, <2>3 DEF Answer
  <2>. QED
    BY <2>2, <2>3
<1>3. ASSUME NEW i \in Indicators, i # k, Delete(i)
      PROVE  lastGood'[k][q] = lastGood[k][q]
  BY <1>3 DEF Delete
<1>4. ASSUME NEW r \in Runners, Fail(r) PROVE UNCHANGED lastGood
  BY <1>4 DEF Fail
<1>5. ASSUME NEW i \in Indicators, NEW p \in Providers, Expire(i, p)
      PROVE  UNCHANGED lastGood
  BY <1>5 DEF Expire
<1>6. lastGood'[k][q] = lastGood[k][q] \/ lastGood'[k][q] \in evidence'[k]
  BY <1>1, <1>2, <1>3, <1>4, <1>5, RowSteps
<1>. QED
  BY <1>1, <1>6, EvidenceGrows DEF RowsVouched

\* A recompute chooses among what is vouched for.
LEMMA ChosenIsVouched ==
  ASSUME TypeInv, ScoreInv, EvidenceInv, NEW r \in Runners, Rescore(r),
         indicator[Actor(r)].exists
  PROVE  Pick(run[r].conf, run[r].locked, UsableScores(Actor(r))) \in evidence[Actor(r)]
<1>1. run[r] \in BusyRun /\ Actor(r) \in Indicators
  BY AtIsBusy DEF Rescore, PcNames
<1>2. run[r].conf \in evidence[Actor(r)]
  BY DEF EvidenceInv, SnapshotsVouched, Rescore, At
<1>3. UsableScores(Actor(r)) \subseteq evidence[Actor(r)]
  BY <1>1 DEF UsableScores, Usable, ScoreInv, EvidenceInv, RowsVouched
<1>4. UsableScores(Actor(r)) \subseteq Scores
  BY <1>1, UsableScoresType
<1>5. run[r].locked \in BOOLEAN
  BY <1>1 DEF BusyRun
<1>. QED
  BY <1>2, <1>3, <1>4, <1>5, PickIsGiven

LEMMA SnapshotsVouchedStep ==
  ASSUME TypeInv, ScoreInv, EvidenceInv, [Next]_vars PROVE SnapshotsVouched'
<1>. SUFFICES ASSUME NEW r \in Runners, run'[r].pc \in {"rescore", "write"},
                     indicator'[Actor(r)'].exists
              PROVE  run'[r].conf \in evidence'[Actor(r)']
  BY DEF SnapshotsVouched
<1>. run \in [Runners -> RunState]
  BY DEF TypeInv, TypeOK
<1>1. CASE Stays(r)
  <2>1. run[r] # IdleRun
    BY <1>1 DEF Stays, IdleRun
  <2>2. Actor(r)' = Actor(r) /\ Actor(r) \in Indicators /\ run'[r].conf = run[r].conf
    BY <1>1, <2>1, BusyRunType DEF Stays, Actor, BusyRun, TypeInv
  <2>3. indicator[Actor(r)].exists /\ evidence[Actor(r)] \subseteq evidence'[Actor(r)]
    <3>1. ~Delete(Actor(r))
      BY <2>2 DEF Delete, Ingested, TypeInv, TypeOK
    <3>. QED
      BY <2>2, <3>1, ExistsBefore, EvidenceGrows
  <2>4. run[r].conf \in evidence[Actor(r)]
    BY <1>1, <2>3 DEF Stays, EvidenceInv, SnapshotsVouched
  <2>. QED
    BY <2>2, <2>3, <2>4
<1>2. CASE Recompute(r)
  <2>1. run[r] \in BusyRun /\ Actor(r) \in Indicators
    BY <1>2, AtIsBusy DEF Recompute, LoopDone, PcNames
  <2>2. run'[r] = [run[r] EXCEPT !.pc = "rescore",
                                 !.conf = indicator[Actor(r)].conf,
                                 !.locked = indicator[Actor(r)].locked]
    <3>1. ~Stop(r, Completed(r))
      BY DEF Stop, IdleRun
    <3>. QED
      BY <1>2, <2>1, <3>1 DEF Recompute, BusyRun
  <2>3. Actor(r)' = Actor(r) /\ run'[r].conf = indicator[Actor(r)].conf
    BY <2>1, <2>2 DEF Actor, BusyRun
  <2>. QED
    BY <1>2, <2>1, <2>3 DEF Recompute, EvidenceInv, ConfidenceHasEvidence
<1>3. CASE Rescore(r)
  <2>. DEFINE next == Pick(run[r].conf, run[r].locked, UsableScores(Actor(r)))
  <2>1. run[r] \in BusyRun /\ Actor(r) \in Indicators
    BY <1>3, AtIsBusy DEF Rescore, PcNames
  <2>2. run'[r] = [run[r] EXCEPT !.pc = "write", !.conf = next]
    <3>1. ~Stop(r, Completed(r))
      BY DEF Stop, IdleRun
    <3>. HIDE DEF next
    <3>. QED
      BY <1>3, <2>1, <3>1 DEF Rescore, BusyRun, next
  <2>3. Actor(r)' = Actor(r) /\ run'[r].conf = next
    BY <2>1, <2>2 DEF Actor, BusyRun
  <2>. QED
    BY <1>3, <2>3, ChosenIsVouched DEF Rescore
<1>4. CASE Look(r) \/ Cache(r) \/ Quota(r)
  <2>1. run[r] \in BusyRun
    BY <1>4, AtIsBusy DEF Look, Cache, Quota, PcNames
  <2>2. run'[r].pc \in {"look", "cache", "quota", "call"}
    BY <1>4, <2>1 DEF Look, Cache, Quota, Advance, AdvanceLimited, Goto, BusyRun
  <2>. QED
    BY <2>2
<1>. QED
  BY <1>1, <1>2, <1>3, <1>4, Moves DEF IdleRun

LEMMA ConfidenceStep ==
  ASSUME TypeInv, EvidenceInv, [Next]_vars PROVE ConfidenceHasEvidence'
<1>. SUFFICES ASSUME NEW i \in Indicators PROVE indicator'[i].conf \in evidence'[i]
  BY DEF ConfidenceHasEvidence
<1>. /\ indicator \in [Indicators -> IndicatorState]
     /\ evidence \in [Indicators -> SUBSET Confidences]
     /\ indicator[i] \in IndicatorState
  BY DEF TypeInv, TypeOK
<1>1. CASE Delete(i)
  BY <1>1 DEF Delete, Ingested
<1>2. ASSUME NEW c \in HandValues, NEW lock \in BOOLEAN, SetConfidence(i, c, lock)
      PROVE  indicator'[i].conf \in evidence'[i]
  <2>1. indicator'[i] = [indicator[i] EXCEPT !.conf = c, !.locked = lock]
    BY <1>2 DEF SetConfidence
  <2>2. indicator'[i].conf = c
    BY <2>1 DEF IndicatorState
  <2>. QED
    BY <1>2, <2>2 DEF SetConfidence
<1>3. ASSUME NEW white \in BOOLEAN, SetWhitelisted(i, white)
      PROVE  indicator'[i].conf = indicator[i].conf
  <2>1. indicator'[i] = [indicator[i] EXCEPT !.white = white]
    BY <1>3 DEF SetWhitelisted
  <2>. QED
    BY <2>1 DEF IndicatorState
<1>4. ASSUME NEW r \in Runners, Write(r), Actor(r) = i, indicator[i].exists
      PROVE  indicator'[i].conf \in evidence'[i]
  <2>1. indicator'[i] = [indicator[i] EXCEPT !.conf = run[r].conf] /\ UNCHANGED evidence
    BY <1>4 DEF Write
  <2>2. indicator'[i].conf = run[r].conf
    BY <2>1 DEF IndicatorState
  <2>. QED
    BY <1>4, <2>1, <2>2 DEF EvidenceInv, SnapshotsVouched, Write, At
<1>. QED
  BY <1>1, <1>2, <1>3, <1>4, IndicatorSteps, EvidenceGrows
     DEF EvidenceInv, ConfidenceHasEvidence

\* The confidence is the ingest default, an analyst's value, or a score some
\* provider answered for this indicator: recomputing never makes one up, from
\* a list without scores included (pickIndicatorConfidence).
THEOREM ConfidenceIsVouched == Spec => []ConfidenceHasEvidence
<1>1. Init => ScoreInv /\ EvidenceInv
  BY DEF Init, ScoreInv, EvidenceInv, ConfidenceHasEvidence, RowsVouched,
         SnapshotsVouched, Ingested, IdleRun
<1>2. TypeInv /\ ScoreInv /\ EvidenceInv /\ [Next]_vars => ScoreInv' /\ EvidenceInv'
  BY ScoreInvStep, RowsVouchedStep, SnapshotsVouchedStep, ConfidenceStep DEF EvidenceInv
<1>3. EvidenceInv => ConfidenceHasEvidence
  BY DEF EvidenceInv
<1>. QED
  BY <1>1, <1>2, <1>3, TypeInvariant, PTL DEF Spec
-----------------------------------------------------------------------------
(* Whitelisting stops the spending.                                        *)

\* The runners past enrichOne's check of the whitelist that have not yet asked
\* for their token.
PastCheck(i) ==
  {r \in Runners : run[r].pc \in {"cache", "quota"} /\ Actor(r) = i}

\* Each of those may still spend one; a leak is a runner that was one of them.
LeakInv ==
  \A i \in Indicators :
    IF indicator[i].white
    THEN leaks[i] + Cardinality(PastCheck(i)) <= Cardinality(Runners)
    ELSE leaks[i] = 0

LEMMA RunnersFinite ==
  /\ IsFiniteSet(Runners) /\ Cardinality(Runners) \in Nat
  /\ \A S \in SUBSET Runners : /\ IsFiniteSet(S) /\ Cardinality(S) \in Nat
                               /\ Cardinality(S) <= Cardinality(Runners)
<1>1. IsFiniteSet(Runners)
  BY RunnersAssumption, FS_Union DEF Runners
<1>. QED
  BY <1>1, FS_CardinalityType, FS_Subset

\* A whitelisted indicator lets no runner past the check.
LEMMA NobodyPasses ==
  ASSUME TypeInv, [Next]_vars, NEW i \in Indicators, indicator[i].white
  PROVE  PastCheck(i)' \subseteq PastCheck(i)
<1>. SUFFICES ASSUME NEW r \in Runners, run'[r].pc \in {"cache", "quota"}, Actor(r)' = i
              PROVE  run[r].pc \in {"cache", "quota"} /\ Actor(r) = i
  BY DEF PastCheck
<1>. run \in [Runners -> RunState]
  BY DEF TypeInv, TypeOK
<1>1. CASE Stays(r)
  BY <1>1 DEF Stays, Actor
<1>2. CASE Look(r)
  <2>1. run[r] \in BusyRun
    BY <1>2, AtIsBusy DEF Look, PcNames
  <2>2. Actor(r)' = Actor(r) /\ ~Skipped(Actor(r), Current(r))
    BY <1>2, <2>1 DEF Look, Advance, Goto, Actor, BusyRun
  <2>. QED
    BY <2>2 DEF Skipped
<1>3. CASE Cache(r) \/ Quota(r)
  <2>1. run[r] \in BusyRun
    BY <1>3, AtIsBusy DEF Cache, Quota, PcNames
  <2>2. Actor(r)' = Actor(r)
    BY <1>3, <2>1 DEF Cache, Quota, Advance, AdvanceLimited, Goto, Actor, BusyRun
  <2>. QED
    BY <1>3, <2>2 DEF Cache, Quota, At
<1>4. CASE Recompute(r) \/ Rescore(r)
  <2>1. run[r] \in BusyRun
    BY <1>4, AtIsBusy DEF Recompute, Rescore, LoopDone, PcNames
  <2>2. run'[r] = IdleRun \/ run'[r].pc \in {"rescore", "write"}
    BY <1>4, <2>1 DEF Recompute, Rescore, Stop, BusyRun
  <2>. QED
    BY <2>2 DEF IdleRun
<1>. QED
  BY <1>1, <1>2, <1>3, <1>4, Moves DEF IdleRun

\* The count of leaks changes when a runner spends, and is reset by an edit.
LEMMA LeakSteps ==
  ASSUME TypeInv, [Next]_vars, NEW i \in Indicators
  PROVE  \/ leaks'[i] = leaks[i]
         \/ leaks'[i] = 0 /\ (Delete(i) \/ \E white \in BOOLEAN : SetWhitelisted(i, white))
         \/ \E r \in PastCheck(i) : /\ indicator[i].white /\ leaks'[i] = leaks[i] + 1
                                    /\ r \notin PastCheck(i)'
<1>. leaks \in [Indicators -> Nat] /\ run \in [Runners -> RunState]
  BY DEF TypeInv, TypeOK
<1>1. ASSUME NEW r \in Runners, Quota(r), leaks'[i] # leaks[i]
      PROVE  /\ r \in PastCheck(i) /\ indicator[i].white /\ leaks'[i] = leaks[i] + 1
             /\ r \notin PastCheck(i)'
  <2>1. run[r] \in BusyRun
    BY <1>1, AtIsBusy DEF Quota, PcNames
  <2>2. Actor(r) = i /\ indicator[i].white /\ leaks'[i] = leaks[i] + 1
    BY <1>1 DEF Quota
  <2>3. Goto(r, "call")
    BY <1>1 DEF Quota
  <2>4. run'[r].pc = "call"
    BY <2>1, <2>3 DEF Goto, BusyRun
  <2>. QED
    BY <1>1, <2>2, <2>4 DEF PastCheck, Quota, At
<1>2. ASSUME NEW r \in Runners, RunnerStep(r), ~Quota(r) PROVE leaks'[i] = leaks[i]
  BY <1>2 DEF RunnerStep, Look, Cache, Answer, Upstream429, Fail, Orphaned, Defer,
              Finish, Recompute, Rescore, Write, observed
<1>3. CASE Queue
  BY <1>3 DEF Queue, Enqueue, Evict, Promote, Start, observed
<1>4. CASE Analyst
  <2>1. ASSUME NEW k \in Indicators, NEW white \in BOOLEAN, SetWhitelisted(k, white)
        PROVE  leaks'[i] = leaks[i] \/ (k = i /\ leaks'[i] = 0)
    BY <2>1 DEF SetWhitelisted
  <2>2. ASSUME NEW k \in Indicators, Delete(k)
        PROVE  leaks'[i] = leaks[i] \/ (k = i /\ leaks'[i] = 0)
    BY <2>2 DEF Delete
  <2>. QED
    BY <1>4, <2>1, <2>2 DEF Analyst, SetConfidence, Lookup, observed
<1>5. CASE Time \/ Crash \/ UNCHANGED vars
  BY <1>5 DEF Time, NewMinute, NewDay, WindowEnds, Expire, Crash, observed, vars
<1>. QED
  BY <1>1, <1>2, <1>3, <1>4, <1>5 DEF Next

\* The whitelist mark changes only by the analyst's edit or with the deletion.
LEMMA WhiteSteps ==
  ASSUME TypeInv, [Next]_vars, NEW i \in Indicators
  PROVE  \/ indicator'[i].white = indicator[i].white
         \/ leaks'[i] = 0
<1>. /\ indicator \in [Indicators -> IndicatorState] /\ leaks \in [Indicators -> Nat]
     /\ indicator[i] \in IndicatorState
  BY DEF TypeInv, TypeOK
<1>1. CASE Delete(i) \/ \E white \in BOOLEAN : SetWhitelisted(i, white)
  BY <1>1 DEF Delete, SetWhitelisted
<1>2. ASSUME NEW c \in HandValues, NEW lock \in BOOLEAN, SetConfidence(i, c, lock)
      PROVE  indicator'[i].white = indicator[i].white
  <2>1. indicator'[i] = [indicator[i] EXCEPT !.conf = c, !.locked = lock]
    BY <1>2 DEF SetConfidence
  <2>. QED
    BY <2>1 DEF IndicatorState
<1>3. ASSUME NEW r \in Runners, Write(r), Actor(r) = i, indicator[i].exists
      PROVE  indicator'[i].white = indicator[i].white
  <2>1. indicator'[i] = [indicator[i] EXCEPT !.conf = run[r].conf]
    BY <1>3 DEF Write
  <2>. QED
    BY <2>1 DEF IndicatorState
<1>. QED
  BY <1>1, <1>2, <1>3, IndicatorSteps

LEMMA LeakInvStep ==
  ASSUME TypeInv, LeakInv, [Next]_vars PROVE LeakInv'
<1>. SUFFICES ASSUME NEW i \in Indicators
              PROVE  IF indicator'[i].white
                     THEN leaks'[i] + Cardinality(PastCheck(i)') <= Cardinality(Runners)
                     ELSE leaks'[i] = 0
  BY DEF LeakInv, Runners
<1>. DEFINE before == PastCheck(i)
            after == PastCheck(i)'
            all == Cardinality(Runners)
<1>0. before \subseteq Runners /\ after \subseteq Runners
  BY DEF PastCheck
<1>1. /\ IsFiniteSet(before) /\ Cardinality(before) \in Nat
      /\ IsFiniteSet(after) /\ Cardinality(after) \in Nat
      /\ Cardinality(after) <= all /\ all \in Nat
  BY <1>0, RunnersFinite
<1>2. leaks[i] \in Nat
  BY DEF TypeInv, TypeOK
<1>3. IF indicator[i].white THEN leaks[i] + Cardinality(before) <= all
      ELSE leaks[i] = 0
  BY DEF LeakInv
<1>4. indicator[i].white => after \subseteq before
  BY NobodyPasses
<1>. HIDE DEF before, after, all
<1>5. CASE leaks'[i] = 0
  BY <1>1, <1>5 DEF after, all
<1>6. CASE leaks'[i] = leaks[i] /\ indicator'[i].white = indicator[i].white
  <2>1. indicator[i].white => Cardinality(after) <= Cardinality(before)
    BY <1>1, <1>4, FS_Subset
  <2>. QED
    BY <1>1, <1>2, <1>3, <1>6, <2>1 DEF after, all
<1>7. ASSUME NEW r \in before, indicator[i].white, leaks'[i] = leaks[i] + 1, r \notin after,
             indicator'[i].white = indicator[i].white
      PROVE  leaks'[i] + Cardinality(after) <= all
  <2>1. after \subseteq before \ {r}
    BY <1>4, <1>7
  <2>2. /\ IsFiniteSet(before \ {r})
        /\ Cardinality(before \ {r}) = Cardinality(before) - 1
    BY <1>1, <1>7, FS_RemoveElement
  <2>3. Cardinality(after) <= Cardinality(before) - 1
    BY <2>1, <2>2, FS_Subset
  <2>. QED
    BY <1>1, <1>2, <1>3, <1>7, <2>3
<1>. QED
  BY <1>5, <1>6, <1>7, LeakSteps, WhiteSteps DEF before, after, all

\* Whitelisting stops the spending: an indicator costs at most one token per
\* runner after it was whitelisted, those of lookups past the check already.
THEOREM LeaksAreBounded == Spec => []WhitelistLeakBounded
<1>1. Init => LeakInv
  BY DEF Init, LeakInv, Ingested
<1>2. TypeInv /\ LeakInv /\ [Next]_vars => LeakInv'
  BY LeakInvStep
<1>3. TypeInv /\ LeakInv => WhitelistLeakBounded
  <2>. SUFFICES ASSUME TypeInv, LeakInv, NEW i \in Indicators
                PROVE  leaks[i] <= Cardinality(Runners)
    BY DEF WhitelistLeakBounded
  <2>1. PastCheck(i) \in SUBSET Runners
    BY DEF PastCheck
  <2>2. Cardinality(PastCheck(i)) \in Nat /\ Cardinality(Runners) \in Nat
    BY <2>1, RunnersFinite
  <2>3. leaks[i] \in Nat
    BY DEF TypeInv, TypeOK
  <2>. QED
    BY <2>2, <2>3 DEF LeakInv
<1>. QED
  BY <1>1, <1>2, <1>3, TypeInvariant, PTL DEF Spec
-----------------------------------------------------------------------------
(* No work is thrown away.                                                 *)

\* A job's paid-for providers have fresh rows; an unforced slot that is about
\* to spend has just found the row of its provider missing or expired.
PaidRowsFresh ==
  \A j \in Jobs : \A p \in answered[j] : Fresh(j[1], p)
SpenderUnpaid ==
  \A w \in Slots : run[w].pc = "quota" /\ ~Forced(w) =>
    Current(w) \notin answered[run[w].job]
PaidInv == PaidRowsFresh /\ SpenderUnpaid

\* A step pays for one provider of one job at most, and stores its row.
LEMMA AnsweredSteps ==
  ASSUME TypeInv, [Next]_vars, NEW j \in Jobs, NEW p \in answered'[j]
  PROVE  \/ p \in answered[j]
         \/ \E r \in Slots : /\ run[r] # IdleRun /\ j = run[r].job /\ p = Current(r)
                             /\ Fail(r) \/ \E s \in OptScore : Answer(r, s)
<1>. answered \in [Jobs -> SUBSET Providers]
  BY DEF TypeInv, TypeOK
<1>1. ASSUME NEW r \in Runners, NEW job, Stop(r, job) PROVE p \in answered[j]
  BY <1>1 DEF Stop
<1>2. ASSUME NEW r \in Runners, Fail(r) \/ \E s \in OptScore : Answer(r, s)
      PROVE  \/ p \in answered[j]
             \/ r \in Slots /\ run[r] # IdleRun /\ j = run[r].job /\ p = Current(r)
  <2>1. run[r] # IdleRun /\ answered' = Paid(r)
    BY <1>2, AtIsBusy DEF Fail, Answer, PcNames
  <2>. QED
    BY <2>1 DEF Paid
<1>3. ASSUME NEW r \in Runners, RunnerStep(r),
             ~(Fail(r) \/ \E s \in OptScore : Answer(r, s))
      PROVE  p \in answered[j]
  BY <1>1, <1>3 DEF RunnerStep, Look, Cache, Quota, Upstream429, Orphaned, Defer,
                    Finish, Recompute, Rescore, Write, observed
<1>4. CASE Queue
  BY <1>4 DEF Queue, Enqueue, Evict, Promote, Start, observed
<1>5. CASE Analyst
  BY <1>5 DEF Analyst, SetConfidence, SetWhitelisted, Delete, Lookup, observed
<1>6. CASE Time \/ Crash \/ UNCHANGED vars
  BY <1>6 DEF Time, NewMinute, NewDay, WindowEnds, Expire, Crash, observed, vars
<1>. QED
  BY <1>2, <1>3, <1>4, <1>5, <1>6 DEF Next, Runners

\* Both upserts of enrichOne leave a fresh row for their provider, alone.
LEMMA PaymentRows ==
  ASSUME TypeInv, NEW r \in Runners, Fail(r) \/ \E s \in OptScore : Answer(r, s),
         NEW i \in Indicators, NEW p \in Providers
  PROVE  \/ rows'[i][p] = rows[i][p] /\ ~(i = Actor(r) /\ p = Current(r))
         \/ rows'[i][p] # NoRow /\ rows'[i][p].fresh
<1>. rows \in [Indicators -> [Providers -> RowState]]
  BY DEF TypeInv, TypeOK
<1>1. Actor(r) \in Indicators /\ Current(r) \in Providers
  BY AtIsBusy, CurrentType DEF Answer, Fail, PcNames, TypeInv, InLoop, At
<1>2. \E row : /\ rows' = [rows EXCEPT ![Actor(r)][Current(r)] = row]
                /\ row # NoRow /\ row.fresh
  <2>1. CASE Fail(r)
    <3>1. ErrorRow(Actor(r), Current(r)) # NoRow /\ ErrorRow(Actor(r), Current(r)).fresh
      BY RowIsNoNoRow DEF ErrorRow
    <3>. QED
      BY <2>1, <3>1 DEF Fail
  <2>2. ASSUME NEW s \in OptScore, Answer(r, s)
        PROVE  \E row : /\ rows' = [rows EXCEPT ![Actor(r)][Current(r)] = row]
                        /\ row # NoRow /\ row.fresh
    <3>1. Row(s, FALSE, TRUE) # NoRow /\ Row(s, FALSE, TRUE).fresh
      BY RowIsNoNoRow
    <3>. QED
      BY <2>2, <3>1 DEF Answer
  <2>. QED
    BY <2>1, <2>2
<1>3. PICK row : /\ rows' = [rows EXCEPT ![Actor(r)][Current(r)] = row]
                 /\ row # NoRow /\ row.fresh
  BY <1>2
<1>4. CASE i = Actor(r) /\ p = Current(r)
  BY <1>1, <1>3, <1>4
<1>5. CASE ~(i = Actor(r) /\ p = Current(r))
  BY <1>1, <1>3, <1>5
<1>. QED
  BY <1>4, <1>5

LEMMA PaidRowsFreshStep ==
  ASSUME TypeInv, PaidInv, [Next]_vars PROVE PaidRowsFresh'
<1>. SUFFICES ASSUME NEW j \in Jobs, NEW p \in answered'[j]
              PROVE  rows'[j[1]][p] # NoRow /\ rows'[j[1]][p].fresh
  BY DEF PaidRowsFresh, Fresh, Jobs
<1>0. j[1] \in Indicators
  BY DEF Jobs
<1>. /\ answered \in [Jobs -> SUBSET Providers]
     /\ rows \in [Indicators -> [Providers -> RowState]]
  BY DEF TypeInv, TypeOK
<1>1. CASE \E r \in Slots : /\ run[r] # IdleRun /\ j = run[r].job /\ p = Current(r)
                            /\ Fail(r) \/ \E s \in OptScore : Answer(r, s)
  <2>1. PICK r \in Slots : /\ run[r] # IdleRun /\ j = run[r].job /\ p = Current(r)
                           /\ Fail(r) \/ \E s \in OptScore : Answer(r, s)
    BY <1>1
  <2>2. r \in Runners /\ j[1] = Actor(r) /\ p \in Providers
    BY <2>1, CurrentType DEF Runners, Actor, TypeInv, InLoop, Fail, Answer, At
  <2>. QED
    BY <1>0, <2>1, <2>2, PaymentRows
<1>2. CASE p \in answered[j]
  <2>0. rows[j[1]][p] # NoRow /\ rows[j[1]][p].fresh /\ p \in Providers
    BY <1>2 DEF PaidInv, PaidRowsFresh, Fresh
  <2>1. CASE UNCHANGED rows
    BY <2>0, <2>1
  <2>2. CASE \E r \in Runners : Fail(r) \/ \E s \in OptScore : Answer(r, s)
    BY <1>0, <2>0, <2>2, PaymentRows
  <2>3. ASSUME NEW i \in Indicators, Delete(i) PROVE rows'[j[1]][p] = rows[j[1]][p]
    BY <1>0, <2>3 DEF Delete
  <2>4. ASSUME NEW i \in Indicators, NEW q \in Providers, Expire(i, q)
        PROVE  rows'[j[1]][p] = rows[j[1]][p]
    <3>1. ~(i = j[1] /\ q = p)
      BY <2>4 DEF Expire
    <3>. QED
      BY <1>0, <2>0, <2>4, <3>1 DEF Expire
  <2>. QED
    BY <2>0, <2>1, <2>2, <2>3, <2>4, RowSteps
<1>. QED
  BY <1>1, <1>2, AnsweredSteps

LEMMA SpenderUnpaidStep ==
  ASSUME TypeInv, PaidInv, [Next]_vars PROVE SpenderUnpaid'
<1>. SUFFICES ASSUME NEW w \in Slots, run'[w].pc = "quota", ~Forced(w)',
                     Current(w)' \in answered'[run'[w].job]
              PROVE  FALSE
  BY DEF SpenderUnpaid
<1>. /\ run \in [Runners -> RunState] /\ w \in Runners
     /\ answered \in [Jobs -> SUBSET Providers]
  BY DEF TypeInv, TypeOK, Runners
<1>1. CASE Stays(w)
  <2>1. /\ run[w].pc = "quota" /\ ~Forced(w) /\ run'[w].job = run[w].job
        /\ Current(w)' = Current(w) /\ run[w] # IdleRun
    BY <1>1 DEF Stays, Forced, Current, IdleRun
  <2>2. run[w].job \in Jobs /\ Current(w) \notin answered[run[w].job]
    BY <2>1 DEF PaidInv, SpenderUnpaid, TypeInv, SlotsMatchJobs
  <2>3. PICK r \in Slots : /\ run[r] # IdleRun /\ run[w].job = run[r].job
                           /\ Fail(r) \/ \E s \in OptScore : Answer(r, s)
    BY <2>1, <2>2, AnsweredSteps
  <2>4. r = w
    BY <2>1, <2>3 DEF TypeInv, SlotsMatchJobs
  <2>. QED
    BY <2>1, <2>3, <2>4 DEF Fail, Answer, At
<1>2. CASE Look(w)
  <2>1. run[w] \in BusyRun
    BY <1>2, AtIsBusy DEF Look, PcNames
  <2>2. Forced(w)' = Forced(w) /\ Forced(w)
    BY <1>2, <2>1 DEF Look, Advance, Goto, Forced, BusyRun
  <2>. QED
    BY <2>2
<1>3. CASE Cache(w)
  <2>1. run[w] \in BusyRun /\ run[w] # IdleRun
    BY <1>3, AtIsBusy DEF Cache, PcNames
  <2>2. Goto(w, "quota") /\ ~Fresh(Actor(w), Current(w)) /\ UNCHANGED answered
    BY <1>3, <2>1 DEF Cache, Advance, BusyRun, observed
  <2>3. run'[w].job = run[w].job /\ Current(w)' = Current(w)
    BY <2>1, <2>2 DEF Goto, Current, BusyRun
  <2>4. run[w].job \in Jobs
    BY <2>1 DEF TypeInv, SlotsMatchJobs
  <2>. QED
    BY <2>2, <2>3, <2>4 DEF PaidInv, PaidRowsFresh, Actor
<1>4. CASE Quota(w)
  <2>1. run[w] \in BusyRun
    BY <1>4, AtIsBusy DEF Quota, PcNames
  <2>2. run'[w].pc \in {"look", "call"}
    BY <1>4, <2>1 DEF Quota, AdvanceLimited, Goto, BusyRun
  <2>. QED
    BY <2>2
<1>5. CASE Recompute(w) \/ Rescore(w)
  <2>1. run[w] \in BusyRun
    BY <1>5, AtIsBusy DEF Recompute, Rescore, LoopDone, PcNames
  <2>2. run'[w] = IdleRun \/ run'[w].pc \in {"rescore", "write"}
    BY <1>5, <2>1 DEF Recompute, Rescore, Stop, BusyRun
  <2>. QED
    BY <2>2 DEF IdleRun
<1>. QED
  BY <1>1, <1>2, <1>3, <1>4, <1>5, Moves DEF IdleRun

\* An unforced job that was deferred, retried or recovered after a crash never
\* pays again for a provider while the row it paid for is fresh (enrichOne
\* reads the cache before it consumes a token).
THEOREM WorkIsKept == Spec => NoWorkThrownAway
<1>1. Init => PaidInv
  BY DEF Init, PaidInv, PaidRowsFresh, SpenderUnpaid, Runners, IdleRun
<1>2. TypeInv /\ PaidInv /\ [Next]_vars => PaidInv'
  BY PaidRowsFreshStep, SpenderUnpaidStep DEF PaidInv
<1>3. PaidInv => \A w \in Slots : Spends(w) /\ ~Forced(w) =>
                   Current(w) \notin answered[run[w].job]
  BY DEF PaidInv, SpenderUnpaid, Spends, At
<1>. QED
  BY <1>1, <1>2, <1>3, TypeInvariant, PTL DEF Spec, NoWorkThrownAway
=============================================================================
