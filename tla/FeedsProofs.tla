------------------------------ MODULE FeedsProofs ------------------------------
(***************************************************************************)
(* What Feeds promises for any CVEs, articles, jobs and slots.             *)
(*                                                                         *)
(* Types need the queue's bookkeeping (a slot's job is active and its own, *)
(* and has an attempt left).  NothingErased needs to know what a run holds *)
(* between its reading and its write; CountedOnce needs to know whose      *)
(* creation an uncounted article is; FailuresShow counts what a run has    *)
(* reported and not yet settled.                                           *)
(***************************************************************************)
EXTENDS Feeds, FiniteSetTheorems, TLAPS

PcNames == {"fetch", "list", "look", "save", "score", "record", "settle"}
BusyRun ==
  [pc : PcNames, job : Jobs, todo : SUBSET Items, item : Items \cup {Nothing},
   snap : RowState, created : SUBSET Articles, ok : BOOLEAN]

\* The job a slot works on is active, and no other slot works on it.
SlotsMatchJobs ==
  \A w \in Slots : Busy(w) =>
    /\ jobs[run[w].job].st = "active"
    /\ \A v \in Slots : v # w /\ Busy(v) => run[v].job # run[w].job

\* A job that is still to run has an attempt left.
AttemptsLeft ==
  \A j \in Jobs : jobs[j].st \in {"absent", "waiting", "active"} => jobs[j].tries < MaxAttempts

\* Only EPSS runs list and score.
ScoringIsEpss ==
  \A w \in Slots : At(w, "list") \/ At(w, "score") => Feed(w) = "epss"

TypeInv == TypeOK /\ SlotsMatchJobs /\ AttemptsLeft /\ ScoringIsEpss
-----------------------------------------------------------------------------
(* Helpers about runs.                                                     *)

LEMMA RunTypes ==
  /\ IdleRun \in RunState /\ BusyRun \subseteq RunState
  /\ \A x \in BusyRun : x # IdleRun
  /\ \A j \in Jobs : NewRun(j) \in BusyRun /\ NewRun(j).job = j
BY DEF RunState, BusyRun, IdleRun, PcNames, NewRun, RowState

LEMMA BusyRunType ==
  ASSUME TypeOK, NEW w \in Slots, Busy(w)
  PROVE  run[w] \in BusyRun
BY DEF TypeOK, RunState, BusyRun, Busy, PcNames

LEMMA AtIsBusy ==
  ASSUME TypeOK, NEW w \in Slots, NEW pc \in PcNames, At(w, pc)
  PROVE  Busy(w) /\ run[w] \in BusyRun
<1>1. Busy(w)
  BY DEF At, Busy, IdleRun, PcNames
<1>. QED
  BY <1>1, BusyRunType

\* The run of w advances within its job; nothing else moves in queue or slots.
Moves(w, x) ==
  /\ x \in BusyRun /\ x.job = run[w].job
  /\ run' = [run EXCEPT ![w] = x]
  /\ jobs' = jobs

\* A step inside a run keeps the bookkeeping.
LEMMA MoveKeeps ==
  ASSUME TypeInv, NEW w \in Slots, NEW x, Busy(w), Moves(w, x),
         x.pc \in {"list", "score"} => Feed(w) = "epss"
  PROVE  /\ run' \in [Slots -> RunState]
         /\ jobs' \in [Jobs -> JobState]
         /\ SlotsMatchJobs' /\ AttemptsLeft' /\ ScoringIsEpss'
<1>. run \in [Slots -> RunState] /\ jobs \in [Jobs -> JobState]
  BY DEF TypeInv, TypeOK
<1>1. run' \in [Slots -> RunState] /\ jobs' \in [Jobs -> JobState]
  BY RunTypes DEF Moves
<1>2. run'[w] = x /\ \A v \in Slots \ {w} : run'[v] = run[v]
  BY DEF Moves
<1>3. SlotsMatchJobs'
  BY <1>2, RunTypes DEF TypeInv, SlotsMatchJobs, Busy, Moves
<1>4. AttemptsLeft'
  BY DEF TypeInv, AttemptsLeft, Moves
<1>5. ScoringIsEpss'
  <2>1. ASSUME NEW v \in Slots, (At(v, "list") \/ At(v, "score"))'
        PROVE  (Feed(v) = "epss")'
    <3>1. CASE v = w
      BY <3>1, <2>1, <1>2 DEF At, Feed, Moves
    <3>2. CASE v # w
      BY <3>2, <2>1, <1>2 DEF At, Feed, TypeInv, ScoringIsEpss
    <3>. QED
      BY <3>1, <3>2
  <2>. QED
    BY <2>1 DEF ScoringIsEpss
<1>. QED
  BY <1>1, <1>3, <1>4, <1>5

LEMMA BringsType == \A feed : Brings(feed) \in SUBSET Facts
BY DEF Brings, Facts

\* A row holds facts; the mark of a missing row is none.
LEMMA FactsAreRows == \A S \in SUBSET Facts : S # Missing /\ S \in RowState
BY DEF Facts, Missing, RowState
-----------------------------------------------------------------------------
(* Type correctness.                                                       *)

LEMMA InitTypes == Init => TypeInv
<1>. SUFFICES ASSUME Init PROVE TypeInv
  OBVIOUS
<1>1. TypeOK
  BY BoundsAssumption, RunTypes DEF Init, TypeOK, RowState, JobState, MaxAttempts, Facts
<1>2. SlotsMatchJobs /\ AttemptsLeft /\ ScoringIsEpss
  BY DEF Init, SlotsMatchJobs, AttemptsLeft, ScoringIsEpss, Busy, At, IdleRun, MaxAttempts
<1>. QED
  BY <1>1, <1>2 DEF TypeInv

\* The table's variables keep their types in a write of one run.
LEMMA FetchMoves ==
  ASSUME TypeInv, NEW w \in Slots, Fetch(w)
  PROVE  TypeInv'
<1>1. Busy(w) /\ run[w] \in BusyRun
  BY AtIsBusy DEF Fetch, TypeInv, PcNames
<1>2. PICK doc \in Document(Feed(w)) :
        run' = [run EXCEPT ![w].pc = IF Feed(w) = "epss" THEN "list" ELSE "look",
                           ![w].todo = doc]
  BY DEF Fetch
<1>. DEFINE x == [run[w] EXCEPT !.pc = IF Feed(w) = "epss" THEN "list" ELSE "look",
                                !.todo = doc]
<1>3. doc \in SUBSET Items
  BY DEF Document, Items
<1>4. x \in BusyRun /\ x.job = run[w].job /\ (x.pc \in {"list", "score"} => Feed(w) = "epss")
  BY <1>1, <1>3 DEF BusyRun, PcNames
<1>5. Moves(w, x)
  BY <1>2, <1>4 DEF Moves, Fetch, TypeInv, TypeOK
<1>. HIDE DEF x
<1>6. run' \in [Slots -> RunState] /\ jobs' \in [Jobs -> JobState]
      /\ SlotsMatchJobs' /\ AttemptsLeft' /\ ScoringIsEpss'
  BY <1>1, <1>4, <1>5, MoveKeeps
<1>. QED
  BY <1>6 DEF Fetch, table, TypeInv, TypeOK

LEMMA LookMoves ==
  ASSUME TypeInv, NEW w \in Slots, Look(w)
  PROVE  TypeInv'
<1>1. Busy(w) /\ run[w] \in BusyRun
  BY AtIsBusy DEF Look, TypeInv, PcNames
<1>2. PICK y \in run[w].todo :
        run' = [run EXCEPT ![w] = IF Duplicate(y) THEN Skip(w, y) ELSE Hold(w, y)]
  BY DEF Look
<1>. DEFINE x == IF Duplicate(y) THEN Skip(w, y) ELSE Hold(w, y)
<1>3. y \in Items /\ rows[y] \in RowState
  BY <1>1, <1>2 DEF BusyRun, TypeInv, TypeOK
<1>4. x \in BusyRun /\ x.job = run[w].job /\ x.pc \notin {"list", "score"}
  BY <1>1, <1>3 DEF BusyRun, PcNames, Skip, Hold, Look, At
<1>5. Moves(w, x)
  BY <1>2, <1>4 DEF Moves, Look
<1>. HIDE DEF x
<1>6. run' \in [Slots -> RunState] /\ jobs' \in [Jobs -> JobState]
      /\ SlotsMatchJobs' /\ AttemptsLeft' /\ ScoringIsEpss'
  BY <1>1, <1>4, <1>5, MoveKeeps
<1>. QED
  BY <1>6 DEF Look, table, TypeInv, TypeOK

LEMMA SaveMoves ==
  ASSUME TypeInv, NEW w \in Slots, Save(w)
  PROVE  TypeInv'
<1>1. Busy(w) /\ run[w] \in BusyRun
  BY AtIsBusy DEF Save, TypeInv, PcNames
<1>. DEFINE y == run[w].item
            x == [run[w] EXCEPT !.pc = "look", !.todo = @ \ {y}, !.item = Nothing,
                    !.snap = Missing,
                    !.created = IF y \in Articles THEN @ \cup {y} ELSE @]
<1>2. x \in BusyRun /\ x.job = run[w].job /\ x.pc \notin {"list", "score"}
  BY <1>1 DEF BusyRun, PcNames, RowState
<1>3. Moves(w, x)
  BY <1>2 DEF Moves, Save, TypeInv, TypeOK
<1>4. Merged(run[w].snap, Feed(w)) \in RowState
  <2>1. run[w].snap \in RowState
    BY <1>1 DEF BusyRun
  <2>. QED
    BY <2>1, BringsType DEF Merged, RowState
<1>5. rows' \in [Items -> RowState]
  BY <1>4 DEF Save, TypeInv, TypeOK
<1>6. told' \in [Cves -> SUBSET Facts] /\ raced' \subseteq Cves
  BY BringsType DEF Save, Told, Raced, TypeInv, TypeOK
<1>. HIDE DEF x
<1>7. run' \in [Slots -> RunState] /\ jobs' \in [Jobs -> JobState]
      /\ SlotsMatchJobs' /\ AttemptsLeft' /\ ScoringIsEpss'
  BY <1>1, <1>2, <1>3, MoveKeeps
<1>. QED
  BY <1>5, <1>6, <1>7 DEF Save, TypeInv, TypeOK

LEMMA ListMoves ==
  ASSUME TypeInv, NEW w \in Slots, List(w)
  PROVE  TypeInv'
<1>1. Busy(w) /\ run[w] \in BusyRun
  BY AtIsBusy DEF List, TypeInv, PcNames
<1>2. Feed(w) = "epss"
  BY DEF List, TypeInv, ScoringIsEpss
<1>. DEFINE x == [run[w] EXCEPT !.pc = "score", !.todo = @ \cap Tracked]
<1>3. x \in BusyRun /\ x.job = run[w].job
  BY <1>1 DEF BusyRun, PcNames
<1>4. Moves(w, x)
  BY <1>3 DEF Moves, List, TypeInv, TypeOK
<1>. HIDE DEF x
<1>5. run' \in [Slots -> RunState] /\ jobs' \in [Jobs -> JobState]
      /\ SlotsMatchJobs' /\ AttemptsLeft' /\ ScoringIsEpss'
  BY <1>1, <1>2, <1>4, MoveKeeps
<1>. QED
  BY <1>5 DEF List, table, TypeInv, TypeOK

LEMMA ScoreMoves ==
  ASSUME TypeInv, NEW w \in Slots, Score(w)
  PROVE  TypeInv'
<1>1. Busy(w) /\ run[w] \in BusyRun
  BY AtIsBusy DEF Score, TypeInv, PcNames
<1>2. Feed(w) = "epss"
  BY DEF Score, TypeInv, ScoringIsEpss
<1>3. PICK c \in run[w].todo \cap Tracked :
        /\ rows' = [rows EXCEPT ![c] = @ \cup Brings("epss")]
        /\ run' = [run EXCEPT ![w].todo = @ \ {c}]
        /\ told' = Told(w, c) /\ raced' = Raced(w, c)
  BY DEF Score
<1>. DEFINE x == [run[w] EXCEPT !.todo = @ \ {c}]
<1>4. x \in BusyRun /\ x.job = run[w].job
  BY <1>1 DEF BusyRun, PcNames
<1>5. Moves(w, x)
  BY <1>3, <1>4 DEF Moves, Score, TypeInv, TypeOK
<1>6. c \in Cves /\ c \in Items /\ rows[c] \in SUBSET Facts
  BY DEF Tracked, Items, TypeInv, TypeOK, RowState
<1>7. rows' \in [Items -> RowState]
  BY <1>3, <1>6, BringsType DEF TypeInv, TypeOK, RowState
<1>8. told' \in [Cves -> SUBSET Facts] /\ raced' \subseteq Cves
  BY <1>3, <1>6, BringsType DEF Told, Raced, TypeInv, TypeOK
<1>. HIDE DEF x
<1>9. run' \in [Slots -> RunState] /\ jobs' \in [Jobs -> JobState]
      /\ SlotsMatchJobs' /\ AttemptsLeft' /\ ScoringIsEpss'
  BY <1>1, <1>2, <1>5, MoveKeeps
<1>. QED
  BY <1>7, <1>8, <1>9 DEF Score, TypeInv, TypeOK

LEMMA PruneTypes ==
  ASSUME TypeOK, Prune
  PROVE  /\ rows' \in [Items -> RowState] /\ aged' \subseteq Cves
         /\ told' \in [Cves -> SUBSET Facts] /\ raced' \subseteq Cves
BY DEF TypeOK, Prune, RowState

LEMMA PruneNvdMoves ==
  ASSUME TypeInv, NEW w \in Slots, PruneNvd(w)
  PROVE  TypeInv'
<1>1. Busy(w) /\ run[w] \in BusyRun
  BY AtIsBusy DEF PruneNvd, Exhausted, TypeInv, PcNames
<1>. DEFINE x == [run[w] EXCEPT !.pc = "record"]
<1>2. x \in BusyRun /\ x.job = run[w].job /\ x.pc \notin {"list", "score"}
  BY <1>1 DEF BusyRun, PcNames
<1>3. Moves(w, x)
  BY <1>2 DEF Moves, PruneNvd, TypeInv, TypeOK
<1>. HIDE DEF x
<1>4. run' \in [Slots -> RunState] /\ jobs' \in [Jobs -> JobState]
      /\ SlotsMatchJobs' /\ AttemptsLeft' /\ ScoringIsEpss'
  BY <1>1, <1>2, <1>3, MoveKeeps
<1>. QED
  BY <1>4, PruneTypes DEF PruneNvd, TypeInv, TypeOK

\* runFeed's two endings leave the run to be settled.
LEMMA SettlingMoves ==
  ASSUME TypeInv, NEW w \in Slots, Busy(w), NEW ok \in BOOLEAN,
         Settling(w, ok), jobs' = jobs
  PROVE  /\ run' \in [Slots -> RunState] /\ jobs' \in [Jobs -> JobState]
         /\ SlotsMatchJobs' /\ AttemptsLeft' /\ ScoringIsEpss'
<1>1. run[w] \in BusyRun
  BY BusyRunType DEF TypeInv
<1>. DEFINE x == [run[w] EXCEPT !.pc = "settle", !.ok = ok]
<1>2. x \in BusyRun /\ x.job = run[w].job /\ x.pc \notin {"list", "score"}
  BY <1>1 DEF BusyRun, PcNames
<1>3. Moves(w, x)
  BY <1>2 DEF Moves, Settling, TypeInv, TypeOK
<1>. HIDE DEF x
<1>. QED
  BY <1>2, <1>3, MoveKeeps

LEMMA RecordedType ==
  ASSUME TypeOK, NEW w \in Slots, NEW status \in {"ok", "error", "skipped"},
         NEW failures \in Nat, Recorded(w, status, failures)
  PROVE  health' \in [Sources -> [status : {"never", "ok", "error", "skipped"}, errors : Nat]]
<1>. DEFINE s == SourceOf[run[w].job]
            new == [status |-> status, errors |-> health[s].errors + failures]
<1>1. health' = [health EXCEPT ![s] = new]
  BY DEF Recorded
<1>2. s \in Sources => new \in [status : {"never", "ok", "error", "skipped"}, errors : Nat]
  BY DEF TypeOK
<1>. HIDE DEF new
<1>. QED
  BY <1>1, <1>2 DEF TypeOK

LEMMA FinishMoves ==
  ASSUME TypeInv, NEW w \in Slots, Finish(w)
  PROVE  TypeInv'
<1>1. Busy(w) /\ run[w] \in BusyRun
  BY AtIsBusy DEF Finish, Exhausted, TypeInv, PcNames
<1>2. counted' \in [Articles -> Nat]
  BY DEF Finish, TypeInv, TypeOK
<1>3. health' \in [Sources -> [status : {"never", "ok", "error", "skipped"}, errors : Nat]]
  BY RecordedType DEF Finish, TypeInv
<1>4. run' \in [Slots -> RunState] /\ jobs' \in [Jobs -> JobState]
      /\ SlotsMatchJobs' /\ AttemptsLeft' /\ ScoringIsEpss'
  BY <1>1, SettlingMoves DEF Finish
<1>. QED
  BY <1>2, <1>3, <1>4 DEF Finish, table, TypeInv, TypeOK

\* Every way a run ends without success.
Aborts(w) == FetchFails(w) \/ SaveRejected(w) \/ ScoreRejected(w) \/ Unrunnable(w)

LEMMA AbortsMeans ==
  ASSUME NEW w \in Slots, Aborts(w)
  PROVE  /\ At(w, "fetch") \/ At(w, "save") \/ At(w, "score")
         /\ Settling(w, FALSE)
         /\ UNCHANGED <<counted, jobs>> /\ UNCHANGED table
         /\ \E status \in {"error", "skipped"}, failures \in {0, 1} : Recorded(w, status, failures)
BY DEF Aborts, FetchFails, SaveRejected, ScoreRejected, Unrunnable, Caught, ErrorCounted

LEMMA AbortMoves ==
  ASSUME TypeInv, NEW w \in Slots, Aborts(w)
  PROVE  TypeInv'
<1>1. Busy(w)
  BY AbortsMeans, AtIsBusy DEF TypeInv, PcNames
<1>2. health' \in [Sources -> [status : {"never", "ok", "error", "skipped"}, errors : Nat]]
  BY AbortsMeans, RecordedType DEF TypeInv
<1>3. run' \in [Slots -> RunState] /\ jobs' \in [Jobs -> JobState]
      /\ SlotsMatchJobs' /\ AttemptsLeft' /\ ScoringIsEpss'
  BY <1>1, AbortsMeans, SettlingMoves
<1>4. budget' \in [{"error", "crash"} -> Nat]
  <2>1. CASE FetchFails(w)
    <3>1. budget["error"] \in Nat /\ budget["error"] > 0
          /\ budget' = [budget EXCEPT !["error"] = budget["error"] - 1]
      BY <2>1 DEF FetchFails, Spend, TypeInv, TypeOK
    <3>2. budget["error"] - 1 \in Nat
      BY <3>1
    <3>. QED
      BY <3>1, <3>2 DEF TypeInv, TypeOK
  <2>2. CASE ~FetchFails(w)
    BY <2>2 DEF Aborts, SaveRejected, ScoreRejected, Unrunnable, TypeInv, TypeOK
  <2>. QED
    BY <2>1, <2>2
<1>. QED
  BY <1>2, <1>3, <1>4, AbortsMeans DEF table, TypeInv, TypeOK

LEMMA SettleMoves ==
  ASSUME TypeInv, NEW w \in Slots, Settle(w)
  PROVE  TypeInv'
<1>1. Busy(w) /\ run[w] \in BusyRun
  BY AtIsBusy DEF Settle, TypeInv, PcNames
<1>. DEFINE j == run[w].job
<1>2. j \in Jobs /\ jobs[j] \in JobState /\ jobs[j].tries < MaxAttempts
  BY <1>1 DEF BusyRun, TypeInv, TypeOK, SlotsMatchJobs, AttemptsLeft
<1>3. Attempted(j, run[w].ok) \in JobState
      /\ (Attempted(j, run[w].ok).st \in {"absent", "waiting", "active"}
            => Attempted(j, run[w].ok).tries < MaxAttempts)
  BY <1>2 DEF Attempted, JobState, MaxAttempts
<1>4. jobs' = [jobs EXCEPT ![j] = Attempted(j, run[w].ok)] /\ run' = [run EXCEPT ![w] = IdleRun]
  BY DEF Settle
<1>5. run' \in [Slots -> RunState] /\ jobs' \in [Jobs -> JobState]
  BY <1>3, <1>4, RunTypes DEF TypeInv, TypeOK
<1>6. \A v \in Slots : (Busy(v))' => v # w /\ Busy(v) /\ run'[v] = run[v] /\ run[v].job # j
  BY <1>1, <1>4 DEF Busy, TypeInv, TypeOK, SlotsMatchJobs
<1>7. SlotsMatchJobs'
  BY <1>4, <1>6 DEF TypeInv, SlotsMatchJobs
<1>8. AttemptsLeft'
  BY <1>3, <1>4 DEF TypeInv, TypeOK, AttemptsLeft
<1>9. ScoringIsEpss'
  BY <1>4 DEF TypeInv, TypeOK, ScoringIsEpss, At, Feed, IdleRun
<1>. QED
  BY <1>5, <1>7, <1>8, <1>9 DEF Settle, table, TypeInv, TypeOK

LEMMA QueueMoves ==
  ASSUME TypeInv, NEW j \in Jobs, Enqueue(j) \/ \E w \in Slots : Start(w, j)
  PROVE  TypeInv'
<1>1. CASE Enqueue(j)
  <2>1. jobs' \in [Jobs -> JobState] /\ SlotsMatchJobs' /\ AttemptsLeft' /\ ScoringIsEpss'
    BY <1>1 DEF Enqueue, TypeInv, TypeOK, JobState, SlotsMatchJobs, AttemptsLeft,
                ScoringIsEpss, Busy, At, Feed
  <2>. QED
    BY <1>1, <2>1 DEF Enqueue, table, TypeInv, TypeOK
<1>2. ASSUME NEW w \in Slots, Start(w, j) PROVE TypeInv'
  <2>1. jobs' = [jobs EXCEPT ![j].st = "active"] /\ run' = [run EXCEPT ![w] = NewRun(j)]
        /\ jobs[j].st = "waiting" /\ ~Busy(w)
    BY <1>2 DEF Start
  <2>2. run' \in [Slots -> RunState] /\ jobs' \in [Jobs -> JobState]
    BY <2>1, RunTypes DEF TypeInv, TypeOK, JobState
  <2>3. AttemptsLeft'
    BY <2>1 DEF TypeInv, TypeOK, AttemptsLeft, JobState
  <2>4. ScoringIsEpss'
    BY <2>1 DEF TypeInv, TypeOK, ScoringIsEpss, At, Feed, NewRun
  <2>5. ASSUME NEW v \in Slots, (Busy(v))'
        PROVE  /\ jobs'[run'[v].job].st = "active"
               /\ \A u \in Slots : u # v /\ (Busy(u))' => run'[u].job # run'[v].job
    <3>1. \A u \in Slots \ {w} : run'[u] = run[u] /\ (Busy(u))' = Busy(u)
      BY <2>1 DEF TypeInv, TypeOK, Busy
    <3>2. \A u \in Slots \ {w} : Busy(u) =>
            run[u].job \in Jobs /\ run[u].job # j /\ jobs'[run[u].job] = jobs[run[u].job]
      BY <2>1, BusyRunType DEF TypeInv, TypeOK, SlotsMatchJobs, BusyRun
    <3>3. run'[w].job = j /\ jobs'[j].st = "active"
      BY <2>1 DEF NewRun, TypeInv, TypeOK, JobState
    <3>4. CASE v = w
      BY <3>1, <3>2, <3>3, <3>4
    <3>5. CASE v # w
      BY <3>1, <3>2, <3>3, <3>5, <2>5 DEF TypeInv, SlotsMatchJobs
    <3>. QED
      BY <3>4, <3>5
  <2>6. SlotsMatchJobs'
    BY <2>5 DEF SlotsMatchJobs
  <2>. QED
    BY <1>2, <2>2, <2>3, <2>4, <2>6 DEF Start, table, TypeInv, TypeOK
<1>. QED
  BY <1>1, <1>2

LEMMA EnvironmentMoves ==
  ASSUME TypeInv, Crash \/ PruneScript \/ \E c \in Cves : Age(c)
  PROVE  TypeInv'
<1>1. CASE Crash
  <2>1. run' = [w \in Slots |-> IdleRun]
        /\ jobs' = [j \in Jobs |-> IF jobs[j].st = "active"
                                     THEN [jobs[j] EXCEPT !.st = "waiting"] ELSE jobs[j]]
    BY <1>1 DEF Crash
  <2>2. run' \in [Slots -> RunState] /\ jobs' \in [Jobs -> JobState]
    BY <2>1, RunTypes DEF TypeInv, TypeOK, JobState
  <2>3. SlotsMatchJobs' /\ ScoringIsEpss'
    BY <2>1 DEF SlotsMatchJobs, ScoringIsEpss, Busy, At, IdleRun
  <2>4. AttemptsLeft'
    BY <2>1 DEF TypeInv, TypeOK, AttemptsLeft, JobState
  <2>5. budget' \in [{"error", "crash"} -> Nat]
    BY <1>1 DEF Crash, Spend, TypeInv, TypeOK
  <2>. QED
    BY <1>1, <2>2, <2>3, <2>4, <2>5 DEF Crash, table, TypeInv, TypeOK
<1>2. CASE PruneScript
  BY <1>2, PruneTypes DEF PruneScript, TypeInv, TypeOK, SlotsMatchJobs, AttemptsLeft,
     ScoringIsEpss, Busy, At, Feed
<1>3. CASE \E c \in Cves : Age(c)
  BY <1>3 DEF Age, TypeInv, TypeOK, SlotsMatchJobs, AttemptsLeft, ScoringIsEpss, Busy, At, Feed
<1>. QED
  BY <1>1, <1>2, <1>3

\* Types and bookkeeping hold in every reachable state.
THEOREM TypeInvariant == Spec => []TypeInv
<1>1. TypeInv /\ [Next]_vars => TypeInv'
  <2>. SUFFICES ASSUME TypeInv, [Next]_vars PROVE TypeInv'
    OBVIOUS
  <2>1. CASE UNCHANGED vars
    BY <2>1 DEF vars, TypeInv, TypeOK, SlotsMatchJobs, AttemptsLeft, ScoringIsEpss, Busy, At, Feed
  <2>2. ASSUME NEW w \in Slots, Step(w) PROVE TypeInv'
    BY <2>2, FetchMoves, LookMoves, SaveMoves, ListMoves, ScoreMoves, PruneNvdMoves,
       FinishMoves, AbortMoves, SettleMoves DEF Step, Aborts
  <2>. QED
    BY <2>1, <2>2, QueueMoves, EnvironmentMoves DEF Next
<1>. QED
  BY <1>1, InitTypes, PTL DEF Spec

\* Every variable keeps its type.
THEOREM TypeCorrect == Spec => []TypeOK
<1>1. TypeInv => TypeOK
  BY DEF TypeInv
<1>. QED
  BY <1>1, TypeInvariant, PTL
-----------------------------------------------------------------------------
(* No feed erases what another said.                                       *)

\* What a run holds of a CVE is the row as it is, unless somebody wrote the
\* row meanwhile or removed it.
HeldIsKnown ==
  \A w \in Slots : At(w, "save") /\ run[w].item \in Cves =>
    LET c == run[w].item IN
    run[w].snap = rows[c] \/ c \in raced \/ rows[c] = Missing

UntoldIfMissing == \A c \in Cves : rows[c] = Missing => told[c] = {}

ErasedInv == NothingErased /\ HeldIsKnown /\ UntoldIfMissing

\* Steps that leave the CVEs alone, and start no new saving.
LEMMA ErasedFrame ==
  ASSUME ErasedInv, \A c \in Cves : rows'[c] = rows[c], UNCHANGED <<told, raced>>,
         \A v \in Slots : (At(v, "save"))' => run'[v] = run[v]
  PROVE  ErasedInv'
BY DEF ErasedInv, NothingErased, HeldIsKnown, UntoldIfMissing, Tracked, At

\* Run w writes CVE c: others that hold it make it raced.
LEMMA ErasedWrite ==
  ASSUME TypeInv, ErasedInv, NEW w \in Slots, NEW c \in Cves,
         NEW row \in SUBSET Facts,
         rows' = [rows EXCEPT ![c] = row], told' = Told(w, c), raced' = Raced(w, c),
         c \notin raced => row = told[c] \cup Brings(Feed(w)),
         \A v \in Slots \ {w} : run'[v] = run[v],
         ~(At(w, "save"))'
  PROVE  ErasedInv'
<1>1. rows'[c] = row /\ row # Missing /\ \A d \in Cves \ {c} : rows'[d] = rows[d]
  BY FactsAreRows DEF TypeInv, TypeOK, Items
<1>2. told'[c] = told[c] \cup Brings(Feed(w)) /\ \A d \in Cves \ {c} : told'[d] = told[d]
  BY DEF Told, TypeInv, TypeOK
<1>3. raced \subseteq raced' /\ raced' \subseteq raced \cup {c}
      /\ (HeldByOthers(w, c) => c \in raced')
  BY DEF Raced
<1>4. NothingErased'
  BY <1>1, <1>2, <1>3 DEF ErasedInv, NothingErased, Tracked
<1>5. UntoldIfMissing'
  BY <1>1, <1>2 DEF ErasedInv, UntoldIfMissing
<1>6. HeldIsKnown'
  <2>1. ASSUME NEW v \in Slots, (At(v, "save"))', run'[v].item \in Cves
        PROVE  \/ run'[v].snap = rows'[run'[v].item]
               \/ run'[v].item \in raced'
               \/ rows'[run'[v].item] = Missing
    <3>1. v # w /\ run'[v] = run[v] /\ At(v, "save")
      BY <2>1 DEF At
    <3>2. CASE run[v].item = c
      BY <3>1, <3>2, <1>3 DEF HeldByOthers
    <3>3. CASE run[v].item # c
      BY <3>1, <3>3, <2>1, <1>1, <1>3 DEF ErasedInv, HeldIsKnown
    <3>. QED
      BY <3>2, <3>3
  <2>. QED
    BY <2>1 DEF HeldIsKnown
<1>. QED
  BY <1>4, <1>5, <1>6 DEF ErasedInv

LEMMA ErasedLook ==
  ASSUME TypeInv, ErasedInv, NEW w \in Slots, Look(w)
  PROVE  ErasedInv'
<1>1. PICK y \in run[w].todo :
        run' = [run EXCEPT ![w] = IF Duplicate(y) THEN Skip(w, y) ELSE Hold(w, y)]
  BY DEF Look
<1>2. UNCHANGED <<rows, told, raced>>
  BY DEF Look, table
<1>3. \A v \in Slots \ {w} : run'[v] = run[v]
  BY <1>1 DEF TypeInv, TypeOK
<1>4. CASE Duplicate(y)
  <2>1. run'[w] = Skip(w, y)
    BY <1>1, <1>4 DEF TypeInv, TypeOK
  <2>2. run[w] \in BusyRun
    BY AtIsBusy DEF Look, TypeInv, PcNames
  <2>3. run'[w].pc = "look"
    BY <2>1, <2>2 DEF Skip, Look, At, BusyRun
  <2>. QED
    BY <2>3, <1>2, <1>3, ErasedFrame DEF At
<1>5. CASE ~Duplicate(y)
  <2>1. run'[w] = Hold(w, y) /\ run[w] \in BusyRun
    BY <1>1, <1>5, AtIsBusy DEF TypeInv, TypeOK, Look, PcNames
  <2>2. run'[w].item = y /\ run'[w].snap = rows[y]
    BY <2>1 DEF Hold, BusyRun
  <2>3. HeldIsKnown'
    BY <2>2, <1>2, <1>3 DEF ErasedInv, HeldIsKnown, At
  <2>. QED
    BY <2>3, <1>2 DEF ErasedInv, NothingErased, UntoldIfMissing, Tracked
<1>. QED
  BY <1>4, <1>5

LEMMA ErasedSave ==
  ASSUME TypeInv, ErasedInv, NEW w \in Slots, Save(w)
  PROVE  ErasedInv'
<1>. DEFINE x == run[w].item
            row == Merged(run[w].snap, Feed(w))
<1>1. run[w] \in BusyRun /\ At(w, "save") /\ ~Rejects(w)
  BY AtIsBusy DEF Save, TypeInv, PcNames
<1>2. rows' = [rows EXCEPT ![x] = row]
  BY DEF Save
<1>3. (\A v \in Slots \ {w} : run'[v] = run[v]) /\ run'[w].pc = "look"
  BY <1>1 DEF Save, TypeInv, TypeOK, BusyRun
<1>4. CASE x \in Cves
  <2>1. told' = Told(w, x) /\ raced' = Raced(w, x)
    BY <1>4 DEF Save
  <2>2. row \in SUBSET Facts
    BY <1>1, BringsType DEF Merged, BusyRun, RowState
  <2>3. x \notin raced => row = told[x] \cup Brings(Feed(w))
    <3>1. CASE rows[x] = Missing
      BY <3>1, <1>1, <1>4 DEF Rejects, Merged, ErasedInv, UntoldIfMissing
    <3>2. CASE rows[x] # Missing
      BY <3>2, <1>1, <1>4 DEF Rejects, Merged, ErasedInv, HeldIsKnown, NothingErased, Tracked
    <3>. QED
      BY <3>1, <3>2
  <2>. HIDE DEF row, x
  <2>. QED
    BY <2>1, <2>2, <2>3, <1>2, <1>3, <1>4, ErasedWrite DEF At
<1>5. CASE x \notin Cves
  <2>1. UNCHANGED <<told, raced>>
    BY <1>5 DEF Save
  <2>2. \A c \in Cves : rows'[c] = rows[c]
    BY <1>2, <1>5 DEF TypeInv, TypeOK, Items
  <2>. QED
    BY <2>1, <2>2, <1>3, ErasedFrame DEF At
<1>. QED
  BY <1>4, <1>5

LEMMA ErasedScore ==
  ASSUME TypeInv, ErasedInv, NEW w \in Slots, Score(w)
  PROVE  ErasedInv'
<1>1. PICK c \in run[w].todo \cap Tracked :
        /\ rows' = [rows EXCEPT ![c] = @ \cup Brings("epss")]
        /\ run' = [run EXCEPT ![w].todo = @ \ {c}]
        /\ told' = Told(w, c) /\ raced' = Raced(w, c)
  BY DEF Score
<1>2. c \in Cves /\ rows[c] # Missing /\ rows[c] \in SUBSET Facts
  BY DEF Tracked, TypeInv, TypeOK, RowState, Items
<1>3. Feed(w) = "epss" /\ run[w] \in BusyRun
  BY AtIsBusy DEF Score, TypeInv, ScoringIsEpss, PcNames
<1>4. (\A v \in Slots \ {w} : run'[v] = run[v]) /\ run'[w].pc = "score"
  BY <1>1, <1>3 DEF Score, At, TypeInv, TypeOK, BusyRun
<1>. DEFINE row == rows[c] \cup Brings("epss")
<1>5. row \in SUBSET Facts
  BY <1>2, BringsType
<1>6. c \notin raced => row = told[c] \cup Brings(Feed(w))
  BY <1>2, <1>3 DEF ErasedInv, NothingErased, Tracked
<1>7. rows' = [rows EXCEPT ![c] = row]
  BY <1>1
<1>. HIDE DEF row
<1>. QED
  BY <1>1, <1>2, <1>4, <1>5, <1>6, <1>7, ErasedWrite DEF At

LEMMA ErasedPrune ==
  ASSUME TypeInv, ErasedInv, Prune,
         \A v \in Slots : (At(v, "save"))' => run'[v] = run[v]
  PROVE  ErasedInv'
<1>1. \A c \in Cves : IF Stale(c) THEN rows'[c] = Missing /\ told'[c] = {}
                      ELSE rows'[c] = rows[c] /\ told'[c] = told[c]
  BY DEF Prune, Items
<1>2. \A c \in Cves : ~Stale(c) => (c \in raced' <=> c \in raced)
  BY DEF Prune
<1>. QED
  BY <1>1, <1>2 DEF ErasedInv, NothingErased, HeldIsKnown, UntoldIfMissing, Tracked, At

\* Steps of a run that neither save nor write, or take it out of its slot.
QuietStep(w) ==
  \/ Fetch(w) \/ List(w) \/ Finish(w) \/ Aborts(w) \/ Settle(w)
  \/ \E j \in Jobs : Start(w, j)

LEMMA QuietStepMeans ==
  ASSUME TypeInv, NEW w \in Slots, QuietStep(w)
  PROVE  /\ \A v \in Slots \ {w} : run'[v] = run[v]
         /\ run'[w].pc # "save"
         /\ UNCHANGED table
<1>. run \in [Slots -> RunState]
  BY DEF TypeInv, TypeOK
<1>1. CASE Fetch(w)
  <2>1. PICK doc : run' = [run EXCEPT ![w].pc = IF Feed(w) = "epss" THEN "list" ELSE "look",
                                      ![w].todo = doc]
    BY <1>1 DEF Fetch
  <2>2. run[w] \in BusyRun
    BY <1>1, AtIsBusy DEF Fetch, TypeInv, PcNames
  <2>. QED
    BY <2>1, <2>2, <1>1 DEF Fetch, BusyRun
<1>2. CASE List(w)
  <2>1. run[w] \in BusyRun
    BY <1>2, AtIsBusy DEF List, TypeInv, PcNames
  <2>. QED
    BY <2>1, <1>2 DEF List, BusyRun
<1>3. CASE Finish(w) \/ Aborts(w)
  <2>1. (\E ok \in BOOLEAN : Settling(w, ok)) /\ UNCHANGED table
    BY <1>3, AbortsMeans DEF Finish
  <2>2. run[w] \in BusyRun
    BY <1>3, AbortsMeans, AtIsBusy DEF Finish, Exhausted, TypeInv, PcNames
  <2>. QED
    BY <2>1, <2>2 DEF Settling, BusyRun
<1>4. CASE Settle(w)
  BY <1>4 DEF Settle, IdleRun
<1>5. CASE \E j \in Jobs : Start(w, j)
  BY <1>5 DEF Start, NewRun
<1>. QED
  BY <1>1, <1>2, <1>3, <1>4, <1>5 DEF QuietStep

LEMMA ErasedStep ==
  ASSUME TypeInv, ErasedInv, [Next]_vars
  PROVE  ErasedInv'
<1>1. CASE UNCHANGED vars
  BY <1>1, ErasedFrame DEF vars
<1>2. ASSUME NEW w \in Slots, QuietStep(w) PROVE ErasedInv'
  BY <1>2, QuietStepMeans, ErasedFrame DEF table, At
<1>3. ASSUME NEW w \in Slots, PruneNvd(w) PROVE ErasedInv'
  <2>1. run[w] \in BusyRun
    BY <1>3, AtIsBusy DEF PruneNvd, Exhausted, TypeInv, PcNames
  <2>2. \A v \in Slots : (At(v, "save"))' => run'[v] = run[v]
    BY <1>3, <2>1 DEF PruneNvd, At, TypeInv, TypeOK, BusyRun
  <2>. QED
    BY <2>2, <1>3, ErasedPrune DEF PruneNvd
<1>4. ASSUME NEW w \in Slots, Step(w) PROVE ErasedInv'
  BY <1>2, <1>3, <1>4, ErasedLook, ErasedSave, ErasedScore DEF Step, QuietStep, Aborts
<1>5. CASE PruneScript
  BY <1>5, ErasedPrune DEF PruneScript
<1>6. CASE Crash
  BY <1>6, ErasedFrame DEF Crash, table, At, IdleRun
<1>7. CASE \E c \in Cves : Age(c)
  BY <1>7, ErasedFrame DEF Age
<1>8. CASE \E j \in Jobs : Enqueue(j)
  BY <1>8, ErasedFrame DEF Enqueue, table
<1>. QED
  BY <1>1, <1>2, <1>4, <1>5, <1>6, <1>7, <1>8 DEF Next, QuietStep

\* As long as nobody writes a CVE while another run holds an older reading of
\* it, its row is what the feeds have said, for any feeds, CVEs and slots.
THEOREM NothingIsErased == Spec => []NothingErased
<1>1. Init => ErasedInv
  BY DEF Init, ErasedInv, NothingErased, HeldIsKnown, UntoldIfMissing, Tracked, At, IdleRun, Items
<1>2. TypeInv /\ ErasedInv /\ [Next]_vars => ErasedInv'
  BY ErasedStep
<1>3. ErasedInv => NothingErased
  BY DEF ErasedInv
<1>. QED
  BY <1>1, <1>2, <1>3, TypeInvariant, PTL DEF Spec
-----------------------------------------------------------------------------
(* An article is counted at most once.                                     *)

\* The articles a run has created and not yet counted.
Pending(w) == IF Busy(w) /\ run[w].pc # "settle" THEN run[w].created ELSE {}

\* A pending article exists, is not counted, and is pending in one run only.
PendingIsNew ==
  \A w \in Slots : \A a \in Pending(w) :
    /\ a \in Articles /\ rows[a] # Missing /\ counted[a] = 0
    /\ \A v \in Slots \ {w} : a \notin Pending(v)

\* Only articles that were missing are held for saving.
HeldIsNew ==
  \A w \in Slots : At(w, "save") /\ run[w].item \in Articles => run[w].snap = Missing

OnceInv == CountedOnce /\ PendingIsNew /\ HeldIsNew

\* Steps that leave the articles and their counts alone.
LEMMA OnceFrame ==
  ASSUME OnceInv, \A a \in Articles : rows'[a] = rows[a], counted' = counted,
         \A v \in Slots : Pending(v)' \subseteq Pending(v),
         \A v \in Slots : (At(v, "save"))' => run'[v] = run[v]
  PROVE  OnceInv'
<1>1. CountedOnce'
  BY DEF OnceInv, CountedOnce
<1>2. PendingIsNew'
  BY DEF OnceInv, PendingIsNew
<1>3. HeldIsNew'
  BY DEF OnceInv, HeldIsNew, At
<1>. QED
  BY <1>1, <1>2, <1>3 DEF OnceInv

\* A busy slot's pending articles follow from its run alone.
LEMMA PendingFrame ==
  ASSUME NEW v \in Slots, run'[v] = run[v]
  PROVE  Pending(v)' = Pending(v)
BY DEF Pending, Busy

\* A step of run w that creates nothing and is not about to save.
LEMMA OnceMove ==
  ASSUME OnceInv, NEW w \in Slots, \A a \in Articles : rows'[a] = rows[a],
         counted' = counted, \A v \in Slots \ {w} : run'[v] = run[v],
         run'[w].pc # "save", Pending(w)' \subseteq Pending(w)
  PROVE  OnceInv'
<1>1. \A v \in Slots : Pending(v)' \subseteq Pending(v)
  BY PendingFrame
<1>. QED
  BY <1>1, OnceFrame DEF At

LEMMA OnceQuiet ==
  ASSUME TypeInv, OnceInv, NEW w \in Slots, QuietStep(w), ~Finish(w)
  PROVE  OnceInv'
<1>. run \in [Slots -> RunState]
  BY DEF TypeInv, TypeOK
<1>1. counted' = counted
  BY AbortsMeans DEF QuietStep, Fetch, List, Settle, Start
<1>2. Pending(w)' \subseteq Pending(w)
  <2>1. CASE Fetch(w) \/ List(w)
    <3>1. run[w] \in BusyRun /\ Busy(w) /\ run[w].pc # "settle"
      BY <2>1, AtIsBusy DEF Fetch, List, TypeInv, PcNames, At
    <3>2. run'[w].created = run[w].created
      <4>1. CASE Fetch(w)
        <5>1. PICK doc : run' = [run EXCEPT ![w].pc = IF Feed(w) = "epss" THEN "list" ELSE "look",
                                            ![w].todo = doc]
          BY <4>1 DEF Fetch
        <5>. QED
          BY <5>1, <3>1 DEF BusyRun
      <4>2. CASE List(w)
        BY <4>2, <3>1 DEF List, BusyRun
      <4>. QED
        BY <2>1, <4>1, <4>2
    <3>. QED
      BY <3>1, <3>2 DEF Pending
  <2>2. CASE Aborts(w)
    <3>1. run[w] \in BusyRun /\ Settling(w, FALSE)
      BY <2>2, AbortsMeans, AtIsBusy DEF TypeInv, PcNames
    <3>2. run'[w].pc = "settle"
      BY <3>1 DEF Settling, BusyRun
    <3>. QED
      BY <3>2 DEF Pending
  <2>3. CASE Settle(w)
    BY <2>3 DEF Settle, Pending, Busy
  <2>4. CASE \E j \in Jobs : Start(w, j)
    BY <2>4 DEF Start, NewRun, Pending
  <2>. QED
    BY <2>1, <2>2, <2>3, <2>4 DEF QuietStep
<1>3. \A a \in Articles : rows'[a] = rows[a]
  BY QuietStepMeans DEF table
<1>. QED
  BY <1>1, <1>2, <1>3, QuietStepMeans, OnceMove

LEMMA OnceFinish ==
  ASSUME TypeInv, OnceInv, NEW w \in Slots, Finish(w)
  PROVE  OnceInv'
<1>1. run[w] \in BusyRun /\ Busy(w) /\ run[w].pc # "settle"
  BY AtIsBusy DEF Finish, Exhausted, TypeInv, PcNames, At
<1>2. Pending(w) = run[w].created
  BY <1>1 DEF Pending
<1>3. \A a \in Articles : counted'[a] = IF a \in Pending(w) THEN counted[a] + 1 ELSE counted[a]
  BY <1>2 DEF Finish, TypeInv, TypeOK
<1>4. rows' = rows
  BY DEF Finish, table
<1>5. Pending(w)' = {} /\ \A v \in Slots \ {w} : Pending(v)' = Pending(v)
  <2>1. (\A v \in Slots \ {w} : run'[v] = run[v]) /\ run'[w].pc = "settle"
    BY <1>1 DEF Finish, Settling, TypeInv, TypeOK, BusyRun
  <2>. QED
    BY <2>1, PendingFrame DEF Pending
<1>6. CountedOnce'
  BY <1>3, <1>4 DEF OnceInv, CountedOnce, PendingIsNew, TypeInv, TypeOK
<1>7. PendingIsNew'
  <2>1. ASSUME NEW v \in Slots, NEW a \in Pending(v)'
        PROVE  /\ a \in Articles /\ rows'[a] # Missing /\ counted'[a] = 0
               /\ \A u \in Slots \ {v} : a \notin Pending(u)'
    <3>1. v # w /\ a \in Pending(v)
      BY <1>5, <2>1
    <3>2. a \notin Pending(w) /\ a \in Articles /\ rows[a] # Missing /\ counted[a] = 0
      BY <3>1 DEF OnceInv, PendingIsNew
    <3>3. \A u \in Slots \ {v} : a \notin Pending(u)
      BY <3>1 DEF OnceInv, PendingIsNew
    <3>. QED
      BY <3>2, <3>3, <1>3, <1>4, <1>5
  <2>. QED
    BY <2>1 DEF PendingIsNew
<1>8. HeldIsNew'
  BY QuietStepMeans DEF QuietStep, OnceInv, HeldIsNew, At
<1>. QED
  BY <1>6, <1>7, <1>8 DEF OnceInv

LEMMA OnceLook ==
  ASSUME TypeInv, OnceInv, NEW w \in Slots, Look(w)
  PROVE  OnceInv'
<1>1. PICK y \in run[w].todo :
        run' = [run EXCEPT ![w] = IF Duplicate(y) THEN Skip(w, y) ELSE Hold(w, y)]
  BY DEF Look
<1>2. run[w] \in BusyRun /\ Busy(w) /\ run[w].pc = "look"
  BY AtIsBusy DEF Look, TypeInv, PcNames, At
<1>3. \A v \in Slots \ {w} : run'[v] = run[v]
  BY <1>1 DEF TypeInv, TypeOK
<1>4. run'[w].created = run[w].created
      /\ (run'[w].pc = "save" => run'[w].item = y /\ run'[w].snap = rows[y] /\ ~Duplicate(y))
  BY <1>1, <1>2 DEF TypeInv, TypeOK, Skip, Hold, BusyRun
<1>5. rows' = rows /\ counted' = counted
  BY DEF Look, table
<1>6. \A v \in Slots : Pending(v)' \subseteq Pending(v)
  BY <1>2, <1>3, <1>4, PendingFrame DEF Pending
<1>7. CountedOnce' /\ PendingIsNew'
  BY <1>5, <1>6 DEF OnceInv, CountedOnce, PendingIsNew
<1>8. HeldIsNew'
  BY <1>3, <1>4, <1>5 DEF OnceInv, HeldIsNew, Duplicate, At
<1>. QED
  BY <1>7, <1>8 DEF OnceInv

LEMMA OnceSave ==
  ASSUME TypeInv, OnceInv, NEW w \in Slots, Save(w)
  PROVE  OnceInv'
<1>. DEFINE x == run[w].item
            row == Merged(run[w].snap, Feed(w))
<1>1. run[w] \in BusyRun /\ Busy(w) /\ At(w, "save") /\ ~Rejects(w) /\ run[w].pc = "save"
  BY AtIsBusy DEF Save, TypeInv, PcNames, At
<1>2. rows' = [rows EXCEPT ![x] = row] /\ counted' = counted
  BY DEF Save
<1>3. \A v \in Slots \ {w} : run'[v] = run[v]
  BY DEF Save, TypeInv, TypeOK
<1>4. run'[w].pc = "look"
      /\ run'[w].created = IF x \in Articles THEN run[w].created \cup {x} ELSE run[w].created
  BY <1>1 DEF Save, TypeInv, TypeOK, BusyRun
<1>5. CASE x \notin Articles
  <2>1. \A a \in Articles : rows'[a] = rows[a]
    BY <1>2, <1>5 DEF TypeInv, TypeOK, Items
  <2>2. Pending(w)' \subseteq Pending(w)
    BY <1>1, <1>4, <1>5 DEF Pending
  <2>. QED
    BY <2>1, <2>2, <1>2, <1>3, <1>4, OnceMove
<1>6. CASE x \in Articles
  <2>1. run[w].snap = Missing /\ rows[x] = Missing
    BY <1>1, <1>6 DEF OnceInv, HeldIsNew, Rejects
  <2>2. row # Missing
    BY <2>1, BringsType, FactsAreRows DEF Merged
  <2>3. counted[x] = 0
    BY <2>1, <1>6 DEF OnceInv, CountedOnce, TypeInv, TypeOK
  <2>4. \A v \in Slots : x \notin Pending(v)
    BY <2>1 DEF OnceInv, PendingIsNew
  <2>5. Pending(w)' \subseteq Pending(w) \cup {x} /\ \A v \in Slots \ {w} : Pending(v)' = Pending(v)
    BY <1>1, <1>3, <1>4, PendingFrame DEF Pending
  <2>. HIDE DEF row
  <2>6. rows'[x] # Missing /\ \A a \in Articles \ {x} : rows'[a] = rows[a]
    BY <1>2, <1>6, <2>2 DEF TypeInv, TypeOK, Items
  <2>7. CountedOnce'
    BY <1>2, <2>6 DEF OnceInv, CountedOnce
  <2>8. PendingIsNew'
    <3>1. ASSUME NEW v \in Slots, NEW a \in Pending(v)'
          PROVE  /\ a \in Articles /\ rows'[a] # Missing /\ counted'[a] = 0
                 /\ \A u \in Slots \ {v} : a \notin Pending(u)'
      <4>1. CASE a = x
        <5>1. v = w
          BY <3>1, <4>1, <2>4, <2>5
        <5>. QED
          BY <5>1, <4>1, <1>2, <1>6, <2>3, <2>4, <2>5, <2>6
      <4>2. CASE a # x
        <5>1. a \in Pending(v)
          BY <3>1, <4>2, <2>5
        <5>2. a \in Articles /\ rows[a] # Missing /\ counted[a] = 0
              /\ \A u \in Slots \ {v} : a \notin Pending(u)
          BY <5>1 DEF OnceInv, PendingIsNew
        <5>3. \A u \in Slots \ {v} : a \notin Pending(u)'
          BY <5>2, <4>2, <2>5
        <5>. QED
          BY <5>2, <5>3, <4>2, <1>2, <2>6
      <4>. QED
        BY <4>1, <4>2
    <3>. QED
      BY <3>1 DEF PendingIsNew
  <2>9. HeldIsNew'
    BY <1>3, <1>4 DEF OnceInv, HeldIsNew, At
  <2>. QED
    BY <2>7, <2>8, <2>9 DEF OnceInv
<1>. QED
  BY <1>5, <1>6

LEMMA OnceScore ==
  ASSUME TypeInv, OnceInv, NEW w \in Slots, Score(w)
  PROVE  OnceInv'
<1>1. PICK c \in run[w].todo \cap Tracked :
        /\ rows' = [rows EXCEPT ![c] = @ \cup Brings("epss")]
        /\ run' = [run EXCEPT ![w].todo = @ \ {c}]
  BY DEF Score
<1>2. run[w] \in BusyRun /\ Busy(w) /\ run[w].pc = "score"
  BY AtIsBusy DEF Score, TypeInv, PcNames, At
<1>3. c \in Cves
  BY DEF Tracked
<1>4. \A a \in Articles : rows'[a] = rows[a]
  BY <1>1, <1>3, ItemsAssumption DEF TypeInv, TypeOK, Items
<1>5. (\A v \in Slots \ {w} : run'[v] = run[v]) /\ run'[w].pc = "score"
      /\ run'[w].created = run[w].created
  BY <1>1, <1>2 DEF TypeInv, TypeOK, BusyRun
<1>6. Pending(w)' \subseteq Pending(w)
  BY <1>2, <1>5 DEF Pending
<1>. QED
  BY <1>4, <1>5, <1>6, OnceMove DEF Score

LEMMA PruneSparesArticles ==
  ASSUME Prune, NEW a \in Articles
  PROVE  rows'[a] = rows[a]
BY ItemsAssumption DEF Prune, Items

LEMMA OnceStep ==
  ASSUME TypeInv, OnceInv, [Next]_vars
  PROVE  OnceInv'
<1>1. CASE run' = run /\ counted' = counted /\ \A a \in Articles : rows'[a] = rows[a]
  BY <1>1, PendingFrame, OnceFrame
<1>2. ASSUME NEW w \in Slots, QuietStep(w) PROVE OnceInv'
  BY <1>2, OnceQuiet, OnceFinish
<1>3. ASSUME NEW w \in Slots, PruneNvd(w) PROVE OnceInv'
  <2>1. run[w] \in BusyRun /\ Busy(w) /\ run[w].pc # "settle"
    BY <1>3, AtIsBusy DEF PruneNvd, Exhausted, TypeInv, PcNames, At
  <2>2. (\A v \in Slots \ {w} : run'[v] = run[v]) /\ run'[w].pc = "record"
        /\ run'[w].created = run[w].created
    BY <1>3, <2>1 DEF PruneNvd, TypeInv, TypeOK, BusyRun
  <2>3. Pending(w)' \subseteq Pending(w)
    BY <2>1, <2>2 DEF Pending
  <2>. QED
    BY <2>2, <2>3, <1>3, PruneSparesArticles, OnceMove DEF PruneNvd
<1>4. ASSUME NEW w \in Slots, Step(w) PROVE OnceInv'
  BY <1>2, <1>3, <1>4, OnceLook, OnceSave, OnceScore DEF Step, QuietStep, Aborts
<1>5. CASE PruneScript
  BY <1>1, <1>5, PruneSparesArticles DEF PruneScript
<1>6. CASE Crash
  <2>1. \A v \in Slots : run'[v] = IdleRun
    BY <1>6 DEF Crash
  <2>2. \A v \in Slots : Pending(v)' = {} /\ ~(At(v, "save"))'
    BY <2>1 DEF Pending, Busy, At, IdleRun
  <2>3. (\A a \in Articles : rows'[a] = rows[a]) /\ counted' = counted
    BY <1>6 DEF Crash, table
  <2>. QED
    BY <2>2, <2>3, OnceFrame
<1>7. CASE \E c \in Cves : Age(c)
  BY <1>1, <1>7 DEF Age
<1>8. CASE \E j \in Jobs : Enqueue(j)
  BY <1>1, <1>8 DEF Enqueue, table
<1>9. CASE UNCHANGED vars
  BY <1>1, <1>9 DEF vars
<1>. QED
  BY <1>2, <1>4, <1>5, <1>6, <1>7, <1>8, <1>9 DEF Next, QuietStep

\* However runs, retries and crashes overlap, an article is in the sources'
\* counters at most once and only if it is stored.
THEOREM ArticlesCountedOnce == Spec => []CountedOnce
<1>1. Init => OnceInv
  BY DEF Init, OnceInv, CountedOnce, PendingIsNew, HeldIsNew, Pending, Busy, At, IdleRun
<1>2. TypeInv /\ OnceInv /\ [Next]_vars => OnceInv'
  BY OnceStep
<1>3. OnceInv => CountedOnce
  BY DEF OnceInv
<1>. QED
  BY <1>1, <1>2, <1>3, TypeInvariant, PTL DEF Spec
-----------------------------------------------------------------------------
(* The error counters miss no failed attempt.                              *)

\* The job's run has failed, and its attempt is about to count as one.
Owing(j) == \E w \in Slots : At(w, "settle") /\ run[w].job = j /\ ~run[w].ok
Tried(j) == jobs[j].tries + IF Owing(j) THEN 1 ELSE 0
Reported(s) ==
  {a \in Jobs \X (1 .. MaxAttempts) : SourceOf[a[1]] = s /\ a[2] <= Tried(a[1])}

\* What is reported is counted, whether the queue knows of it or not.
ReportsCounted == \A s \in Runnable : Cardinality(Reported(s)) <= health[s].errors

LEMMA ReportedFinite ==
  ASSUME NEW s
  PROVE  IsFiniteSet(Reported(s)) /\ Cardinality(Reported(s)) \in Nat
<1>1. IsFiniteSet(Jobs \X (1 .. MaxAttempts))
  <2>1. IsFiniteSet(1 .. MaxAttempts)
    <3>1. 1 \in Int /\ MaxAttempts \in Int
      BY DEF MaxAttempts
    <3>. QED
      BY <3>1, FS_Interval
  <2>. QED
    BY <2>1, JobsAssumption, FS_Product
<1>2. IsFiniteSet(Reported(s))
  BY <1>1, FS_Subset DEF Reported
<1>. QED
  BY <1>2, FS_CardinalityType

LEMMA TriedType ==
  ASSUME TypeOK, NEW j \in Jobs
  PROVE  jobs[j].tries \in Nat /\ Tried(j) \in Nat
BY DEF TypeOK, JobState, Tried, MaxAttempts

LEMMA TriedNext ==
  ASSUME TypeOK', NEW j \in Jobs
  PROVE  Tried(j)' \in Nat
BY DEF TypeOK, JobState, Tried, MaxAttempts

LEMMA ReportsImply == TypeOK /\ ReportsCounted => FailuresShow
<1>. SUFFICES ASSUME TypeOK, ReportsCounted, NEW s \in Runnable
              PROVE  Cardinality(FailedAttempts(s)) <= health[s].errors
  BY DEF FailuresShow
<1>1. FailedAttempts(s) \subseteq Reported(s)
  <2>1. \A j \in Jobs : jobs[j].tries \in Nat /\ jobs[j].tries <= Tried(j)
    BY TriedType DEF Tried
  <2>2. \A j \in Jobs, n \in 1 .. MaxAttempts : n <= jobs[j].tries => n <= Tried(j)
    BY <2>1, TriedType DEF MaxAttempts
  <2>. QED
    BY <2>2 DEF FailedAttempts, Reported
<1>2. Cardinality(FailedAttempts(s)) \in Nat
      /\ Cardinality(FailedAttempts(s)) <= Cardinality(Reported(s))
  BY <1>1, ReportedFinite, FS_Subset, FS_CardinalityType
<1>3. health[s].errors \in Nat
  BY DEF TypeOK, Runnable
<1>. QED
  BY <1>2, <1>3, ReportedFinite DEF ReportsCounted

\* No attempt is added to what is reported, and no error is forgotten.
LEMMA ReportsFrame ==
  ASSUME TypeInv, TypeInv', ReportsCounted,
         \A j \in Jobs : Tried(j)' <= Tried(j),
         \A s \in Runnable : health'[s].errors >= health[s].errors
  PROVE  ReportsCounted'
<1>. SUFFICES ASSUME NEW s \in Runnable
              PROVE  Cardinality(Reported(s)') <= health'[s].errors
  BY DEF ReportsCounted, Runnable
<1>1. \A j \in Jobs : Tried(j) \in Nat /\ Tried(j)' \in Nat
  BY TriedType, TriedNext DEF TypeInv
<1>2. \A j \in Jobs, n \in 1 .. MaxAttempts : n <= Tried(j)' => n <= Tried(j)
  BY <1>1 DEF MaxAttempts
<1>3. Reported(s)' \subseteq Reported(s)
  BY <1>2 DEF Reported
<1>4. Cardinality(Reported(s)') \in Nat /\ Cardinality(Reported(s)') <= Cardinality(Reported(s))
  BY <1>3, ReportedFinite, FS_Subset, FS_CardinalityType
<1>5. health[s].errors \in Nat /\ health'[s].errors \in Nat
  BY DEF TypeInv, TypeOK, Runnable
<1>. QED
  BY <1>4, <1>5, ReportedFinite DEF ReportsCounted

\* Who owes depends on the runs that are settling.
LEMMA OwingFrame ==
  ASSUME \A v \in Slots : (At(v, "settle"))' /\ ~run'[v].ok => run'[v] = run[v],
         \A j \in Jobs : jobs'[j].tries = jobs[j].tries, TypeInv
  PROVE  \A j \in Jobs : Tried(j)' <= Tried(j)
<1>1. \A j : Owing(j)' => Owing(j)
  BY DEF Owing, At
<1>2. \A j \in Jobs : jobs[j].tries \in Nat
  BY TriedType DEF TypeInv
<1>. QED
  BY <1>1, <1>2 DEF Tried

\* The catch branch: one more is reported, one more is counted.
LEMMA ReportsCaught ==
  ASSUME TypeInv, TypeInv', ReportsCounted, NEW w \in Slots, Busy(w), ~At(w, "settle"), Caught(w)
  PROVE  ReportsCounted'
<1>. PICK j : j = run[w].job
  OBVIOUS
<1>. DEFINE t == SourceOf[j]
<1>1. run[w] \in BusyRun /\ j \in Jobs /\ t \in Sources
  BY BusyRunType, JobsAssumption DEF TypeInv, BusyRun
<1>2. \A v \in Slots \ {w} : run'[v] = run[v] /\ (Busy(v) => run[v].job # j)
  BY DEF Caught, Settling, TypeInv, TypeOK, SlotsMatchJobs
<1>3. run'[w].job = j
  BY <1>1 DEF Caught, Settling, TypeInv, TypeOK, BusyRun
<1>4. \A i \in Jobs : jobs'[i].tries = jobs[i].tries /\ jobs[i].tries \in Nat
  BY TriedType DEF Caught, TypeInv
<1>5. ~Owing(j)
  BY <1>2, AtIsBusy DEF Owing, TypeInv, PcNames
<1>6. \A i \in Jobs \ {j} : Owing(i)' => Owing(i)
  BY <1>2, <1>3 DEF Owing, At
<1>7. Tried(j)' <= Tried(j) + 1 /\ \A i \in Jobs \ {j} : Tried(i)' <= Tried(i)
  BY <1>1, <1>4, <1>5, <1>6 DEF Tried
<1>8. \A i \in Jobs : Tried(i) \in Nat /\ Tried(i)' \in Nat
  BY TriedType, TriedNext DEF TypeInv
<1>9. health' = [health EXCEPT ![t] = [status |-> "error", errors |-> health[t].errors + 1]]
  BY DEF Caught, ErrorCounted, Recorded
<1>10. \A s \in Sources : health[s].errors \in Nat
  BY DEF TypeInv, TypeOK
<1>. SUFFICES ASSUME NEW s \in Runnable
              PROVE  Cardinality(Reported(s)') <= health'[s].errors
  BY DEF ReportsCounted, Runnable
<1>11. s \in Sources /\ Cardinality(Reported(s)) <= health[s].errors
  BY DEF ReportsCounted, Runnable
<1>12. IsFiniteSet(Reported(s)) /\ Cardinality(Reported(s)) \in Nat
  BY ReportedFinite
<1>13. CASE s = t
  <2>1. \A n \in 1 .. MaxAttempts : n <= Tried(j)' => n <= Tried(j) \/ n = Tried(j) + 1
    BY <1>1, <1>7, <1>8 DEF MaxAttempts
  <2>2. \A i \in Jobs \ {j}, n \in 1 .. MaxAttempts : n <= Tried(i)' => n <= Tried(i)
    BY <1>7, <1>8 DEF MaxAttempts
  <2>3. Reported(s)' \subseteq Reported(s) \cup {<<j, Tried(j) + 1>>}
    <3>1. ASSUME NEW a \in Reported(s)' PROVE a \in Reported(s) \cup {<<j, Tried(j) + 1>>}
      <4>1. /\ a \in Jobs \X (1 .. MaxAttempts) /\ SourceOf[a[1]] = s
            /\ a[1] \in Jobs /\ a[2] \in 1 .. MaxAttempts /\ a = <<a[1], a[2]>>
        BY <3>1 DEF Reported
      <4>2. a[2] <= Tried(a[1])'
        BY <3>1 DEF Reported
      <4>3. CASE a[1] = j
        <5>1. a[2] <= Tried(j) \/ a[2] = Tried(j) + 1
          BY <4>1, <4>2, <4>3, <2>1
        <5>. QED
          BY <5>1, <4>1, <4>3 DEF Reported
      <4>4. CASE a[1] # j
        BY <4>1, <4>2, <4>4, <2>2 DEF Reported
      <4>. QED
        BY <4>3, <4>4
    <3>. QED
      BY <3>1
  <2>4. IsFiniteSet(Reported(s) \cup {<<j, Tried(j) + 1>>})
        /\ Cardinality(Reported(s) \cup {<<j, Tried(j) + 1>>}) <= Cardinality(Reported(s)) + 1
        /\ Cardinality(Reported(s) \cup {<<j, Tried(j) + 1>>}) \in Nat
    <3>. PICK p : p = <<j, Tried(j) + 1>>
      OBVIOUS
    <3>1. /\ IsFiniteSet(Reported(s) \cup {p})
          /\ Cardinality(Reported(s) \cup {p})
               = IF p \in Reported(s) THEN Cardinality(Reported(s))
                 ELSE Cardinality(Reported(s)) + 1
      BY <1>12, FS_AddElement
    <3>2. PICK n \in Nat : n = Cardinality(Reported(s))
      BY <1>12
    <3>3. /\ Cardinality(Reported(s) \cup {p}) \in {n, n + 1}
          /\ n + 1 <= Cardinality(Reported(s)) + 1
      BY <3>1, <3>2
    <3>. QED
      BY <3>1, <3>2, <3>3
  <2>5. Cardinality(Reported(s)') <= Cardinality(Reported(s)) + 1
        /\ Cardinality(Reported(s)') \in Nat
    BY <2>3, <2>4, <1>12, FS_Subset, FS_CardinalityType
  <2>6. health'[s].errors = health[s].errors + 1
    BY <1>9, <1>11, <1>13 DEF TypeInv, TypeOK
  <2>. QED
    BY <2>5, <2>6, <1>10, <1>11, <1>12
<1>14. CASE s # t
  <2>1. \A i \in Jobs \ {j}, n \in 1 .. MaxAttempts : n <= Tried(i)' => n <= Tried(i)
    BY <1>7, <1>8 DEF MaxAttempts
  <2>2. Reported(s)' \subseteq Reported(s)
    BY <2>1, <1>14 DEF Reported
  <2>3. Cardinality(Reported(s)') <= Cardinality(Reported(s)) /\ Cardinality(Reported(s)') \in Nat
    BY <2>2, <1>12, FS_Subset, FS_CardinalityType
  <2>4. health'[s] = health[s]
    BY <1>9, <1>11, <1>14 DEF TypeInv, TypeOK
  <2>. QED
    BY <2>3, <2>4, <1>10, <1>11, <1>12
<1>. QED
  BY <1>13, <1>14

\* The queue learns of the attempt.
LEMMA ReportsSettle ==
  ASSUME TypeInv, TypeInv', ReportsCounted, NEW w \in Slots, Settle(w)
  PROVE  ReportsCounted'
<1>. PICK j : j = run[w].job
  OBVIOUS
<1>1. Busy(w) /\ run[w] \in BusyRun /\ j \in Jobs /\ run[w].ok \in BOOLEAN
  BY AtIsBusy DEF Settle, TypeInv, PcNames, BusyRun
<1>2. \A v \in Slots \ {w} : run'[v] = run[v] /\ (Busy(v) => run[v].job # j)
  BY <1>1 DEF Settle, TypeInv, TypeOK, SlotsMatchJobs
<1>3. run'[w] = IdleRun
  BY DEF Settle, TypeInv, TypeOK
<1>4. /\ jobs'[j] = Attempted(j, run[w].ok)
      /\ \A i \in Jobs \ {j} : jobs'[i] = jobs[i]
  BY <1>1 DEF Settle, TypeInv, TypeOK
<1>5. \A i : Owing(i)' => Owing(i) /\ i # j
  <2>1. \A v \in Slots : (At(v, "settle"))' => v # w
    BY <1>3 DEF At, IdleRun
  <2>2. \A v \in Slots : At(v, "settle") => Busy(v)
    BY AtIsBusy DEF TypeInv, PcNames
  <2>. QED
    BY <1>2, <2>1, <2>2 DEF Owing, At
<1>6. ~run[w].ok => Owing(j)
  BY DEF Owing, Settle
<1>7. \A i \in Jobs : jobs[i].tries \in Nat /\ jobs[i] \in JobState
  BY TriedType DEF TypeInv, TypeOK
<1>8. jobs'[j].tries = jobs[j].tries + IF run[w].ok THEN 0 ELSE 1
  BY <1>1, <1>4, <1>7 DEF Attempted, JobState
<1>9. \A i \in Jobs : Tried(i)' <= Tried(i)
  <2>1. Tried(j)' <= Tried(j)
    BY <1>1, <1>5, <1>6, <1>7, <1>8 DEF Tried
  <2>2. \A i \in Jobs \ {j} : Tried(i)' <= Tried(i)
    BY <1>4, <1>5, <1>7 DEF Tried
  <2>. QED
    BY <2>1, <2>2
<1>10. \A s \in Runnable : health'[s].errors >= health[s].errors
  BY DEF Settle, TypeInv, TypeOK, Runnable
<1>. QED
  BY <1>9, <1>10, ReportsFrame

\* Steps inside a run that report nothing.
LEMMA ReportsMove ==
  ASSUME TypeInv, TypeInv', ReportsCounted, NEW w \in Slots, jobs' = jobs,
         \A v \in Slots \ {w} : run'[v] = run[v],
         run'[w].pc # "settle" \/ run'[w].ok,
         \A s \in Runnable : health'[s].errors >= health[s].errors
  PROVE  ReportsCounted'
<1>1. \A v \in Slots : (At(v, "settle"))' /\ ~run'[v].ok => run'[v] = run[v]
  BY DEF At
<1>2. \A j \in Jobs : Tried(j)' <= Tried(j)
  BY <1>1, OwingFrame
<1>. QED
  BY <1>2, ReportsFrame

LEMMA ReportsStep ==
  ASSUME TypeInv, TypeInv', ReportsCounted, [Next]_vars
  PROVE  ReportsCounted'
<1>. run \in [Slots -> RunState] /\ health \in [Sources -> [status : {"never", "ok", "error", "skipped"}, errors : Nat]]
  BY DEF TypeInv, TypeOK
<1>1. \A s \in Runnable : s \in Sources /\ health[s].errors \in Nat
  BY DEF Runnable
<1>2. ASSUME run' = run, health' = health, \A j \in Jobs : jobs'[j].tries = jobs[j].tries
      PROVE  ReportsCounted'
  BY <1>1, <1>2, OwingFrame, ReportsFrame
<1>3. ASSUME NEW w \in Slots,
             Fetch(w) \/ Look(w) \/ Save(w) \/ List(w) \/ Score(w) \/ PruneNvd(w)
      PROVE  ReportsCounted'
  <2>1. jobs' = jobs /\ health' = health
    BY <1>3 DEF Fetch, Look, Save, List, Score, PruneNvd
  <2>2. \A v \in Slots \ {w} : run'[v] = run[v]
    BY <1>3 DEF Fetch, Look, Save, List, Score, PruneNvd
  <2>3. run[w] \in BusyRun /\ run[w].pc # "settle"
    BY <1>3, AtIsBusy
       DEF Fetch, Look, Save, List, Score, PruneNvd, Exhausted, TypeInv, PcNames, At
  <2>4. run'[w].pc # "settle"
    <3>1. CASE Fetch(w)
      BY <3>1, <2>3 DEF Fetch, BusyRun
    <3>2. CASE Look(w)
      BY <3>2, <2>3 DEF Look, Skip, Hold, BusyRun
    <3>3. CASE Save(w)
      BY <3>3, <2>3 DEF Save, BusyRun
    <3>4. CASE List(w)
      BY <3>4, <2>3 DEF List, BusyRun
    <3>5. CASE Score(w)
      BY <3>5, <2>3 DEF Score, BusyRun
    <3>6. CASE PruneNvd(w)
      BY <3>6, <2>3 DEF PruneNvd, BusyRun
    <3>. QED
      BY <1>3, <3>1, <3>2, <3>3, <3>4, <3>5, <3>6
  <2>. QED
    BY <1>1, <2>1, <2>2, <2>4, ReportsMove
<1>4. ASSUME NEW w \in Slots, Finish(w) PROVE ReportsCounted'
  <2>1. run[w] \in BusyRun
    BY <1>4, AtIsBusy DEF Finish, Exhausted, TypeInv, PcNames
  <2>2. jobs' = jobs /\ run'[w].ok /\ \A v \in Slots \ {w} : run'[v] = run[v]
    BY <1>4, <2>1 DEF Finish, Settling, BusyRun
  <2>3. \A s \in Runnable : health'[s].errors >= health[s].errors
    BY <1>1, <1>4 DEF Finish, Recorded
  <2>. QED
    BY <2>2, <2>3, ReportsMove
<1>5. ASSUME NEW w \in Slots, FetchFails(w) \/ SaveRejected(w) \/ ScoreRejected(w)
      PROVE  ReportsCounted'
  <2>1. Busy(w) /\ ~At(w, "settle") /\ Caught(w)
    BY <1>5, AtIsBusy DEF FetchFails, SaveRejected, ScoreRejected, TypeInv, PcNames, At
  <2>. QED
    BY <2>1, ReportsCaught
<1>6. ASSUME NEW w \in Slots, Unrunnable(w) PROVE ReportsCounted'
  <2>1. run[w] \in BusyRun /\ Busy(w) /\ run[w].pc = "fetch"
    BY <1>6, AtIsBusy DEF Unrunnable, TypeInv, PcNames, At
  <2>2. PICK j \in Jobs : j = run[w].job
    BY <2>1 DEF BusyRun
  <2>3. SourceOf[j] \notin Runnable /\ jobs' = jobs
    BY <1>6, <2>2 DEF Unrunnable, Feed, Runnable
  <2>4. \A s \in Runnable : health'[s] = health[s]
    BY <1>1, <1>6, <2>2, <2>3 DEF Unrunnable, Recorded
  <2>5. \A v \in Slots \ {w} : run'[v] = run[v]
    BY <1>6 DEF Unrunnable, Settling
  <2>6. run'[w].job = j
    BY <1>6, <2>1, <2>2 DEF Unrunnable, Settling, BusyRun
  <2>7. \A i \in Jobs \ {j} : Owing(i)' => Owing(i)
    BY <2>5, <2>6 DEF Owing, At
  <2>8. \A i \in Jobs : jobs[i].tries \in Nat
    BY TriedType DEF TypeInv
  <2>9. \A i \in Jobs \ {j} : Tried(i)' <= Tried(i)
    BY <2>3, <2>7, <2>8 DEF Tried
  <2>. SUFFICES ASSUME NEW s \in Runnable
                PROVE  Cardinality(Reported(s)') <= health'[s].errors
    BY DEF ReportsCounted, Runnable
  <2>10. \A i \in Jobs, n \in 1 .. MaxAttempts : SourceOf[i] = s /\ n <= Tried(i)' => n <= Tried(i)
    <3>1. \A i \in Jobs : Tried(i) \in Nat /\ Tried(i)' \in Nat
      BY TriedType, TriedNext DEF TypeInv
    <3>. QED
      BY <2>3, <2>9, <3>1 DEF MaxAttempts
  <2>11. Reported(s)' \subseteq Reported(s)
    BY <2>10 DEF Reported
  <2>12. Cardinality(Reported(s)') \in Nat /\ Cardinality(Reported(s)') <= Cardinality(Reported(s))
    BY <2>11, ReportedFinite, FS_Subset, FS_CardinalityType
  <2>. QED
    BY <1>1, <2>4, <2>12, ReportedFinite DEF ReportsCounted
<1>7. ASSUME NEW w \in Slots, Step(w) PROVE ReportsCounted'
  BY <1>3, <1>4, <1>5, <1>6, <1>7, ReportsSettle DEF Step
<1>8. ASSUME NEW j \in Jobs, Enqueue(j) PROVE ReportsCounted'
  BY <1>2, <1>8 DEF Enqueue, TypeInv, TypeOK, JobState
<1>9. ASSUME NEW j \in Jobs, NEW w \in Slots, Start(w, j) PROVE ReportsCounted'
  <2>1. run' = [run EXCEPT ![w] = NewRun(j)] /\ health' = health
        /\ \A i \in Jobs : jobs'[i].tries = jobs[i].tries
    BY <1>9 DEF Start, TypeInv, TypeOK, JobState
  <2>2. \A v \in Slots : (At(v, "settle"))' => run'[v] = run[v]
    BY <2>1 DEF At, NewRun
  <2>3. \A i \in Jobs : Tried(i)' <= Tried(i)
    BY <2>1, <2>2, OwingFrame
  <2>. QED
    BY <1>1, <2>1, <2>3, ReportsFrame
<1>10. ASSUME Crash PROVE ReportsCounted'
  <2>1. run' = [w \in Slots |-> IdleRun] /\ health' = health
    BY <1>10 DEF Crash, table
  <2>2. \A i \in Jobs : jobs'[i].tries = jobs[i].tries
    BY <1>10 DEF Crash, TypeInv, TypeOK, JobState
  <2>3. \A v \in Slots : ~(At(v, "settle"))'
    BY <2>1 DEF At, IdleRun
  <2>4. \A i \in Jobs : Tried(i)' <= Tried(i)
    BY <2>2, <2>3, OwingFrame
  <2>. QED
    BY <1>1, <2>1, <2>4, ReportsFrame
<1>11. ASSUME PruneScript \/ (\E c \in Cves : Age(c)) \/ UNCHANGED vars PROVE ReportsCounted'
  BY <1>2, <1>11 DEF PruneScript, Age, vars
<1>. QED
  BY <1>7, <1>8, <1>9, <1>10, <1>11 DEF Next

\* Every attempt the queue counts as failed shows in the error counter of a
\* source that has a handler, whatever crashed or was retried in between.
THEOREM FailuresAreShown == Spec => []FailuresShow
<1>1. Init => ReportsCounted
  <2>. SUFFICES ASSUME Init, NEW s \in Runnable
                PROVE  Cardinality(Reported(s)) <= health[s].errors
    BY DEF ReportsCounted
  <2>1. \A j \in Jobs : Tried(j) = 0
    BY DEF Init, Tried, Owing, At, IdleRun
  <2>2. Reported(s) = {}
    BY <2>1 DEF Reported, MaxAttempts
  <2>. QED
    BY <2>2, FS_EmptySet DEF Init, Runnable
<1>2. TypeInv /\ TypeInv' /\ ReportsCounted /\ [Next]_vars => ReportsCounted'
  BY ReportsStep
<1>3. TypeInv /\ ReportsCounted => FailuresShow
  BY ReportsImply DEF TypeInv
<1>. QED
  BY <1>1, <1>2, <1>3, TypeInvariant, PTL DEF Spec
================================================================================
