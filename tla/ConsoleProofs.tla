---------------------------- MODULE ConsoleProofs ----------------------------
(***************************************************************************)
(* What the parts an analyst and an operator work at promise, each beside  *)
(* a system that does anything else: a specification here restricts the    *)
(* variables of its part and no others.                                    *)
(***************************************************************************)
EXTENDS Console, Exports, FiniteSetTheorems, TLAPS

VerdictsSpec == VerdictsInit /\ [][VerdictsNext]_verdictVars
-----------------------------------------------------------------------------
(* Verdicts.  A row's verdict and its score say the same.                  *)

Consistent(p, r) ==
  /\ r.score \in Nat \cup {NoScore}
  /\ r.verdict = "MALICIOUS" <=> r.score >= 70
  /\ r.verdict = "SUSPICIOUS" <=> (r.score >= 30 /\ r.score < 70)
  /\ r.verdict = "BENIGN" => r.score # NoScore
  /\ p = "otx" => r.score < 70

RowsConsistent ==
  /\ DOMAIN verdictRows = Clients
  /\ \A p \in Clients : Consistent(p, verdictRows[p].result)

LEMMA ClientNames ==
  /\ Clients = {"otx", "greynoise", "shodan", "abuseipdb", "virustotal"}
  /\ Registry[1] = "otx"
<1>1. Len(Registry) = 5
  BY DEF Registry
<1>2. 1 .. 5 = {1, 2, 3, 4, 5}
  OBVIOUS
<1>. QED
  BY <1>1, <1>2 DEF Clients, Registry

LEMMA NoResultConsistent == \A p : Consistent(p, NoResult)
BY DEF Consistent, NoResult, Result, NoScore

LEMMA ByScoreConsistent ==
  ASSUME NEW score \in Nat, NEW p, p # "otx"
  PROVE  Consistent(p, ByScore(score))
BY DEF Consistent, ByScore, Result, VerdictFromScore, NoScore

LEMMA QuotientNatural ==
  ASSUME NEW a \in Nat, NEW b \in Nat, b > 0
  PROVE  a \div b \in Nat
OBVIOUS

LEMMA VirusTotalConsistent ==
  ASSUME NEW n \in EngineCounts
  PROVE  Consistent("virustotal", VirusTotalResult(n))
<1>. DEFINE total == n.malicious + n.suspicious + n.clean
<1>1. n.malicious \in Nat /\ n.suspicious \in Nat /\ n.clean \in Nat
  BY AnswersAssumption
<1>2. PICK t \in Nat : t = total
  BY <1>1
<1>3. CASE t = 0
  BY <1>2, <1>3, NoResultConsistent DEF VirusTotalResult
<1>4. CASE t # 0
  <2>1. PICK score \in Nat :
          score = (200 * n.malicious + 100 * n.suspicious + t) \div (2 * t)
    <3>1. 200 * n.malicious + 100 * n.suspicious + t \in Nat /\ 2 * t \in Nat /\ 2 * t > 0
      BY <1>1, <1>4
    <3>. QED
      BY <3>1, QuotientNatural
  <2>2. VirusTotalResult(n) = ByScore(score)
    BY <1>2, <1>4, <2>1 DEF VirusTotalResult
  <2>. QED
    BY <2>2, ByScoreConsistent
<1>. QED
  BY <1>3, <1>4

LEMMA OtxConsistent ==
  ASSUME NEW pulses \in PulseCounts, NEW validated \in BOOLEAN
  PROVE  Consistent("otx", OtxResult(pulses, validated))
<1>1. pulses \in Nat
  BY AnswersAssumption
<1>2. CASE validated
  BY <1>2 DEF OtxResult, Consistent, Result, NoScore
<1>3. CASE pulses = 0
  BY <1>2, <1>3, NoResultConsistent DEF OtxResult
<1>4. CASE ~validated /\ pulses # 0
  <2>1. OtxScore(pulses) \in 0 .. 60
    <3>1. CASE pulses < 15
      <4>1. pulses \in 1 .. 14
        BY <1>1, <1>4, <3>1
      <4>2. \A k \in 1 .. 14 :
              <<20, 32, 40, 46, 52, 56, 60, 63, 66, 69, 72, 74, 76, 78>>[k] \in Nat
        OBVIOUS
      <4>3. Curve(pulses) \in Nat
        BY <3>1, <4>1, <4>2 DEF Curve
      <4>. QED
        BY <4>3 DEF OtxScore
    <3>2. CASE ~(pulses < 15)
      BY <3>2 DEF OtxScore, Curve
    <3>. QED
      BY <3>1, <3>2
  <2>2. PICK score \in 0 .. 60 : score = OtxScore(pulses)
    BY <2>1
  <2>3. OtxResult(pulses, validated) =
          Result(IF score >= 30 THEN "SUSPICIOUS" ELSE "BENIGN", score)
    BY <1>4, <2>2 DEF OtxResult
  <2>. QED
    BY <2>3 DEF Consistent, Result, NoScore
<1>. QED
  BY <1>2, <1>3, <1>4

LEMMA GreyNoiseConsistent ==
  ASSUME NEW class, NEW noise \in BOOLEAN, NEW riot \in BOOLEAN
  PROVE  Consistent("greynoise", GreyNoiseResult(class, noise, riot))
<1>1. PICK score \in {0, 5, 15, 20, 85} : score = GreyNoiseScore(class, noise, riot)
  BY DEF GreyNoiseScore
<1>2. score >= 70 => ~riot /\ class # "benign"
  BY <1>1 DEF GreyNoiseScore
<1>. DEFINE verdict == IF score >= 70 THEN "MALICIOUS"
                       ELSE IF score >= 25 THEN "SUSPICIOUS"
                       ELSE IF riot \/ class = "benign" THEN "BENIGN"
                       ELSE "UNKNOWN"
<1>3. verdict = "MALICIOUS" <=> score = 85
  BY <1>1
<1>4. verdict # "SUSPICIOUS"
  BY <1>1
<1>5. GreyNoiseResult(class, noise, riot) = Result(verdict, score)
  BY <1>1 DEF GreyNoiseResult
<1>. HIDE DEF verdict
<1>. QED
  BY <1>1, <1>3, <1>4, <1>5 DEF Consistent, Result, NoScore

LEMMA ShodanScores ==
  ASSUME NEW vulns \in CvssLists, NEW honeypot \in BOOLEAN
  PROVE  InternetDbScore(vulns, honeypot) \in Nat /\ FullHostScore(vulns) \in Nat
<1>1. PICK n \in Nat : n = Cardinality(vulns)
  BY AnswersAssumption, FS_CardinalityType
<1>. QED
  BY <1>1 DEF InternetDbScore, FullHostScore, AtMost

LEMMA AbuseConsistent ==
  ASSUME NEW score \in AbuseScores, NEW whitelisted \in BOOLEAN
  PROVE  Consistent("abuseipdb", AbuseResult(score, whitelisted))
<1>1. score \in Nat
  BY AnswersAssumption
<1>2. CASE whitelisted
  BY <1>2 DEF AbuseResult, Consistent, Result, NoScore
<1>3. CASE ~whitelisted
  BY <1>1, <1>3, ByScoreConsistent DEF AbuseResult
<1>. QED
  BY <1>2, <1>3

LEMMA StoreAnswerKeeps ==
  ASSUME RowsConsistent, NEW p \in Clients, NEW result, NEW shows,
         Store(p, result, shows), Consistent(p, result)
  PROVE  RowsConsistent'
<1>1. verdictRows' = [verdictRows EXCEPT
        ![p] = [result |-> result, error |-> FALSE, shows |-> shows]]
  BY DEF Store
<1>2. DOMAIN verdictRows' = Clients
  BY <1>1 DEF RowsConsistent
<1>3. verdictRows'[p].result = result
  BY <1>1 DEF RowsConsistent
<1>4. \A q \in Clients \ {p} : verdictRows'[q] = verdictRows[q]
  BY <1>1
<1>. QED
  BY <1>2, <1>3, <1>4 DEF RowsConsistent

LEMMA VerdictsStep ==
  ASSUME RowsConsistent, [VerdictsNext]_verdictVars
  PROVE  RowsConsistent'
<1>1. CASE UNCHANGED verdictVars
  BY <1>1 DEF verdictVars, RowsConsistent
<1>2. ASSUME NEW n \in EngineCounts, VirusTotalAnswers(n) PROVE RowsConsistent'
  <2>1. "virustotal" \in Clients /\ Consistent("virustotal", VirusTotalResult(n))
    BY ClientNames, VirusTotalConsistent
  <2>2. PICK shows : Store("virustotal", VirusTotalResult(n), shows)
    BY <1>2 DEF VirusTotalAnswers
  <2>. QED
    BY <2>1, <2>2, StoreAnswerKeeps
<1>3. ASSUME NEW pulses \in PulseCounts, NEW validated \in BOOLEAN, OtxAnswers(pulses, validated)
      PROVE  RowsConsistent'
  <2>1. "otx" \in Clients /\ Consistent("otx", OtxResult(pulses, validated))
    BY ClientNames, OtxConsistent
  <2>2. PICK shows : Store("otx", OtxResult(pulses, validated), shows)
    BY <1>3 DEF OtxAnswers
  <2>. QED
    BY <2>1, <2>2, StoreAnswerKeeps
<1>4. ASSUME NEW score \in AbuseScores, NEW whitelisted \in BOOLEAN,
             AbuseAnswers(score, whitelisted)
      PROVE  RowsConsistent'
  <2>1. "abuseipdb" \in Clients /\ Consistent("abuseipdb", AbuseResult(score, whitelisted))
    BY ClientNames, AbuseConsistent
  <2>2. PICK shows : Store("abuseipdb", AbuseResult(score, whitelisted), shows)
    BY <1>4 DEF AbuseAnswers
  <2>. QED
    BY <2>1, <2>2, StoreAnswerKeeps
<1>5. ASSUME NEW class, NEW noise \in BOOLEAN, NEW riot \in BOOLEAN,
             GreyNoiseAnswers(class, noise, riot)
      PROVE  RowsConsistent'
  <2>1. "greynoise" \in Clients /\ Consistent("greynoise", GreyNoiseResult(class, noise, riot))
    BY ClientNames, GreyNoiseConsistent
  <2>2. PICK shows : Store("greynoise", GreyNoiseResult(class, noise, riot), shows)
    BY <1>5 DEF GreyNoiseAnswers
  <2>. QED
    BY <2>1, <2>2, StoreAnswerKeeps
<1>6. ASSUME NEW score \in Nat, NEW vulns, NEW honeypot \in BOOLEAN,
             ShodanAnswers(score, vulns, honeypot)
      PROVE  RowsConsistent'
  <2>1. Consistent("shodan", ByScore(score))
    BY ByScoreConsistent
  <2>. QED
    BY <1>6, <2>1, ClientNames, StoreAnswerKeeps DEF ShodanAnswers
<1>7. ASSUME NEW p \in Clients \ {"abuseipdb"}, NotFound(p) PROVE RowsConsistent'
  <2>. DEFINE result == IF p = "greynoise" THEN Result("UNKNOWN", 10)
                        ELSE IF p = "shodan" THEN Result("UNKNOWN", 0) ELSE NoResult
  <2>1. Consistent(p, result)
    <3>1. CASE p \in {"greynoise", "shodan"}
      BY <3>1 DEF Consistent, Result, NoScore
    <3>2. CASE p \notin {"greynoise", "shodan"}
      BY <3>2, NoResultConsistent
    <3>. QED
      BY <3>1, <3>2
  <2>. DEFINE shows == {IF p = "greynoise" THEN "not in dataset"
                        ELSE IF p = "shodan" THEN "not indexed" ELSE "no details"}
  <2>2. Store(p, result, shows)
    BY <1>7 DEF NotFound
  <2>. HIDE DEF result, shows
  <2>. QED
    BY <2>1, <2>2, StoreAnswerKeeps
<1>8. ASSUME NEW p \in Clients, Fails(p) PROVE RowsConsistent'
  <2>1. DOMAIN verdictRows' = Clients /\ verdictRows'[p].result = verdictRows[p].result
    BY <1>8 DEF Fails, RowsConsistent
  <2>2. \A q \in Clients \ {p} : verdictRows'[q] = verdictRows[q]
    BY <1>8 DEF Fails, RowsConsistent
  <2>. QED
    BY <2>1, <2>2 DEF RowsConsistent
<1>. QED
  BY <1>1, <1>2, <1>3, <1>4, <1>5, <1>6, <1>7, <1>8, ShodanScores DEF VerdictsNext

\* A set of at most five numbers has a greatest.
LEMMA GreatestOfOneMore ==
  ASSUME NEW S \in SUBSET Int, NEW n \in Int,
         S = {} \/ \E m \in S : \A k \in S : m >= k
  PROVE  \E m \in S \cup {n} : \A k \in S \cup {n} : m >= k
<1>1. CASE S = {}
  BY <1>1
<1>2. ASSUME NEW m \in S, \A k \in S : m >= k
      PROVE  \E j \in S \cup {n} : \A k \in S \cup {n} : j >= k
  <2>1. CASE n >= m
    <3>1. \A k \in S \cup {n} : n >= k
      BY <1>2, <2>1
    <3>. QED
      BY <3>1
  <2>2. CASE ~(n >= m)
    BY <1>2, <2>2
  <2>. QED
    BY <2>1, <2>2
<1>. QED
  BY <1>1, <1>2

LEMMA GreatestScore ==
  ASSUME RowsConsistent, Scored # {}
  PROVE  \E p \in Scored : /\ Max({verdictRows[q].result.score : q \in Scored})
                                = verdictRows[p].result.score
                           /\ \A q \in Scored :
                                verdictRows[p].result.score >= verdictRows[q].result.score
<1>. DEFINE of(P) == {verdictRows[q].result.score : q \in P \cap Scored}
            Top(P) == of(P) = {} \/ \E m \in of(P) : \A k \in of(P) : m >= k
<1>1. \A q \in Scored : q \in Clients /\ verdictRows[q].result.score \in Int
  BY DEF Scored, RowsConsistent, Consistent, NoScore
<1>2. ASSUME NEW P, NEW c, Top(P) PROVE Top(P \cup {c})
  <2>1. CASE c \in Scored
    <3>1. of(P \cup {c}) = of(P) \cup {verdictRows[c].result.score}
      BY <2>1
    <3>2. of(P) \in SUBSET Int /\ verdictRows[c].result.score \in Int
      BY <1>1, <2>1
    <3>. PICK S, n : S = of(P) /\ n = verdictRows[c].result.score
      OBVIOUS
    <3>. HIDE DEF of
    <3>3. S \in SUBSET Int /\ n \in Int
      BY <3>2
    <3>4. S = {} \/ \E m \in S : \A k \in S : m >= k
      BY <1>2
    <3>5. \E m \in S \cup {n} : \A k \in S \cup {n} : m >= k
      BY <3>3, <3>4, GreatestOfOneMore
    <3>6. of(P \cup {c}) = S \cup {n}
      BY <3>1
    <3>. QED
      BY <3>5, <3>6
  <2>2. CASE c \notin Scored
    <3>1. of(P \cup {c}) = of(P)
      BY <2>2
    <3>. HIDE DEF of
    <3>. QED
      BY <1>2, <3>1
  <2>. QED
    BY <2>1, <2>2
<1>3. Top({})
  OBVIOUS
<1>. HIDE DEF Top
<1>4. Top({"otx"})
  BY <1>2, <1>3, {} \cup {"otx"} = {"otx"}
<1>5. Top({"otx"} \cup {"greynoise"} \cup {"shodan"} \cup {"abuseipdb"} \cup {"virustotal"})
  BY <1>2, <1>4
<1>6. {"otx"} \cup {"greynoise"} \cup {"shodan"} \cup {"abuseipdb"} \cup {"virustotal"} = Clients
  BY ClientNames
<1>7. Top(Clients)
  BY <1>5, <1>6
<1>. DEFINE scores == {verdictRows[q].result.score : q \in Scored}
<1>8. of(Clients) = scores
  BY <1>1
<1>9. \E m \in scores : \A k \in scores : m >= k
  <2>1. scores # {}
    OBVIOUS
  <2>. HIDE DEF scores, of
  <2>. QED
    BY <1>7, <1>8, <2>1 DEF Top
<1>10. Max(scores) \in scores /\ \A k \in scores : Max(scores) >= k
  <2>. HIDE DEF scores
  <2>. QED
    BY <1>9 DEF Max
<1>. QED
  BY <1>10

LEMMA ConsistentAgree == RowsConsistent => VerdictsAgree
<1>. SUFFICES ASSUME RowsConsistent PROVE VerdictsAgree
  OBVIOUS
<1>. DEFINE score(q) == verdictRows[q].result.score
            verdict(q) == verdictRows[q].result.verdict
<1>1. \A q \in Clients : Consistent(q, verdictRows[q].result)
  BY DEF RowsConsistent
<1>2. \A q \in Clients : ~verdictRows[q].error /\ score(q) # NoScore => q \in Scored
  <2>1. NoRow.result.score = NoScore
    BY DEF NoRow, NoResult, Result
  <2>. QED
    BY <2>1 DEF Scored
<1>3. \A q \in Scored : q \in Clients /\ ~verdictRows[q].error /\ score(q) \in Nat
  BY <1>1 DEF Scored, Consistent
<1>4. \A q \in Clients : ~verdictRows[q].error /\ verdict(q) \in {"MALICIOUS", "SUSPICIOUS", "BENIGN"}
        => q \in Scored
  BY <1>1, <1>2 DEF Consistent, NoScore
<1>5. CASE Scored = {}
  <2>1. AggregateVerdict = "UNKNOWN"
    BY <1>5 DEF AggregateVerdict
  <2>2. ~Holds("MALICIOUS") /\ ~Holds("SUSPICIOUS") /\ ~Holds("BENIGN")
    BY <1>4, <1>5 DEF Holds
  <2>. QED
    BY <1>5, <2>1, <2>2 DEF VerdictsAgree
<1>6. CASE Scored # {}
  <2>1. PICK p \in Scored :
          /\ Max({verdictRows[q].result.score : q \in Scored}) = score(p)
          /\ \A q \in Scored : score(p) >= score(q)
    BY <1>6, GreatestScore
  <2>2. PICK top \in Nat : top = score(p)
    BY <1>3
  <2>3. AggregateVerdict = VerdictFromScore(top)
    BY <1>6, <2>1, <2>2 DEF AggregateVerdict
  <2>4. \A q \in Scored : score(q) \in Nat /\ score(q) <= top
    BY <1>3, <2>1, <2>2
  <2>5. Holds("MALICIOUS") <=> top >= 70
    <3>1. Holds("MALICIOUS") => top >= 70
      BY <1>1, <1>4, <2>4 DEF Holds, Consistent
    <3>2. top >= 70 => Holds("MALICIOUS")
      BY <1>1, <1>3, <2>2 DEF Holds, Consistent
    <3>. QED
      BY <3>1, <3>2
  <2>6. Holds("SUSPICIOUS") => top >= 30
    BY <1>1, <1>4, <2>4 DEF Holds, Consistent
  <2>7. top >= 30 /\ top < 70 => Holds("SUSPICIOUS")
    BY <1>1, <1>3, <2>2 DEF Holds, Consistent
  <2>8. Scored = {"otx"} => top < 70
    BY <1>1, <1>3, <2>2 DEF Consistent
  <2>9. AggregateVerdict = IF top >= 70 THEN "MALICIOUS"
                           ELSE IF top >= 30 THEN "SUSPICIOUS" ELSE "BENIGN"
    BY <2>3 DEF VerdictFromScore
  <2>. HIDE DEF score, verdict
  <2>. QED
    BY <2>5, <2>6, <2>7, <2>8, <2>9 DEF VerdictsAgree
<1>. QED
  BY <1>5, <1>6

\* The verdict a playbook reads is the worst one on the cards, whatever the
\* providers answer, fail at or never heard of.
THEOREM VerdictsAreOne == VerdictsSpec => []VerdictsAgree
<1>1. VerdictsInit => RowsConsistent
  BY NoResultConsistent DEF VerdictsInit, RowsConsistent, NoRow
<1>2. RowsConsistent /\ [VerdictsNext]_verdictVars => RowsConsistent'
  BY VerdictsStep
<1>. QED
  BY <1>1, <1>2, ConsistentAgree, PTL DEF VerdictsSpec
-----------------------------------------------------------------------------
(* Feed sources.  A row and a run carry their sums with them.              *)

SourcesSpec == SourcesInit /\ [][SourcesNext]_sourceVars

Handlers == {"none"} \cup {FeedCatalog[k].handler : k \in 1 .. Len(FeedCatalog)}
SourceRow ==
  [name : OwnNames \cup CatalogNames, conf : Nat, enabled : BOOLEAN, handler : Handlers,
   status : {"never", "skipped", "ok", "error"}, ingested : Int, duped : Int, errors : Int]
FeedRun == [st : {"fetch", "settle"}, src : SourceIds, read : SourceRow,
            created : Int, duped : Int, told : Int]

SourcesTypeOK ==
  /\ installing \in 0 .. Len(FeedCatalog)
  /\ feedRows \in [SourceIds -> SourceRow \cup {NoFeed}]
  /\ feedRuns \in [FeedRuns -> FeedRun \cup {NoFeedRun}]
  /\ yields \in [SourceIds -> Int]
  /\ installedAs \in [SourceIds -> Handlers]

\* What is so of a source, its row, what it brought and how it was installed.
RowHolds(i) ==
  IF feedRows[i] = NoFeed THEN yields[i] = 0 /\ installedAs[i] = "none" /\ i \notin off
  ELSE /\ feedRows[i].ingested + feedRows[i].duped = yields[i]
       /\ installedAs[i] = "none" \/ feedRows[i].handler = installedAs[i]
       /\ i \in off => ~feedRows[i].enabled

RunHolds(r) ==
  feedRuns[r] # NoFeedRun =>
    /\ feedRuns[r].created + feedRuns[r].duped = feedRuns[r].told
    /\ feedRows[feedRuns[r].src] # NoFeed

SourcesCounted ==
  /\ SourcesTypeOK
  /\ \A i \in SourceIds : RowHolds(i)
  /\ \A r \in FeedRuns : RunHolds(r)

LEMMA RowOrNone == NoFeed \notin SourceRow /\ NoFeedRun \notin FeedRun
BY DEF NoFeed, SourceRow, NoFeedRun, FeedRun

\* Every entry a reader of a file finds is delivered, and no other.
LEMMA DeliveredIsTold ==
  ASSUME NEW file \in FeedFiles
  PROVE  Delivered(file) = {k \in Places(file) : file.lines[k].is = "row"
                                                  /\ file.lines[k].value # Junk}
<1>1. PICK n \in Nat : n = Len(file.lines)
  BY FilesAssumption
<1>2. Places(file) = 1 .. n
  BY <1>1 DEF Places
<1>3. CASE file.handler = "urlhaus"
  <2>1. \A k \in 1 .. n : file.lines[k].is \in
          {"comment", IF \A j \in 1 .. k - 1 : file.lines[j].is = "comment" THEN "header" ELSE "row"}
    BY <1>1, <1>3, FilesAssumption
  <2>2. \A k \in 1 .. n : file.lines[k].is = "row"
          <=> /\ file.lines[k].is # "comment"
              /\ \E j \in 1 .. n : file.lines[j].is # "comment" /\ j < k
    BY <2>1
  <2>3. CsvRows(file) = {k \in 1 .. n : file.lines[k].is = "row"}
    BY <1>2, <2>2 DEF CsvRows, Hidden
  <2>. QED
    BY <1>2, <1>3, <2>3 DEF Delivered, Recognized
<1>4. CASE file.handler = "rss-news"
  <2>1. \A k \in 1 .. n : /\ file.lines[k].is \in {"row", "untitled", "no address"}
                          /\ file.lines[k].value # Junk
    BY <1>1, <1>4, FilesAssumption
  <2>. QED
    BY <1>2, <1>4, <2>1 DEF Delivered, RssItems
<1>5. CASE file.handler \notin {"urlhaus", "rss-news"}
  <2>1. \A k \in 1 .. n : file.lines[k].is \in {"row", "empty"}
    BY <1>1, <1>5, FilesAssumption
  <2>. QED
    BY <1>2, <1>5, <2>1 DEF Delivered, Recognized, JsonEntries
<1>. QED
  BY <1>3, <1>4, <1>5

LEMMA FileCounted ==
  ASSUME NEW file \in FeedFiles
  PROVE  /\ Cardinality(Delivered(file)) = ToldBy(file)
         /\ Cardinality(Delivered(file)) \in Nat
         /\ IsFiniteSet(ValuesAt(file, Delivered(file)))
<1>1. Delivered(file) \subseteq Places(file)
  BY DeliveredIsTold
<1>2. IsFiniteSet(Places(file))
  <2>1. PICK n \in Nat : n = Len(file.lines)
    BY FilesAssumption
  <2>2. 1 \in Int /\ n \in Int
    OBVIOUS
  <2>. QED
    BY <2>1, <2>2, FS_Interval DEF Places
<1>3. IsFiniteSet(Delivered(file))
  BY <1>1, <1>2, FS_Subset
<1>4. IsFiniteSet(ValuesAt(file, Delivered(file)))
  <2>. PICK D : D = Delivered(file)
    OBVIOUS
  <2>. DEFINE f == [k \in D |-> file.lines[k].value]
  <2>1. f \in Surjection(D, ValuesAt(file, D))
    BY DEF Surjection, ValuesAt
  <2>. HIDE DEF f
  <2>. QED
    BY <1>3, <2>1, FS_Surjection
<1>. QED
  BY <1>3, <1>4, DeliveredIsTold, FS_CardinalityType DEF ToldBy

LEMMA EntryTyped ==
  ASSUME NEW k \in 1 .. Len(FeedCatalog)
  PROVE  /\ FeedCatalog[k].conf \in Nat /\ FeedCatalog[k].handler \in Handlers
         /\ FeedCatalog[k].name \in CatalogNames
BY CatalogAssumption DEF Handlers, CatalogNames

LEMMA NewSourceTyped ==
  ASSUME NEW name \in OwnNames \cup CatalogNames, NEW conf \in Nat, NEW handler \in Handlers
  PROVE  /\ NewSource(name, conf, handler) \in SourceRow
         /\ NewSource(name, conf, handler).ingested = 0
         /\ NewSource(name, conf, handler).duped = 0
         /\ NewSource(name, conf, handler).handler = handler
         /\ NewSource(name, conf, handler).enabled = TRUE
BY DEF NewSource, SourceRow

\* Rows stay; what else a step needs of them.
RowsFine ==
  /\ feedRows' \in [SourceIds -> SourceRow \cup {NoFeed}]
  /\ yields' \in [SourceIds -> Int]
  /\ installedAs' \in [SourceIds -> Handlers]
  /\ \A i \in SourceIds : RowHolds(i)'
  /\ \A i \in SourceIds : feedRows[i] # NoFeed => feedRows'[i] # NoFeed

RunsFine ==
  /\ feedRuns' \in [FeedRuns -> FeedRun \cup {NoFeedRun}]
  /\ \A r \in FeedRuns : RunHolds(r)'

\* A step that changes one row and what goes with it.
LEMMA RowReplaced ==
  ASSUME SourcesCounted, NEW i \in SourceIds, NEW row \in SourceRow,
         NEW yield \in Int, NEW as \in Handlers,
         feedRows' = [feedRows EXCEPT ![i] = row],
         yields' = [yields EXCEPT ![i] = yield],
         installedAs' = [installedAs EXCEPT ![i] = as],
         row.ingested + row.duped = yield,
         as = "none" \/ row.handler = as,
         i \in off' => ~row.enabled,
         \A j \in SourceIds \ {i} : j \in off' <=> j \in off
  PROVE  RowsFine
<1>1. /\ feedRows' \in [SourceIds -> SourceRow \cup {NoFeed}]
      /\ feedRows'[i] = row /\ \A j \in SourceIds \ {i} : feedRows'[j] = feedRows[j]
  BY DEF SourcesCounted, SourcesTypeOK
<1>2. /\ yields' \in [SourceIds -> Int]
      /\ yields'[i] = yield /\ \A j \in SourceIds \ {i} : yields'[j] = yields[j]
  BY DEF SourcesCounted, SourcesTypeOK
<1>3. /\ installedAs' \in [SourceIds -> Handlers]
      /\ installedAs'[i] = as /\ \A j \in SourceIds \ {i} : installedAs'[j] = installedAs[j]
  BY DEF SourcesCounted, SourcesTypeOK
<1>4. row # NoFeed
  BY RowOrNone
<1>5. RowHolds(i)'
  BY <1>1, <1>2, <1>3, <1>4 DEF RowHolds
<1>6. ASSUME NEW j \in SourceIds \ {i} PROVE RowHolds(j)'
  <2>1. RowHolds(j)
    BY DEF SourcesCounted
  <2>. QED
    BY <1>1, <1>2, <1>3, <2>1 DEF RowHolds
<1>. QED
  BY <1>1, <1>2, <1>3, <1>4, <1>5, <1>6 DEF RowsFine

LEMMA RowsAlone ==
  ASSUME SourcesCounted, UNCHANGED <<feedRows, yields, installedAs, off>>
  PROVE  RowsFine
BY DEF RowsFine, SourcesCounted, SourcesTypeOK, RowHolds

\* A step that changes one run.
LEMMA RunReplaced ==
  ASSUME SourcesCounted, RowsFine, NEW r \in FeedRuns, NEW run \in FeedRun \cup {NoFeedRun},
         feedRuns' = [feedRuns EXCEPT ![r] = run],
         run = NoFeedRun \/ ( /\ run.created + run.duped = run.told
                              /\ feedRows[run.src] # NoFeed )
  PROVE  RunsFine
<1>1. /\ feedRuns' \in [FeedRuns -> FeedRun \cup {NoFeedRun}]
      /\ feedRuns'[r] = run /\ \A q \in FeedRuns \ {r} : feedRuns'[q] = feedRuns[q]
  BY DEF SourcesCounted, SourcesTypeOK
<1>2. \A q \in FeedRun : q.src \in SourceIds
  BY DEF FeedRun
<1>3. \A i \in SourceIds : feedRows[i] # NoFeed => feedRows'[i] # NoFeed
  BY DEF RowsFine
<1>4. RunHolds(r)'
  BY <1>1, <1>2, <1>3 DEF RunHolds
<1>5. ASSUME NEW q \in FeedRuns \ {r} PROVE RunHolds(q)'
  <2>1. RunHolds(q) /\ feedRuns[q] \in FeedRun \cup {NoFeedRun}
    BY DEF SourcesCounted, SourcesTypeOK
  <2>. QED
    BY <1>1, <1>2, <1>3, <2>1 DEF RunHolds
<1>. QED
  BY <1>1, <1>4, <1>5 DEF RunsFine

LEMMA RunsAlone ==
  ASSUME SourcesCounted, RowsFine, UNCHANGED feedRuns
  PROVE  RunsFine
<1>1. \A q \in FeedRun : q.src \in SourceIds
  BY DEF FeedRun
<1>2. ASSUME NEW q \in FeedRuns PROVE RunHolds(q)'
  <2>1. RunHolds(q) /\ feedRuns[q] \in FeedRun \cup {NoFeedRun}
    BY DEF SourcesCounted, SourcesTypeOK
  <2>. QED
    BY <1>1, <2>1 DEF RunHolds, RowsFine
<1>. QED
  BY <1>2 DEF RunsFine, SourcesCounted, SourcesTypeOK

LEMMA FineCounted ==
  ASSUME RowsFine, RunsFine, installing' \in 0 .. Len(FeedCatalog)
  PROVE  SourcesCounted'
BY DEF SourcesCounted, SourcesTypeOK, RowsFine, RunsFine

LEMMA InstalledTyped ==
  ASSUME SourcesCounted, NEW i \in SourceIds, Installed(i)
  PROVE  /\ feedRows[i] \in SourceRow /\ yields[i] \in Int /\ installedAs[i] \in Handlers
         /\ feedRows[i].ingested + feedRows[i].duped = yields[i]
         /\ installedAs[i] = "none" \/ feedRows[i].handler = installedAs[i]
         /\ i \in off => ~feedRows[i].enabled
BY DEF SourcesCounted, SourcesTypeOK, RowHolds, Installed

LEMMA AbsentTyped ==
  ASSUME SourcesCounted, NEW i \in SourceIds, ~Installed(i)
  PROVE  yields[i] = 0 /\ installedAs[i] = "none" /\ i \notin off
BY DEF SourcesCounted, RowHolds, Installed
LEMMA RunTyped ==
  ASSUME SourcesCounted, NEW r \in FeedRuns, feedRuns[r] # NoFeedRun
  PROVE  /\ feedRuns[r] \in FeedRun
         /\ feedRuns[r].created + feedRuns[r].duped = feedRuns[r].told
         /\ feedRuns[r].src \in SourceIds /\ Installed(feedRuns[r].src)
         /\ feedRuns[r].read \in SourceRow
BY DEF SourcesCounted, SourcesTypeOK, RunHolds, FeedRun, Installed

LEMMA RunNamed ==
  ASSUME NEW r \in FeedRuns, feedRuns[r].st \in {"fetch", "settle"}
  PROVE  feedRuns[r] # NoFeedRun
BY DEF NoFeedRun

LEMMA InstallKeeps ==
  ASSUME SourcesCounted, InstallNext PROVE SourcesCounted'
<1>. DEFINE entry == FeedCatalog[installing]
            named == {i \in SourceIds : feedRows[i].name = entry.name}
<1>1. installing \in 1 .. Len(FeedCatalog)
  BY CatalogAssumption DEF InstallNext, SourcesCounted, SourcesTypeOK
<1>2. PICK k \in 1 .. Len(FeedCatalog) : k = installing
  BY <1>1
<1>3. entry.conf \in Nat /\ entry.handler \in Handlers /\ entry.name \in CatalogNames
  BY <1>2, EntryTyped
<1>4. PICK i \in SourceIds :
        /\ IF named # {} THEN i \in named ELSE ~Installed(i)
        /\ feedRows' = [feedRows EXCEPT ![i] =
             IF named # {} THEN Reinstalled(@, entry)
             ELSE NewSource(entry.name, entry.conf, entry.handler)]
        /\ installedAs' = [installedAs EXCEPT ![i] = entry.handler]
  BY DEF InstallNext
<1>5. UNCHANGED <<feedRuns, off, intel, yields>>
  BY DEF InstallNext, kept
<1>6. installing' \in 0 .. Len(FeedCatalog)
  BY <1>1, CatalogAssumption DEF InstallNext
<1>7. PICK as \in Handlers : as = entry.handler
  BY <1>3
<1>8. yields[i] \in Int /\ yields' = [yields EXCEPT ![i] = yields[i]]
  BY <1>5 DEF SourcesCounted, SourcesTypeOK
<1>9. CASE named # {}
  <2>1. Installed(i)
    <3>1. feedRows[i].name = entry.name
      BY <1>4, <1>9
    <3>2. entry.name # "none"
      BY <1>2, CatalogAssumption
    <3>. QED
      BY <3>1, <3>2 DEF Installed, NoFeed
  <2>2. PICK row : row = Reinstalled(feedRows[i], entry)
    OBVIOUS
  <2>3. /\ row \in SourceRow /\ row.handler = as /\ row.enabled = feedRows[i].enabled
        /\ row.ingested = feedRows[i].ingested /\ row.duped = feedRows[i].duped
    <3>1. feedRows[i] \in SourceRow
      BY <2>1, InstalledTyped
    <3>. HIDE DEF entry
    <3>. QED
      BY <1>3, <1>7, <2>2, <3>1 DEF Reinstalled, SourceRow
  <2>4. feedRows' = [feedRows EXCEPT ![i] = row]
    BY <1>4, <1>9, <2>2
  <2>5. row.ingested + row.duped = yields[i] /\ (i \in off' => ~row.enabled)
    BY <1>5, <2>1, <2>3, InstalledTyped
  <2>6. installedAs' = [installedAs EXCEPT ![i] = as]
    BY <1>4, <1>7
  <2>. HIDE DEF named, entry
  <2>7. RowsFine
    BY <1>5, <1>8, <2>3, <2>4, <2>5, <2>6, RowReplaced
  <2>. QED
    BY <1>5, <1>6, <2>7, RunsAlone, FineCounted
<1>10. CASE named = {}
  <2>1. ~Installed(i)
    BY <1>4, <1>10
  <2>2. PICK row : row = NewSource(entry.name, entry.conf, entry.handler)
    OBVIOUS
  <2>3. /\ row \in SourceRow /\ row.ingested = 0 /\ row.duped = 0
        /\ row.handler = as /\ row.enabled = TRUE
    BY <1>3, <1>7, <2>2, NewSourceTyped
  <2>4. feedRows' = [feedRows EXCEPT ![i] = row]
    BY <1>4, <1>10, <2>2
  <2>5. row.ingested + row.duped = yields[i] /\ i \notin off'
    BY <1>5, <2>1, <2>3, AbsentTyped
  <2>6. installedAs' = [installedAs EXCEPT ![i] = as]
    BY <1>4, <1>7
  <2>. HIDE DEF named, entry
  <2>7. RowsFine
    BY <1>5, <1>8, <2>3, <2>4, <2>5, <2>6, RowReplaced
  <2>. QED
    BY <1>5, <1>6, <2>7, RunsAlone, FineCounted
<1>. QED
  BY <1>9, <1>10

LEMMA SaveSourceKeeps ==
  ASSUME SourcesCounted, NEW i \in SourceIds, NEW name \in OwnNames \cup CatalogNames,
         NEW conf \in Believed, SaveSource(i, name, conf)
  PROVE  SourcesCounted'
<1>1. UNCHANGED <<installing, feedRuns, installedAs, intel, yields>> /\ off' = off \ {i}
  BY DEF SaveSource, kept
<1>2. conf \in Nat /\ installing' \in 0 .. Len(FeedCatalog)
  BY <1>1, CatalogAssumption DEF SourcesCounted, SourcesTypeOK
<1>3. /\ yields[i] \in Int /\ yields' = [yields EXCEPT ![i] = yields[i]]
      /\ installedAs[i] \in Handlers
      /\ installedAs' = [installedAs EXCEPT ![i] = installedAs[i]]
  BY <1>1 DEF SourcesCounted, SourcesTypeOK
<1>4. PICK row : row = IF Installed(i) THEN [Edited(feedRows[i], name, conf) EXCEPT !.enabled = TRUE]
                       ELSE NewSource(name, conf, "none")
  OBVIOUS
<1>5. feedRows' = [feedRows EXCEPT ![i] = row]
  BY <1>4 DEF SaveSource
<1>6. /\ row \in SourceRow /\ row.ingested + row.duped = yields[i]
      /\ installedAs[i] = "none" \/ row.handler = installedAs[i]
  <2>1. CASE Installed(i)
    <3>1. feedRows[i] \in SourceRow
      BY <2>1, InstalledTyped
    <3>2. /\ row \in SourceRow /\ row.handler = feedRows[i].handler
          /\ row.ingested = feedRows[i].ingested /\ row.duped = feedRows[i].duped
      BY <1>2, <1>4, <2>1, <3>1 DEF Edited, SourceRow
    <3>. QED
      BY <2>1, <3>2, InstalledTyped
  <2>2. CASE ~Installed(i)
    <3>1. "none" \in Handlers
      BY DEF Handlers
    <3>2. row \in SourceRow /\ row.ingested = 0 /\ row.duped = 0
      BY <1>2, <1>4, <2>2, <3>1, NewSourceTyped
    <3>. QED
      BY <2>2, <3>2, AbsentTyped
  <2>. QED
    BY <2>1, <2>2
<1>7. (i \in off' => ~row.enabled) /\ \A j \in SourceIds \ {i} : j \in off' <=> j \in off
  BY <1>1
<1>8. RowsFine
  BY <1>3, <1>5, <1>6, <1>7, RowReplaced
<1>. QED
  BY <1>1, <1>2, <1>8, RunsAlone, FineCounted

LEMMA ToggleKeeps ==
  ASSUME SourcesCounted, NEW i \in SourceIds, NEW enabled \in BOOLEAN,
         ToggleSource(i, enabled)
  PROVE  SourcesCounted'
<1>1. /\ UNCHANGED <<installing, feedRuns, installedAs, intel, yields>> /\ Installed(i)
      /\ off' = IF enabled THEN off \ {i} ELSE off \cup {i}
  BY DEF ToggleSource, kept
<1>2. installing' \in 0 .. Len(FeedCatalog)
  BY <1>1 DEF SourcesCounted, SourcesTypeOK
<1>3. /\ yields[i] \in Int /\ yields' = [yields EXCEPT ![i] = yields[i]]
      /\ installedAs[i] \in Handlers
      /\ installedAs' = [installedAs EXCEPT ![i] = installedAs[i]]
  BY <1>1 DEF SourcesCounted, SourcesTypeOK
<1>4. PICK row : row = [feedRows[i] EXCEPT !.enabled = enabled]
  OBVIOUS
<1>5. feedRows' = [feedRows EXCEPT ![i] = row]
  BY <1>4 DEF ToggleSource
<1>6. feedRows[i] \in SourceRow
  BY <1>1, InstalledTyped
<1>7. /\ row \in SourceRow /\ row.handler = feedRows[i].handler /\ row.enabled = enabled
      /\ row.ingested = feedRows[i].ingested /\ row.duped = feedRows[i].duped
  BY <1>4, <1>6 DEF SourceRow
<1>8. /\ row.ingested + row.duped = yields[i]
      /\ installedAs[i] = "none" \/ row.handler = installedAs[i]
  BY <1>1, <1>7, InstalledTyped
<1>9. (i \in off' => ~row.enabled) /\ \A j \in SourceIds \ {i} : j \in off' <=> j \in off
  BY <1>1, <1>7
<1>10. RowsFine
  BY <1>3, <1>5, <1>7, <1>8, <1>9, RowReplaced
<1>. QED
  BY <1>1, <1>2, <1>10, RunsAlone, FineCounted

\* What a run writes of a row: its status, and its counters by what goes to yields.
LEMMA RowRecorded ==
  ASSUME SourcesCounted, NEW i \in SourceIds, Installed(i), NEW row \in SourceRow,
         NEW told \in Int,
         feedRows' = [feedRows EXCEPT ![i] = row],
         yields' = [yields EXCEPT ![i] = yields[i] + told],
         UNCHANGED <<installedAs, off>>,
         row.handler = feedRows[i].handler, row.enabled = feedRows[i].enabled,
         row.ingested + row.duped = feedRows[i].ingested + feedRows[i].duped + told
  PROVE  RowsFine
<1>1. PICK as \in Handlers : as = installedAs[i]
  BY InstalledTyped
<1>2. yields[i] \in Int /\ feedRows[i] \in SourceRow
      /\ feedRows[i].ingested + feedRows[i].duped = yields[i]
  BY InstalledTyped
<1>3. PICK yield \in Int : yield = yields[i] + told
  BY <1>2
<1>4. row.ingested + row.duped = yield
  BY <1>2, <1>3
<1>5. installedAs' = [installedAs EXCEPT ![i] = as]
  BY <1>1 DEF SourcesCounted, SourcesTypeOK
<1>6. as = "none" \/ row.handler = as
  BY <1>1, InstalledTyped
<1>7. (i \in off' => ~row.enabled) /\ \A j \in SourceIds \ {i} : j \in off' <=> j \in off
  BY InstalledTyped
<1>8. yields' = [yields EXCEPT ![i] = yield]
  BY <1>3
<1>. QED
  BY <1>4, <1>5, <1>6, <1>7, <1>8, RowReplaced

LEMMA StartFeedKeeps ==
  ASSUME SourcesCounted, NEW r \in FeedRuns, NEW i \in SourceIds, StartFeed(r, i)
  PROVE  SourcesCounted'
<1>1. Installed(i) /\ UNCHANGED <<installing, intel, yields, installedAs, off>>
  BY DEF StartFeed, kept, seenOf
<1>2. feedRows[i] \in SourceRow
  BY <1>1, InstalledTyped
<1>3. installing' \in 0 .. Len(FeedCatalog)
  BY <1>1 DEF SourcesCounted, SourcesTypeOK
<1>4. CASE HandlerOf(feedRows[i]) = "none"
  <2>1. PICK row : row = [feedRows[i] EXCEPT !.status = "skipped"]
    OBVIOUS
  <2>2. feedRows' = [feedRows EXCEPT ![i] = row] /\ UNCHANGED feedRuns
    BY <1>4, <2>1 DEF StartFeed
  <2>3. /\ row \in SourceRow /\ row.handler = feedRows[i].handler
        /\ row.enabled = feedRows[i].enabled
        /\ row.ingested = feedRows[i].ingested /\ row.duped = feedRows[i].duped
    BY <1>2, <2>1 DEF SourceRow
  <2>4. PICK told \in Int : told = 0
    OBVIOUS
  <2>5. yields' = [yields EXCEPT ![i] = yields[i] + told]
    BY <1>1, <2>4 DEF SourcesCounted, SourcesTypeOK
  <2>6. row.ingested + row.duped = feedRows[i].ingested + feedRows[i].duped + told
    BY <1>2, <2>4, <2>3 DEF SourceRow
  <2>7. RowsFine
    BY <1>1, <2>2, <2>3, <2>5, <2>6, RowRecorded
  <2>. QED
    BY <1>3, <2>2, <2>7, RunsAlone, FineCounted
<1>5. CASE HandlerOf(feedRows[i]) # "none"
  <2>1. PICK run : run = [st |-> "fetch", src |-> i, read |-> feedRows[i], created |-> 0,
                          duped |-> 0, told |-> 0]
    OBVIOUS
  <2>2. feedRuns' = [feedRuns EXCEPT ![r] = run] /\ UNCHANGED feedRows
    BY <1>5, <2>1 DEF StartFeed
  <2>3. run \in FeedRun /\ run.created + run.duped = run.told /\ feedRows[run.src] # NoFeed
    BY <1>1, <1>2, <2>1 DEF FeedRun, Installed
  <2>4. RowsFine
    BY <1>1, <2>2, RowsAlone
  <2>. QED
    BY <1>3, <2>2, <2>3, <2>4, RunReplaced, FineCounted
<1>. QED
  BY <1>4, <1>5

LEMMA FetchKeeps ==
  ASSUME SourcesCounted, NEW r \in FeedRuns, NEW file \in FeedFiles, FetchFeed(r, file)
  PROVE  SourcesCounted'
<1>. DEFINE fresh == ValuesAt(file, Delivered(file)) \ intel
<1>1. UNCHANGED <<feedRows, installing, yields, installedAs, off>>
  BY DEF FetchFeed, seenOf
<1>2. feedRuns[r] # NoFeedRun
  BY RunNamed DEF FetchFeed
<1>3. PICK new \in Int : new = Cardinality(fresh)
  <2>1. IsFiniteSet(fresh)
    BY FileCounted, FS_Subset
  <2>. HIDE DEF fresh
  <2>. QED
    BY <2>1, FS_CardinalityType
<1>4. PICK told \in Int : told = ToldBy(file) /\ told = Cardinality(Delivered(file))
  BY FileCounted
<1>5. PICK run : run = [feedRuns[r] EXCEPT !.st = "settle", !.created = new,
                                           !.duped = told - new, !.told = told]
  OBVIOUS
<1>6. feedRuns' = [feedRuns EXCEPT ![r] = run]
  <2>1. feedRuns' = [feedRuns EXCEPT ![r].st = "settle", ![r].created = new,
                       ![r].duped = told - new, ![r].told = told]
    BY <1>3, <1>4 DEF FetchFeed
  <2>. QED
    BY <1>5, <2>1 DEF SourcesCounted, SourcesTypeOK
<1>7. run \in FeedRun /\ run.created + run.duped = run.told /\ feedRows[run.src] # NoFeed
  <2>1. feedRuns[r] \in FeedRun /\ feedRows[feedRuns[r].src] # NoFeed
    BY <1>2, RunTyped DEF Installed
  <2>2. run \in FeedRun /\ run.src = feedRuns[r].src
    <3>1. told - new \in Int
      OBVIOUS
    <3>2. run.st = "settle" /\ run.src = feedRuns[r].src /\ run.read = feedRuns[r].read
      BY <1>5, <2>1 DEF FeedRun
    <3>. HIDE DEF fresh
    <3>. QED
      BY <1>5, <2>1, <3>1 DEF FeedRun
  <2>3. run.created = new /\ run.duped = told - new /\ run.told = told
    BY <1>5, <2>1 DEF FeedRun
  <2>. QED
    BY <2>1, <2>2, <2>3
<1>8. RowsFine
  BY <1>1, RowsAlone
<1>9. installing' \in 0 .. Len(FeedCatalog)
  BY <1>1 DEF SourcesCounted, SourcesTypeOK
<1>. HIDE DEF fresh
<1>. QED
  BY <1>6, <1>7, <1>8, <1>9, RunReplaced, FineCounted

LEMMA NoOtxKeyKeeps ==
  ASSUME SourcesCounted, NEW r \in FeedRuns, NoOtxKey(r)
  PROVE  SourcesCounted'
<1>1. UNCHANGED <<feedRows, installing, intel, yields, installedAs, off>>
  BY DEF NoOtxKey, kept, seenOf
<1>2. feedRuns[r] # NoFeedRun
  BY RunNamed DEF NoOtxKey
<1>3. PICK run : run = [feedRuns[r] EXCEPT !.st = "settle"]
  OBVIOUS
<1>4. feedRuns' = [feedRuns EXCEPT ![r] = run]
  BY <1>3 DEF NoOtxKey, SourcesCounted, SourcesTypeOK
<1>5. run \in FeedRun /\ run.created + run.duped = run.told /\ feedRows[run.src] # NoFeed
  BY <1>2, <1>3, RunTyped DEF FeedRun, Installed
<1>6. RowsFine
  BY <1>1, RowsAlone
<1>7. installing' \in 0 .. Len(FeedCatalog)
  BY <1>1 DEF SourcesCounted, SourcesTypeOK
<1>. QED
  BY <1>4, <1>5, <1>6, <1>7, RunReplaced, FineCounted

LEMMA SettleKeeps ==
  ASSUME SourcesCounted, NEW r \in FeedRuns, SettleFeed(r)
  PROVE  SourcesCounted'
<1>1. UNCHANGED <<installing, installedAs, off>> /\ feedRuns' = [feedRuns EXCEPT ![r] = NoFeedRun]
  BY DEF SettleFeed, seenOf
<1>2. PICK run : run = feedRuns[r]
  OBVIOUS
<1>3. /\ run \in FeedRun /\ run.created + run.duped = run.told
      /\ run.src \in SourceIds /\ Installed(run.src)
      /\ run.created \in Int /\ run.duped \in Int /\ run.told \in Int
  <2>1. feedRuns[r] # NoFeedRun
    BY RunNamed DEF SettleFeed
  <2>. QED
    BY <1>2, <2>1, RunTyped DEF FeedRun
<1>4. PICK old \in SourceRow : old = feedRows[run.src]
  BY <1>3, InstalledTyped
<1>5. PICK row : row = [Tallied(old, run) EXCEPT !.status = "ok"]
  OBVIOUS
<1>6. feedRows' = [feedRows EXCEPT ![run.src] = row]
  BY <1>2, <1>4, <1>5 DEF SettleFeed
<1>7. yields' = [yields EXCEPT ![run.src] = yields[run.src] + run.told]
  BY <1>2 DEF SettleFeed
<1>8. /\ row \in SourceRow /\ row.handler = old.handler /\ row.enabled = old.enabled
      /\ row.ingested = old.ingested + run.created /\ row.duped = old.duped + run.duped
  <2>1. row = [old EXCEPT !.ingested = old.ingested + run.created,
                          !.duped = old.duped + run.duped, !.status = "ok"]
    BY <1>5 DEF Tallied, SourceRow
  <2>2. old.ingested + run.created \in Int /\ old.duped + run.duped \in Int
    BY <1>3 DEF SourceRow
  <2>. QED
    BY <2>1, <2>2 DEF SourceRow
<1>9. row.ingested + row.duped = old.ingested + old.duped + run.told
  BY <1>3, <1>8 DEF SourceRow
<1>10. RowsFine
  BY <1>1, <1>3, <1>4, <1>6, <1>7, <1>8, <1>9, RowRecorded
<1>11. installing' \in 0 .. Len(FeedCatalog)
  BY <1>1 DEF SourcesCounted, SourcesTypeOK
<1>. QED
  BY <1>1, <1>10, <1>11, RunReplaced, FineCounted

LEMMA BreaksKeeps ==
  ASSUME SourcesCounted, NEW r \in FeedRuns, FeedBreaks(r)
  PROVE  SourcesCounted'
<1>1. /\ UNCHANGED <<installing, yields, installedAs, off>>
      /\ feedRuns' = [feedRuns EXCEPT ![r] = NoFeedRun]
  BY DEF FeedBreaks, seenOf
<1>2. PICK i : i = feedRuns[r].src
  OBVIOUS
<1>3. i \in SourceIds /\ Installed(i)
  <2>1. feedRuns[r] # NoFeedRun
    BY RunNamed DEF FeedBreaks
  <2>. QED
    BY <1>2, <2>1, RunTyped
<1>4. PICK old \in SourceRow : old = feedRows[i]
  BY <1>3, InstalledTyped
<1>5. PICK row : row = Erred(old)
  OBVIOUS
<1>6. feedRows' = [feedRows EXCEPT ![i] = row]
  BY <1>2, <1>4, <1>5 DEF FeedBreaks
<1>7. /\ row \in SourceRow /\ row.handler = old.handler /\ row.enabled = old.enabled
      /\ row.ingested = old.ingested /\ row.duped = old.duped
  <2>1. old.errors + 1 \in Int
    BY DEF SourceRow
  <2>. QED
    BY <1>5, <2>1 DEF Erred, SourceRow
<1>8. PICK told \in Int : told = 0
  OBVIOUS
<1>9. yields' = [yields EXCEPT ![i] = yields[i] + told]
  BY <1>1, <1>3, <1>8 DEF SourcesCounted, SourcesTypeOK
<1>10. row.ingested + row.duped = old.ingested + old.duped + told
  BY <1>7, <1>8 DEF SourceRow
<1>11. RowsFine
  BY <1>1, <1>3, <1>4, <1>6, <1>7, <1>9, <1>10, RowRecorded
<1>12. installing' \in 0 .. Len(FeedCatalog)
  BY <1>1 DEF SourcesCounted, SourcesTypeOK
<1>. QED
  BY <1>1, <1>11, <1>12, RunReplaced, FineCounted

LEMMA SourcesStep ==
  ASSUME SourcesCounted, [SourcesNext]_sourceVars
  PROVE  SourcesCounted'
<1>1. CASE UNCHANGED sourceVars
  <2>1. RowsFine
    BY <1>1, RowsAlone DEF sourceVars
  <2>2. UNCHANGED <<installing, feedRuns>>
    BY <1>1 DEF sourceVars
  <2>3. installing' \in 0 .. Len(FeedCatalog)
    BY <2>2 DEF SourcesCounted, SourcesTypeOK
  <2>. QED
    BY <2>1, <2>2, <2>3, RunsAlone, FineCounted
<1>2. ASSUME BeginInstall \/ InstallDies PROVE SourcesCounted'
  <2>1. UNCHANGED <<feedRows, feedRuns, yields, installedAs, off>> /\ installing' \in {0, 1}
    BY <1>2 DEF BeginInstall, InstallDies, kept, seenOf
  <2>2. installing' \in 0 .. Len(FeedCatalog)
    BY <2>1, CatalogAssumption
  <2>3. RowsFine
    BY <2>1, RowsAlone
  <2>. QED
    BY <2>1, <2>2, <2>3, RunsAlone, FineCounted
<1>3. ASSUME NEW r \in FeedRuns, FeedDies(r) PROVE SourcesCounted'
  <2>1. /\ UNCHANGED <<feedRows, installing, yields, installedAs, off>>
        /\ feedRuns' = [feedRuns EXCEPT ![r] = NoFeedRun]
    BY <1>3 DEF FeedDies, kept, seenOf
  <2>2. RowsFine
    BY <2>1, RowsAlone
  <2>3. installing' \in 0 .. Len(FeedCatalog)
    BY <2>1 DEF SourcesCounted, SourcesTypeOK
  <2>. QED
    BY <2>1, <2>2, <2>3, RunReplaced, FineCounted
<1>. QED
  BY <1>1, <1>2, <1>3, InstallKeeps, SaveSourceKeeps, ToggleKeeps, StartFeedKeeps, FetchKeeps,
     NoOtxKeyKeeps, SettleKeeps, BreaksKeeps DEF SourcesNext

LEMMA CountedHold == SourcesCounted => SourcesHold
<1>. SUFFICES ASSUME SourcesCounted, NEW i \in SourceIds, Installed(i)
              PROVE  /\ feedRows[i].ingested + feedRows[i].duped = yields[i]
                     /\ installedAs[i] # "none" /\ feedRows[i].name \in OwnNames =>
                          HandlerOf(feedRows[i]) = installedAs[i]
                     /\ i \in off => ~feedRows[i].enabled
  BY DEF SourcesHold
<1>1. feedRows[i].name \in OwnNames => HandlerOf(feedRows[i]) = feedRows[i].handler
  BY CatalogAssumption DEF HandlerOf, CatalogNames
<1>. QED
  BY <1>1, InstalledTyped

\* A source's counters are the entries of the files its finished runs brought,
\* a source keeps the handler it was installed with, and no install switches one on.
THEOREM SourcesStayTrue == SourcesSpec => []SourcesHold
<1>1. SourcesInit => SourcesCounted
  BY CatalogAssumption
  DEF SourcesInit, SourcesCounted, SourcesTypeOK, RowHolds, RunHolds, Handlers
<1>2. SourcesCounted /\ [SourcesNext]_sourceVars => SourcesCounted'
  BY SourcesStep
<1>. QED
  BY <1>1, <1>2, CountedHold, PTL DEF SourcesSpec
-----------------------------------------------------------------------------
(* Backups.  The files of the backup in progress are the newest.           *)

BackupsSpec == BackupInit /\ [][BackupNext]_backupVars

Dump == [stamp : Nat \ {0}, enc : BOOLEAN, state : {"whole", "cut", "unreadable"}, of : Nat]

BackupsTypeOK ==
  /\ dumps \subseteq Dump /\ IsFiniteSet(dumps)
  /\ stamps \in Nat
  /\ backup \in {NoBackup} \cup
       [st : {"dump", "encrypt", "unlink", "list", "prune"}, stamp : {stamps},
        encrypt : BOOLEAN, retain : Nat \ {0}, todo : SUBSET Dump, before : SUBSET Dump]
  /\ restore \in {NoRestore} \cup
       [st : {"decrypt", "list", "restore", "cleanup"}, file : Dump, dec : BOOLEAN]
  /\ database \in [ver : Nat, torn : {"no", "cut", "failed"}]
  /\ completed \in [stamp : Nat, retain : Nat \ {0}, before : SUBSET Dump]

\* A name is one file's; what a backup in progress writes is the newest.
NamesHold ==
  /\ \A f \in dumps : f.stamp <= stamps
  /\ \A f, g \in dumps : f.stamp = g.stamp /\ f.enc = g.enc => f = g
  /\ completed.stamp <= stamps
  /\ backup # NoBackup => completed.stamp < stamps

\* What of its own a backup in progress has written.
OwnHold ==
  /\ backup.st = "dump" => \A f \in dumps : f.stamp = stamps => ~f.enc
  /\ backup.st = "encrypt" =>
       /\ \E f \in dumps : f.stamp = stamps /\ f.state = "whole"
       /\ \A f \in dumps : f.stamp = stamps => ~f.enc
  /\ backup.st = "unlink" =>
       /\ \E f \in dumps : f.stamp = stamps /\ ~f.enc
       /\ \E f \in dumps : f.stamp = stamps /\ f.enc /\ f.state = "whole"
  /\ backup.st \in {"list", "prune"} =>
       \E f \in dumps :
         /\ f.stamp = stamps /\ f.state = "whole"
         /\ \A g \in dumps : g.stamp = stamps => g = f
         /\ backup.st = "prune" => f \notin backup.todo

\* The last complete backup, or a newer one, is there: until a backup prunes,
\* one that is older than it.
WholeHold ==
  completed # NeverDone /\ backup.st # "prune" =>
    \E f \in dumps : /\ f.state = "whole" /\ f.stamp >= completed.stamp
                     /\ backup # NoBackup => f.stamp < stamps

AloneHold ==
  \A f \in dumps : f.stamp = completed.stamp => \A g \in dumps : g.stamp = f.stamp => g = f

BackupsSafe ==
  /\ BackupsTypeOK /\ NamesHold /\ OwnHold /\ WholeHold /\ AloneHold
  /\ restore.st = "restore" => restore.file.state # "unreadable"

LEMMA BackupOrNone ==
  ASSUME BackupsTypeOK
  PROVE  /\ backup = NoBackup => backup.st = "none"
         /\ backup # NoBackup =>
              /\ backup \in [st : {"dump", "encrypt", "unlink", "list", "prune"}, stamp : {stamps},
                             encrypt : BOOLEAN, retain : Nat \ {0}, todo : SUBSET Dump,
                             before : SUBSET Dump]
              /\ backup.st # "none"
BY DEF BackupsTypeOK, NoBackup

\* Writing a file of one's own leaves the older ones.
LEMMA WrittenFile ==
  ASSUME BackupsTypeOK, NamesHold, backup # NoBackup,
         NEW enc \in BOOLEAN, NEW state \in {"whole", "cut", "unreadable"}, NEW of \in Nat
  PROVE  /\ FileWritten(enc, state, of) \subseteq Dump
         /\ IsFiniteSet(FileWritten(enc, state, of))
         /\ \A f \in FileWritten(enc, state, of) :
              \/ f \in dumps /\ (f.stamp # stamps \/ f.enc # enc)
              \/ f.stamp = stamps /\ f.enc = enc /\ f.state = state
         /\ \A f, g \in FileWritten(enc, state, of) :
              f.stamp = g.stamp /\ f.enc = g.enc => f = g
         /\ \E f \in FileWritten(enc, state, of) :
              f.stamp = stamps /\ f.enc = enc /\ f.state = state
         /\ \A f \in dumps : f.stamp # stamps \/ f.enc # enc => f \in FileWritten(enc, state, of)
<1>. DEFINE rest == {f \in dumps : f.stamp # stamps \/ f.enc # enc}
<1>1. PICK new : new = [stamp |-> stamps, enc |-> enc, state |-> state, of |-> of]
  OBVIOUS
<1>2. backup.stamp = stamps
  BY BackupOrNone
<1>3. stamps \in Nat /\ stamps > 0
  BY DEF BackupsTypeOK, NamesHold
<1>4. new \in Dump /\ new.stamp = stamps /\ new.enc = enc /\ new.state = state
  BY <1>1, <1>3 DEF Dump
<1>5. FileWritten(enc, state, of) = rest \cup {new}
  BY <1>1, <1>2 DEF FileWritten
<1>6. IsFiniteSet(rest \cup {new})
  <2>1. IsFiniteSet(rest)
    BY FS_Subset DEF BackupsTypeOK
  <2>. HIDE DEF rest
  <2>. QED
    BY <2>1, FS_AddElement
<1>7. \A f, g \in rest \cup {new} : f.stamp = g.stamp /\ f.enc = g.enc => f = g
  BY <1>4 DEF NamesHold
<1>8. rest \cup {new} \subseteq Dump
  BY <1>4 DEF BackupsTypeOK
<1>. QED
  BY <1>4, <1>5, <1>6, <1>7, <1>8

\* The newest of n is never among those that are pruned.
LEMMA NewestKept ==
  ASSUME BackupsTypeOK, NamesHold, NEW own \in dumps, own.stamp = stamps,
         \A g \in dumps : g.stamp = stamps => g = own, NEW retain \in Nat \ {0}
  PROVE  own \notin Excess(dumps, retain)
<1>1. {g \in dumps : Older(g, own)} = dumps \ {own}
  <2>1. ASSUME NEW g \in dumps PROVE Older(g, own) <=> g # own
    <3>1. g.stamp \in Nat /\ own.stamp \in Nat /\ g.stamp <= own.stamp
      BY DEF BackupsTypeOK, Dump, NamesHold
    <3>2. g # own => g.stamp < own.stamp
      BY <3>1
    <3>3. ~Older(own, own)
      BY <3>1 DEF Older
    <3>. QED
      BY <3>2, <3>3 DEF Older
  <2>. QED
    BY <2>1
<1>2. PICK n \in Nat : n = Cardinality(dumps)
  BY FS_CardinalityType DEF BackupsTypeOK
<1>3. Cardinality(dumps \ {own}) = n - 1
  BY <1>2, FS_RemoveElement DEF BackupsTypeOK
<1>4. n > 0
  BY <1>2, <1>3, FS_RemoveElement, FS_EmptySet DEF BackupsTypeOK
<1>5. ~(n - 1 < SliceEnd(n, n - retain))
  BY <1>4 DEF SliceEnd
<1>. QED
  BY <1>1, <1>2, <1>3, <1>5 DEF Excess

\* A step that touches neither the files nor the backup.
LEMMA BackupAlone ==
  ASSUME BackupsSafe, UNCHANGED <<dumps, backup, stamps, completed>>
  PROVE  /\ restore' \in {NoRestore} \cup
              [st : {"decrypt", "list", "restore", "cleanup"}, file : Dump, dec : BOOLEAN]
            /\ database' \in [ver : Nat, torn : {"no", "cut", "failed"}] => BackupsTypeOK'
         /\ NamesHold' /\ OwnHold' /\ WholeHold' /\ AloneHold'
<1>1. NamesHold' /\ OwnHold' /\ WholeHold' /\ AloneHold'
  BY DEF BackupsSafe, NamesHold, OwnHold, WholeHold, AloneHold
<1>. QED
  BY <1>1 DEF BackupsSafe, BackupsTypeOK

\* A step of a backup leaves the restore alone.
LEMMA BackupMoves ==
  ASSUME BackupsSafe, UNCHANGED <<restore, database>>,
         dumps' \subseteq Dump /\ IsFiniteSet(dumps'), stamps' \in Nat,
         backup' \in {NoBackup} \cup
           [st : {"dump", "encrypt", "unlink", "list", "prune"}, stamp : {stamps'},
            encrypt : BOOLEAN, retain : Nat \ {0}, todo : SUBSET Dump, before : SUBSET Dump],
         completed' \in [stamp : Nat, retain : Nat \ {0}, before : SUBSET Dump],
         NamesHold', OwnHold', WholeHold', AloneHold'
  PROVE  BackupsSafe'
BY DEF BackupsSafe, BackupsTypeOK
LEMMA RunningBackup ==
  ASSUME BackupsSafe, backup # NoBackup
  PROVE  /\ backup \in [st : {"dump", "encrypt", "unlink", "list", "prune"}, stamp : {stamps},
                        encrypt : BOOLEAN, retain : Nat \ {0}, todo : SUBSET Dump,
                        before : SUBSET Dump]
         /\ backup.stamp = stamps /\ stamps \in Nat /\ completed.stamp < stamps
         /\ completed.stamp \in Nat
BY BackupOrNone DEF BackupsSafe, BackupsTypeOK, NamesHold

LEMMA StageRuns ==
  ASSUME backup.st \in {"dump", "encrypt", "unlink", "list", "prune"}
  PROVE  backup # NoBackup
BY DEF NoBackup

\* Writing a file of its own, a backup disturbs nothing that is older.
LEMMA WrittenSafe ==
  ASSUME BackupsSafe, backup # NoBackup, backup.st # "prune",
         NEW enc \in BOOLEAN, NEW state \in {"whole", "cut", "unreadable"}, NEW of \in Nat,
         dumps' = FileWritten(enc, state, of), UNCHANGED <<stamps, completed>>
  PROVE  NamesHold' /\ WholeHold' /\ AloneHold'
<1>. DEFINE D == FileWritten(enc, state, of)
<1>1. /\ \A f \in D : \/ f \in dumps /\ (f.stamp # stamps \/ f.enc # enc)
                      \/ f.stamp = stamps /\ f.enc = enc /\ f.state = state
      /\ \A f, g \in D : f.stamp = g.stamp /\ f.enc = g.enc => f = g
      /\ \A f \in dumps : f.stamp # stamps \/ f.enc # enc => f \in D
  BY WrittenFile DEF BackupsSafe
<1>. HIDE DEF D
<1>2. dumps' = D
  BY DEF D
<1>3. stamps \in Nat /\ completed.stamp \in Nat /\ completed.stamp < stamps
  BY RunningBackup
<1>4. NamesHold'
  <2>1. \A f \in D : f.stamp <= stamps
    BY <1>1, <1>3 DEF BackupsSafe, NamesHold
  <2>. QED
    BY <1>1, <1>2, <1>3, <2>1 DEF NamesHold
<1>5. WholeHold'
  <2>1. completed # NeverDone =>
          \E f \in dumps : f.state = "whole" /\ f.stamp >= completed.stamp /\ f.stamp < stamps
    BY DEF BackupsSafe, WholeHold
  <2>2. \A f \in dumps : f.stamp < stamps => f \in D
    BY <1>1, <1>3
  <2>. QED
    BY <1>2, <2>1, <2>2 DEF WholeHold
<1>6. AloneHold'
  <2>1. \A f \in D : f.stamp = completed.stamp => f \in dumps
    BY <1>1, <1>3
  <2>. QED
    BY <1>2, <2>1 DEF BackupsSafe, AloneHold
<1>. QED
  BY <1>4, <1>5, <1>6

LEMMA StartBackupKeeps ==
  ASSUME BackupsSafe, NEW encrypt \in BOOLEAN, NEW retain \in Retains,
         StartBackup(encrypt, retain)
  PROVE  BackupsSafe'
<1>1. PICK n \in Nat : n = stamps
  BY DEF BackupsSafe, BackupsTypeOK
<1>2. PICK new : new = [stamp |-> n + 1, enc |-> FALSE, state |-> "unreadable", of |-> 0]
  OBVIOUS
<1>3. new \in Dump /\ new.stamp = n + 1 /\ ~new.enc
  BY <1>2 DEF Dump
<1>4. /\ backup = NoBackup /\ stamps' = n + 1 /\ dumps' = dumps \cup {new}
      /\ backup' = [st |-> "dump", stamp |-> n + 1, encrypt |-> encrypt, retain |-> retain,
                    todo |-> {}, before |-> {}]
      /\ UNCHANGED <<restore, database, completed>>
  BY <1>1, <1>2 DEF StartBackup
<1>5. dumps' \subseteq Dump /\ IsFiniteSet(dumps')
  BY <1>3, <1>4, FS_AddElement DEF BackupsSafe, BackupsTypeOK
<1>6. retain \in Nat \ {0}
  BY BackupsAssumption
<1>7. backup' \in [st : {"dump", "encrypt", "unlink", "list", "prune"}, stamp : {stamps'},
                   encrypt : BOOLEAN, retain : Nat \ {0}, todo : SUBSET Dump,
                   before : SUBSET Dump]
  BY <1>4, <1>6
<1>8. completed.stamp \in Nat /\ completed.stamp <= n
  BY <1>1 DEF BackupsSafe, BackupsTypeOK, NamesHold
<1>9. \A f \in dumps : f.stamp \in Nat /\ f.stamp <= n
  BY <1>1 DEF BackupsSafe, BackupsTypeOK, NamesHold, Dump
<1>10. NamesHold'
  <2>1. \A f \in dumps' : f.stamp <= n + 1
    BY <1>3, <1>4, <1>9
  <2>2. \A f, g \in dumps' : f.stamp = g.stamp /\ f.enc = g.enc => f = g
    BY <1>3, <1>4, <1>9 DEF BackupsSafe, NamesHold
  <2>. QED
    BY <1>4, <1>8, <2>1, <2>2 DEF NamesHold
<1>11. OwnHold'
  <2>1. \A f \in dumps' : f.stamp = n + 1 => ~f.enc
    BY <1>3, <1>4, <1>9
  <2>. QED
    BY <1>4, <2>1 DEF OwnHold
<1>12. WholeHold'
  <2>1. completed # NeverDone =>
          \E f \in dumps : f.state = "whole" /\ f.stamp >= completed.stamp
    BY <1>4 DEF BackupsSafe, WholeHold, NoBackup
  <2>2. \A f \in dumps : f \in dumps' /\ f.stamp < n + 1
    BY <1>4, <1>9
  <2>. QED
    BY <1>4, <2>1, <2>2 DEF WholeHold
<1>13. AloneHold'
  <2>1. \A f \in dumps' : f.stamp = completed.stamp => f \in dumps
    BY <1>3, <1>4, <1>8
  <2>. QED
    BY <1>4, <2>1 DEF BackupsSafe, AloneHold
<1>14. completed' \in [stamp : Nat, retain : Nat \ {0}, before : SUBSET Dump] /\ stamps' \in Nat
  BY <1>4 DEF BackupsSafe, BackupsTypeOK
<1>. QED
  BY <1>4, <1>5, <1>7, <1>10, <1>11, <1>12, <1>13, <1>14, BackupMoves

LEMMA DumpKeeps ==
  ASSUME BackupsSafe, DumpDone PROVE BackupsSafe'
<1>1. /\ backup.st = "dump" /\ dumps' = FileWritten(FALSE, "whole", database.ver)
      /\ backup' = [backup EXCEPT !.st = IF backup.encrypt THEN "encrypt" ELSE "list"]
      /\ UNCHANGED <<restore, database, stamps, completed>>
  BY DEF DumpDone
<1>2. backup # NoBackup /\ database.ver \in Nat
  BY <1>1, StageRuns DEF BackupsSafe, BackupsTypeOK
<1>3. PICK ver \in Nat : ver = database.ver
  BY <1>2
<1>4. dumps' = FileWritten(FALSE, "whole", ver)
  BY <1>1, <1>3
<1>5. /\ dumps' \subseteq Dump /\ IsFiniteSet(dumps')
      /\ \A f \in dumps' : \/ f \in dumps /\ (f.stamp # stamps \/ f.enc # FALSE)
                           \/ f.stamp = stamps /\ f.enc = FALSE /\ f.state = "whole"
      /\ \A f, g \in dumps' : f.stamp = g.stamp /\ f.enc = g.enc => f = g
      /\ \E f \in dumps' : f.stamp = stamps /\ f.enc = FALSE /\ f.state = "whole"
  <2>1. PICK enc \in BOOLEAN, state \in {"whole", "cut", "unreadable"} : enc = FALSE /\ state = "whole"
    OBVIOUS
  <2>2. dumps' = FileWritten(enc, state, ver)
    BY <1>4, <2>1
  <2>3. /\ dumps' \subseteq Dump /\ IsFiniteSet(dumps')
        /\ \A f \in dumps' : \/ f \in dumps /\ (f.stamp # stamps \/ f.enc # enc)
                             \/ f.stamp = stamps /\ f.enc = enc /\ f.state = state
        /\ \A f, g \in dumps' : f.stamp = g.stamp /\ f.enc = g.enc => f = g
        /\ \E f \in dumps' : f.stamp = stamps /\ f.enc = enc /\ f.state = state
    BY <1>2, <2>2, WrittenFile DEF BackupsSafe
  <2>. QED
    BY <2>1, <2>3
<1>6. NamesHold' /\ WholeHold' /\ AloneHold'
  BY <1>1, <1>2, WrittenSafe
<1>7. \A f \in dumps' : f.stamp = stamps => ~f.enc
  BY <1>1, <1>5 DEF BackupsSafe, OwnHold, Dump
<1>8. backup' \in [st : {"encrypt", "list"}, stamp : {stamps}, encrypt : BOOLEAN,
                   retain : Nat \ {0}, todo : SUBSET Dump, before : SUBSET Dump]
  BY <1>1, <1>2, RunningBackup
<1>9. OwnHold'
  <2>1. \E f \in dumps' : /\ f.stamp = stamps /\ f.state = "whole"
                          /\ \A g \in dumps' : g.stamp = stamps => g = f
    <3>1. PICK f \in dumps' : f.stamp = stamps /\ f.enc = FALSE /\ f.state = "whole"
      BY <1>5
    <3>2. \A g \in dumps' : g.enc \in BOOLEAN
      BY <1>5 DEF Dump
    <3>3. \A g \in dumps' : g.stamp = stamps => g.enc = f.enc
      BY <1>7, <3>1, <3>2
    <3>. QED
      BY <1>5, <3>1, <3>3
  <2>2. backup'.st \in {"encrypt", "list"}
    BY <1>8
  <2>. QED
    BY <1>1, <1>7, <2>1, <2>2 DEF OwnHold
<1>10. backup' \in [st : {"dump", "encrypt", "unlink", "list", "prune"}, stamp : {stamps'},
                   encrypt : BOOLEAN, retain : Nat \ {0}, todo : SUBSET Dump,
                   before : SUBSET Dump]
  BY <1>1, <1>8
<1>11. completed' \in [stamp : Nat, retain : Nat \ {0}, before : SUBSET Dump] /\ stamps' \in Nat
  BY <1>1 DEF BackupsSafe, BackupsTypeOK
<1>. QED
  BY <1>1, <1>5, <1>6, <1>9, <1>10, <1>11, BackupMoves

LEMMA EncryptKeeps ==
  ASSUME BackupsSafe, Encrypt PROVE BackupsSafe'
<1>1. /\ backup.st = "encrypt" /\ dumps' = FileWritten(TRUE, "whole", Mine(FALSE).of)
      /\ backup' = [backup EXCEPT !.st = "unlink"]
      /\ UNCHANGED <<restore, database, stamps, completed>>
  BY DEF Encrypt
<1>2. backup # NoBackup
  BY <1>1, StageRuns
<1>3. \E f \in dumps : f.stamp = stamps /\ f.enc = FALSE
  BY <1>1 DEF BackupsSafe, OwnHold, BackupsTypeOK, Dump
<1>4. PICK of \in Nat : of = Mine(FALSE).of
  <2>1. Mine(FALSE) \in dumps
    BY <1>2, <1>3, RunningBackup DEF Mine
  <2>. QED
    BY <2>1 DEF BackupsSafe, BackupsTypeOK, Dump
<1>5. /\ dumps' \subseteq Dump /\ IsFiniteSet(dumps')
      /\ \A f \in dumps : f.stamp # stamps \/ f.enc # TRUE => f \in dumps'
      /\ \E f \in dumps' : f.stamp = stamps /\ f.enc = TRUE /\ f.state = "whole"
  <2>1. BackupsTypeOK /\ NamesHold /\ TRUE \in BOOLEAN /\ "whole" \in {"whole", "cut", "unreadable"}
    BY DEF BackupsSafe
  <2>. QED
    BY <1>1, <1>2, <1>4, <2>1, WrittenFile
<1>6. NamesHold' /\ WholeHold' /\ AloneHold'
  BY <1>1, <1>2, <1>4, WrittenSafe
<1>7. backup' \in [st : {"dump", "encrypt", "unlink", "list", "prune"}, stamp : {stamps'},
                   encrypt : BOOLEAN, retain : Nat \ {0}, todo : SUBSET Dump,
                   before : SUBSET Dump] /\ backup'.st = "unlink"
  BY <1>1, <1>2, RunningBackup
<1>8. OwnHold'
  BY <1>1, <1>3, <1>5, <1>7 DEF OwnHold
<1>9. completed' \in [stamp : Nat, retain : Nat \ {0}, before : SUBSET Dump] /\ stamps' \in Nat
  BY <1>1 DEF BackupsSafe, BackupsTypeOK
<1>. QED
  BY <1>1, <1>5, <1>6, <1>7, <1>8, <1>9, BackupMoves

\* Files of its own go, and older ones stay.
LEMMA OwnRemoved ==
  ASSUME BackupsSafe, backup # NoBackup, backup.st # "prune", dumps' \subseteq dumps,
         \A f \in dumps : f.stamp # stamps => f \in dumps', UNCHANGED <<stamps, completed>>
  PROVE  /\ dumps' \subseteq Dump /\ IsFiniteSet(dumps')
         /\ NamesHold' /\ WholeHold' /\ AloneHold'
<1>1. dumps' \subseteq Dump /\ IsFiniteSet(dumps')
  BY FS_Subset DEF BackupsSafe, BackupsTypeOK
<1>2. NamesHold' /\ AloneHold'
  BY RunningBackup DEF BackupsSafe, NamesHold, AloneHold
<1>3. \A f \in dumps : f.stamp < stamps => f \in dumps'
  BY RunningBackup
<1>4. WholeHold'
  BY <1>3 DEF BackupsSafe, WholeHold
<1>. QED
  BY <1>1, <1>2, <1>4

LEMMA UnlinkKeeps ==
  ASSUME BackupsSafe, UnlinkPlain PROVE BackupsSafe'
<1>1. /\ backup.st = "unlink" /\ dumps' = dumps \ {Mine(FALSE)}
      /\ backup' = [backup EXCEPT !.st = "list"]
      /\ UNCHANGED <<restore, database, stamps, completed>>
  BY DEF UnlinkPlain
<1>2. backup # NoBackup
  BY <1>1, StageRuns
<1>3. PICK plain \in dumps : plain.stamp = stamps /\ ~plain.enc
  BY <1>1 DEF BackupsSafe, OwnHold
<1>4. plain.enc = FALSE
  BY <1>3 DEF BackupsSafe, BackupsTypeOK, Dump
<1>5. PICK mine \in dumps : mine = Mine(FALSE) /\ mine.stamp = stamps /\ mine.enc = FALSE
  BY <1>2, <1>3, <1>4, RunningBackup DEF Mine
<1>6. \A f \in dumps' : f.stamp = stamps => f.enc = TRUE
  <2>. SUFFICES ASSUME NEW f \in dumps', f.stamp = stamps, f.enc # TRUE PROVE FALSE
    OBVIOUS
  <2>1. f \in dumps /\ f # mine
    BY <1>1, <1>5
  <2>2. f.enc = FALSE
    BY <2>1 DEF BackupsSafe, BackupsTypeOK, Dump
  <2>. QED
    BY <1>5, <2>1, <2>2 DEF BackupsSafe, NamesHold
<1>7. PICK enc \in dumps : enc.stamp = stamps /\ enc.enc /\ enc.state = "whole"
  BY <1>1 DEF BackupsSafe, OwnHold
<1>8. enc \in dumps'
  BY <1>1, <1>5, <1>7
<1>9. \A f \in dumps' : f.stamp = stamps => f = enc
  BY <1>1, <1>6, <1>7, <1>8 DEF BackupsSafe, BackupsTypeOK, Dump, NamesHold
<1>10. backup' \in [st : {"dump", "encrypt", "unlink", "list", "prune"}, stamp : {stamps'},
                    encrypt : BOOLEAN, retain : Nat \ {0}, todo : SUBSET Dump,
                    before : SUBSET Dump] /\ backup'.st = "list"
  BY <1>1, <1>2, RunningBackup
<1>11. OwnHold'
  BY <1>1, <1>7, <1>8, <1>9, <1>10 DEF OwnHold
<1>12. /\ dumps' \subseteq Dump /\ IsFiniteSet(dumps')
       /\ NamesHold' /\ WholeHold' /\ AloneHold'
  BY <1>1, <1>2, <1>5, OwnRemoved
<1>13. completed' \in [stamp : Nat, retain : Nat \ {0}, before : SUBSET Dump] /\ stamps' \in Nat
  BY <1>1 DEF BackupsSafe, BackupsTypeOK
<1>. QED
  BY <1>1, <1>10, <1>11, <1>12, <1>13, BackupMoves

LEMMA NoPassphraseKeeps ==
  ASSUME BackupsSafe, NoPassphrase PROVE BackupsSafe'
<1>1. /\ backup.st = "encrypt" /\ dumps' = {f \in dumps : f.stamp # backup.stamp}
      /\ backup' = NoBackup
      /\ UNCHANGED <<restore, database, stamps, completed>>
  BY DEF NoPassphrase
<1>2. backup # NoBackup
  BY <1>1, StageRuns
<1>3. /\ dumps' \subseteq Dump /\ IsFiniteSet(dumps')
      /\ NamesHold' /\ WholeHold' /\ AloneHold'
  BY <1>1, <1>2, OwnRemoved, RunningBackup
<1>4. OwnHold'
  BY <1>1 DEF OwnHold, NoBackup
<1>5. completed' \in [stamp : Nat, retain : Nat \ {0}, before : SUBSET Dump] /\ stamps' \in Nat
  BY <1>1 DEF BackupsSafe, BackupsTypeOK
<1>. QED
  BY <1>1, <1>3, <1>4, <1>5, BackupMoves

LEMMA ListBackupsKeeps ==
  ASSUME BackupsSafe, ListBackups PROVE BackupsSafe'
<1>1. /\ backup.st = "list"
      /\ backup' = [backup EXCEPT !.st = "prune", !.before = dumps,
                                  !.todo = Excess(dumps, backup.retain)]
      /\ UNCHANGED <<dumps, restore, database, stamps, completed>>
  BY DEF ListBackups
<1>2. backup # NoBackup
  BY <1>1, StageRuns
<1>3. PICK retain \in Nat \ {0} : retain = backup.retain
  BY <1>2, RunningBackup
<1>4. PICK own \in dumps : /\ own.stamp = stamps /\ own.state = "whole"
                           /\ \A g \in dumps : g.stamp = stamps => g = own
  BY <1>1 DEF BackupsSafe, OwnHold
<1>5. PICK excess : excess = Excess(dumps, retain)
  OBVIOUS
<1>6. own \notin excess
  BY <1>4, <1>5, NewestKept DEF BackupsSafe
<1>7. excess \in SUBSET Dump /\ dumps \in SUBSET Dump
  BY <1>5 DEF Excess, BackupsSafe, BackupsTypeOK
<1>8. backup' = [backup EXCEPT !.st = "prune", !.before = dumps, !.todo = excess]
  BY <1>1, <1>3, <1>5
<1>9. backup' \in [st : {"dump", "encrypt", "unlink", "list", "prune"}, stamp : {stamps'},
                   encrypt : BOOLEAN, retain : Nat \ {0}, todo : SUBSET Dump,
                   before : SUBSET Dump] /\ backup'.st = "prune" /\ backup'.todo = excess
  BY <1>1, <1>2, <1>7, <1>8, RunningBackup
<1>10. OwnHold'
  BY <1>1, <1>4, <1>6, <1>9 DEF OwnHold
<1>11. NamesHold' /\ WholeHold' /\ AloneHold'
  BY <1>1, <1>2, <1>9 DEF BackupsSafe, NamesHold, WholeHold, AloneHold
<1>12. /\ completed' \in [stamp : Nat, retain : Nat \ {0}, before : SUBSET Dump]
       /\ stamps' \in Nat /\ dumps' \subseteq Dump /\ IsFiniteSet(dumps')
  BY <1>1 DEF BackupsSafe, BackupsTypeOK
<1>. QED
  BY <1>1, <1>9, <1>10, <1>11, <1>12, BackupMoves

LEMMA PruneKeeps ==
  ASSUME BackupsSafe, PruneNext PROVE BackupsSafe'
<1>1. backup.st = "prune" /\ UNCHANGED <<restore, database, stamps, completed>>
  BY DEF PruneNext
<1>2. PICK gone : /\ gone \in backup.todo /\ dumps' = dumps \ {gone}
                  /\ backup' = [backup EXCEPT !.todo = @ \ {gone}]
  BY DEF PruneNext
<1>3. backup # NoBackup
  BY <1>1, StageRuns
<1>4. PICK own \in dumps : /\ own.stamp = stamps /\ own.state = "whole"
                           /\ \A g \in dumps : g.stamp = stamps => g = own
                           /\ own \notin backup.todo
  BY <1>1 DEF BackupsSafe, OwnHold
<1>5. backup.todo \ {gone} \in SUBSET Dump
  BY <1>3, RunningBackup
<1>6. backup' \in [st : {"dump", "encrypt", "unlink", "list", "prune"}, stamp : {stamps'},
                   encrypt : BOOLEAN, retain : Nat \ {0}, todo : SUBSET Dump,
                   before : SUBSET Dump]
      /\ backup'.st = "prune" /\ backup'.todo = backup.todo \ {gone}
  BY <1>1, <1>2, <1>3, <1>5, RunningBackup
<1>7. OwnHold'
  BY <1>1, <1>2, <1>4, <1>6 DEF OwnHold
<1>8. NamesHold' /\ AloneHold'
  BY <1>1, <1>2, <1>3, <1>6, RunningBackup DEF BackupsSafe, NamesHold, AloneHold
<1>9. WholeHold'
  BY <1>6 DEF WholeHold
<1>10. /\ completed' \in [stamp : Nat, retain : Nat \ {0}, before : SUBSET Dump]
       /\ stamps' \in Nat /\ dumps' \subseteq Dump /\ IsFiniteSet(dumps')
  BY <1>1, <1>2, FS_RemoveElement DEF BackupsSafe, BackupsTypeOK
<1>. QED
  BY <1>1, <1>6, <1>7, <1>8, <1>9, <1>10, BackupMoves

LEMMA CompleteKeeps ==
  ASSUME BackupsSafe, BackupComplete PROVE BackupsSafe'
<1>1. /\ backup.st = "prune" /\ backup' = NoBackup
      /\ completed' = [stamp |-> backup.stamp, retain |-> backup.retain, before |-> backup.before]
      /\ UNCHANGED <<dumps, restore, database, stamps>>
  BY DEF BackupComplete
<1>2. backup # NoBackup
  BY <1>1, StageRuns
<1>3. /\ completed' \in [stamp : Nat, retain : Nat \ {0}, before : SUBSET Dump]
      /\ completed'.stamp = stamps /\ stamps \in Nat
  BY <1>1, <1>2, RunningBackup
<1>4. PICK own \in dumps : /\ own.stamp = stamps /\ own.state = "whole"
                           /\ \A g \in dumps : g.stamp = stamps => g = own
  BY <1>1 DEF BackupsSafe, OwnHold
<1>5. NamesHold' /\ AloneHold'
  BY <1>1, <1>3, <1>4 DEF BackupsSafe, NamesHold, AloneHold
<1>6. OwnHold'
  BY <1>1 DEF OwnHold, NoBackup
<1>7. WholeHold'
  BY <1>1, <1>3, <1>4 DEF WholeHold
<1>8. stamps' \in Nat /\ dumps' \subseteq Dump /\ IsFiniteSet(dumps')
  BY <1>1 DEF BackupsSafe, BackupsTypeOK
<1>. QED
  BY <1>1, <1>3, <1>5, <1>6, <1>7, <1>8, BackupMoves

LEMMA BackupDiesKeeps ==
  ASSUME BackupsSafe, BackupDies PROVE BackupsSafe'
<1>1. /\ backup # NoBackup /\ backup' = NoBackup
      /\ UNCHANGED <<restore, database, stamps, completed>>
  BY DEF BackupDies
<1>2. PICK state \in Broken :
        dumps' = IF backup.st = "dump" THEN FileWritten(FALSE, state, 0)
                 ELSE IF backup.st = "encrypt" THEN FileWritten(TRUE, state, 0)
                 ELSE dumps
  BY DEF BackupDies
<1>3. OwnHold'
  BY <1>1 DEF OwnHold, NoBackup
<1>4. completed' \in [stamp : Nat, retain : Nat \ {0}, before : SUBSET Dump] /\ stamps' \in Nat
  BY <1>1 DEF BackupsSafe, BackupsTypeOK
<1>5. CASE backup.st \in {"dump", "encrypt"}
  <2>1. PICK enc \in BOOLEAN : dumps' = FileWritten(enc, state, 0)
    BY <1>2, <1>5
  <2>2. state \in {"whole", "cut", "unreadable"} /\ 0 \in Nat
    BY DEF Broken
  <2>3. NamesHold' /\ WholeHold' /\ AloneHold'
    BY <1>1, <1>5, <2>1, <2>2, WrittenSafe
  <2>4. dumps' \subseteq Dump /\ IsFiniteSet(dumps')
    BY <1>1, <2>1, <2>2, WrittenFile DEF BackupsSafe
  <2>. QED
    BY <1>1, <1>3, <1>4, <2>3, <2>4, BackupMoves
<1>6. CASE backup.st \notin {"dump", "encrypt"}
  <2>1. dumps' = dumps
    BY <1>2, <1>6
  <2>2. dumps' \subseteq Dump /\ IsFiniteSet(dumps')
    BY <2>1 DEF BackupsSafe, BackupsTypeOK
  <2>3. NamesHold' /\ AloneHold'
    BY <1>1, <2>1 DEF BackupsSafe, NamesHold, AloneHold
  <2>4. WholeHold'
    <3>1. CASE backup.st = "prune"
      BY <1>1, <2>1, <3>1, RunningBackup DEF BackupsSafe, OwnHold, WholeHold
    <3>2. CASE backup.st # "prune"
      BY <1>1, <2>1, <3>2 DEF BackupsSafe, WholeHold
    <3>. QED
      BY <3>1, <3>2
  <2>. QED
    BY <1>1, <1>3, <1>4, <2>2, <2>3, <2>4, BackupMoves
<1>. QED
  BY <1>5, <1>6

RestoreNext ==
  \/ DatabaseChanges
  \/ \E f \in dumps : StartRestore(f)
  \/ Decrypt \/ ListContents \/ RestoreRuns \/ RestoreFails \/ Cleanup

LEMMA RestoreKeeps ==
  ASSUME BackupsSafe, RestoreNext PROVE BackupsSafe'
<1>. DEFINE Restore == [st : {"decrypt", "list", "restore", "cleanup"}, file : Dump, dec : BOOLEAN]
            Database == [ver : Nat, torn : {"no", "cut", "failed"}]
<1>1. UNCHANGED <<dumps, backup, stamps, completed>>
  BY DEF RestoreNext, DatabaseChanges, StartRestore, Decrypt, ListContents, RestoreRuns,
         RestoreFails, Cleanup
<1>2. dumps \subseteq Dump /\ restore \in {NoRestore} \cup Restore /\ database \in Database
  BY DEF BackupsSafe, BackupsTypeOK
<1>3. restore = NoRestore => restore.st = "none"
  BY DEF NoRestore
<1>4. restore.st = "restore" => restore.file.state # "unreadable"
  BY DEF BackupsSafe
<1>. DEFINE Fine == /\ restore' \in {NoRestore} \cup Restore /\ database' \in Database
                    /\ restore'.st = "restore" => restore'.file.state # "unreadable"
<1>5. ASSUME DatabaseChanges PROVE Fine
  BY <1>2, <1>4, <1>5 DEF DatabaseChanges
<1>6. ASSUME NEW f \in dumps, StartRestore(f) PROVE Fine
  BY <1>2, <1>6 DEF StartRestore
<1>7. ASSUME Decrypt PROVE Fine
  <2>1. restore \in Restore
    BY <1>2, <1>3, <1>7 DEF Decrypt
  <2>2. database' = database /\ restore' \in {NoRestore} \cup Restore /\ restore'.st # "restore"
    BY <1>7, <2>1 DEF Decrypt, NoRestore
  <2>. QED
    BY <1>2, <2>2
<1>8. ASSUME ListContents PROVE Fine
  <2>1. restore \in Restore
    BY <1>2, <1>3, <1>8 DEF ListContents
  <2>2. /\ database' = database /\ restore' \in Restore
        /\ restore'.st = "restore" => restore'.file.state # "unreadable"
    BY <1>8, <2>1 DEF ListContents, Lists
  <2>. QED
    BY <1>2, <2>2
<1>9. ASSUME RestoreRuns \/ RestoreFails PROVE Fine
  <2>1. restore \in Restore /\ restore.st = "restore"
    BY <1>2, <1>3, <1>9 DEF RestoreRuns, RestoreFails
  <2>2. restore' = [restore EXCEPT !.st = "cleanup"]
    BY <1>9 DEF RestoreRuns, RestoreFails
  <2>3. restore' \in Restore /\ restore'.st = "cleanup"
    BY <2>1, <2>2
  <2>4. restore.file \in Dump /\ restore.file.state \in {"whole", "cut"}
    BY <1>4, <2>1 DEF Dump
  <2>5. CASE RestoreRuns
    <3>1. database' \in Database
      BY <1>2, <2>4, <2>5 DEF RestoreRuns, Dump
    <3>. QED
      BY <2>3, <3>1
  <2>6. CASE RestoreFails
    <3>1. database' \in Database
      BY <1>2, <2>6 DEF RestoreFails
    <3>. QED
      BY <2>3, <3>1
  <2>. QED
    BY <1>9, <2>5, <2>6
<1>10. ASSUME Cleanup PROVE Fine
  BY <1>2, <1>10 DEF Cleanup, NoRestore
<1>11. Fine
  BY <1>5, <1>6, <1>7, <1>8, <1>9, <1>10 DEF RestoreNext
<1>. QED
  BY <1>1, <1>11, BackupAlone DEF BackupsSafe

LEMMA BackupsStep ==
  ASSUME BackupsSafe, [BackupNext]_backupVars
  PROVE  BackupsSafe'
<1>1. CASE UNCHANGED backupVars
  <2>1. UNCHANGED <<dumps, backup, stamps, completed, restore, database>>
    BY <1>1 DEF backupVars
  <2>. QED
    BY <2>1, BackupAlone DEF BackupsSafe, BackupsTypeOK
<1>2. CASE BackupNext
  BY <1>2, StartBackupKeeps, DumpKeeps, EncryptKeeps, NoPassphraseKeeps, UnlinkKeeps, ListBackupsKeeps,
     PruneKeeps, CompleteKeeps, BackupDiesKeeps, RestoreKeeps DEF BackupNext, RestoreNext
<1>. QED
  BY <1>1, <1>2

LEMMA SafeHold == BackupsSafe => BackupsHold
<1>. SUFFICES ASSUME BackupsSafe PROVE BackupsHold
  OBVIOUS
<1>1. completed # NeverDone => \E f \in dumps : f.state = "whole" /\ f.stamp >= completed.stamp
  <2>1. CASE backup.st = "prune"
    BY <2>1, StageRuns, RunningBackup DEF BackupsSafe, OwnHold
  <2>2. CASE backup.st # "prune"
    BY <2>2 DEF BackupsSafe, WholeHold
  <2>. QED
    BY <2>1, <2>2
<1>2. database.torn # "unreadable"
  BY DEF BackupsSafe, BackupsTypeOK
<1>. QED
  BY <1>1, <1>2 DEF BackupsSafe, AloneHold, BackupsHold

\* Whatever fails or is killed, and whatever --retain says: the last complete
\* backup, or a newer one, is whole and there, no plain one lies beside its
\* ciphertext, and no file that lists nothing reaches the database.
THEOREM BackupsStay == BackupsSpec => []BackupsHold
<1>1. BackupInit => BackupsSafe
  <2>. SUFFICES ASSUME BackupInit PROVE BackupsSafe
    OBVIOUS
  <2>1. NeverDone \in [stamp : Nat, retain : Nat \ {0}, before : SUBSET Dump]
    BY DEF NeverDone
  <2>2. BackupsTypeOK
    BY <2>1, FS_EmptySet DEF BackupInit, BackupsTypeOK
  <2>3. NamesHold /\ OwnHold /\ WholeHold /\ AloneHold
    BY DEF BackupInit, NamesHold, OwnHold, WholeHold, AloneHold, NeverDone, NoBackup
  <2>. QED
    BY <2>2, <2>3 DEF BackupsSafe, BackupInit, NoRestore
<1>2. BackupsSafe /\ [BackupNext]_backupVars => BackupsSafe'
  BY BackupsStep
<1>. QED
  BY <1>1, <1>2, SafeHold, PTL DEF BackupsSpec
-----------------------------------------------------------------------------
(* Numbers: a set of natural numbers has a least.                          *)

LEMMA LeastOfNaturals ==
  ASSUME NEW T \in SUBSET Nat, T # {}
  PROVE  \E x \in T : \A y \in T : x <= y
<1>. PICK t \in T : TRUE
  OBVIOUS
<1>. DEFINE S == 0 .. t
            U == {0 .. k : k \in {j \in T : j <= t}}
<1>1. IsFiniteSet(S)
  BY 0 \in Int, t \in Int, FS_Interval
<1>. PICK R : R = StrictSubsetOrdering(S)
  OBVIOUS
<1>2. IsWellFoundedOn(R, FiniteSubsetsOf(S))
  BY FS_StrictSubsetOrderingWellFounded
<1>3. U \subseteq FiniteSubsetsOf(S) /\ U # {}
  BY <1>1, FS_Subset DEF FiniteSubsetsOf
<1>4. PICK u \in U : \A v \in U : ~(<<v, u>> \in R)
  <2>. HIDE DEF U, S
  <2>. QED
    BY <1>2, <1>3, WFMin
<1>5. PICK k \in T : k <= t /\ u = 0 .. k
  OBVIOUS
<1>6. \A j \in T : j >= k
  <2>. SUFFICES ASSUME NEW j \in T, j < k PROVE FALSE
    OBVIOUS
  <2>1. 0 .. j \in U
    <3>1. j <= t
      BY <1>5
    <3>. QED
      BY <3>1
  <2>2. k \in 0 .. k /\ k \notin 0 .. j /\ 0 .. j \subseteq 0 .. k
    OBVIOUS
  <2>3. <<0 .. j, u>> \in R
    BY <1>3, <1>5, <2>1, <2>2 DEF StrictSubsetOrdering, FiniteSubsetsOf
  <2>. QED
    BY <1>4, <2>1, <2>3
<1>. QED
  BY <1>6

\* Counting the members of a set of positions from the left reaches every count.
LEMMA CountReached ==
  ASSUME NEW L \in Nat, NEW P \in SUBSET (1 .. L), NEW n \in 1 .. Cardinality(P)
  PROVE  \E k \in P : Cardinality({j \in P : j <= k}) = n
<1>. DEFINE upTo(k) == {j \in P : j <= k}
            T == {k \in 0 .. L : Cardinality(upTo(k)) >= n}
<1>1. \A j \in P : j \in Nat /\ 1 <= j /\ j <= L
  OBVIOUS
<1>2. IsFiniteSet(P)
  <2>1. IsFiniteSet(1 .. L)
    BY 1 \in Int, L \in Int, FS_Interval
  <2>. QED
    BY <2>1, FS_Subset
<1>3. \A k \in 0 .. L : IsFiniteSet(upTo(k)) /\ Cardinality(upTo(k)) \in Nat
  BY <1>2, FS_Subset, FS_CardinalityType
<1>4. n \in Nat /\ n >= 1 /\ n <= Cardinality(P)
  BY <1>2, FS_CardinalityType
<1>5. L \in T
  <2>1. upTo(L) = P
    BY <1>1
  <2>. QED
    BY <1>4, <2>1
<1>6. PICK k \in T : \A j \in T : k <= j
  <2>1. T \in SUBSET Nat
    OBVIOUS
  <2>2. T # {}
    <3>. HIDE DEF T
    <3>. QED
      BY <1>5
  <2>. HIDE DEF T
  <2>. QED
    BY <2>1, <2>2, LeastOfNaturals
<1>7. k # 0
  <2>1. \A j \in P : ~(j <= 0)
    BY <1>1
  <2>2. upTo(0) = {}
    BY <2>1
  <2>3. Cardinality(upTo(0)) = 0
    BY <2>2, FS_EmptySet
  <2>. QED
    BY <1>4, <2>3
<1>8. k \in Nat /\ k - 1 \in 0 .. L /\ k - 1 \notin T
  <2>1. k \in 1 .. L
    BY <1>7
  <2>2. k \in Nat /\ k - 1 \in 0 .. L /\ ~(k <= k - 1)
    BY <2>1
  <2>. HIDE DEF T
  <2>. QED
    BY <1>6, <2>2
<1>9. PICK c \in Nat : c = Cardinality(upTo(k - 1)) /\ c < n
  <2>1. PICK c \in Nat : c = Cardinality(upTo(k - 1))
    BY <1>3, <1>8
  <2>2. ~(c >= n)
    BY <1>8, <2>1
  <2>3. c < n
    BY <1>4, <2>2
  <2>. HIDE DEF upTo, T
  <2>. QED
    BY <2>1, <2>3
<1>10. k \in P
  <2>. SUFFICES ASSUME k \notin P PROVE FALSE
    OBVIOUS
  <2>1. \A j \in P : j <= k <=> j <= k - 1
    <3>1. k \in Nat
      BY <1>8
    <3>. QED
      BY <1>1, <3>1
  <2>2. upTo(k) = upTo(k - 1)
    BY <2>1
  <2>3. Cardinality(upTo(k)) >= n
    OBVIOUS
  <2>. HIDE DEF upTo, T
  <2>. QED
    BY <1>4, <1>9, <2>2, <2>3
<1>11. Cardinality(upTo(k)) = c + 1
  <2>1. upTo(k) = upTo(k - 1) \cup {k} /\ k \notin upTo(k - 1)
    <3>1. k \in Nat
      BY <1>8
    <3>2. \A j \in P : j <= k <=> (j <= k - 1 \/ j = k)
      BY <1>1, <3>1
    <3>3. ~(k <= k - 1)
      BY <3>1
    <3>. QED
      BY <1>10, <3>2, <3>3
  <2>2. IsFiniteSet(upTo(k - 1))
    BY <1>3, <1>8
  <2>. HIDE DEF upTo
  <2>. QED
    BY <1>9, <2>1, <2>2, FS_AddElement
<1>12. Cardinality(upTo(k)) = n
  <2>1. Cardinality(upTo(k)) >= n
    OBVIOUS
  <2>. QED
    BY <1>4, <1>9, <1>11, <2>1
<1>. QED
  BY <1>10, <1>12
-----------------------------------------------------------------------------
(* Places: parts of a sequence.                                            *)

\* A set of places is finite, and so are those up to one of them.
LEMMA PlacesFinite ==
  ASSUME NEW L \in Nat, NEW P \in SUBSET (1 .. L)
  PROVE  /\ IsFiniteSet(P) /\ Cardinality(P) \in Nat
         /\ \A k : /\ IsFiniteSet({j \in P : j <= k})
                   /\ Cardinality({j \in P : j <= k}) \in Nat
                   /\ Cardinality({j \in P : j <= k}) <= Cardinality(P)
<1>1. IsFiniteSet(1 .. L)
  BY 1 \in Int, L \in Int, FS_Interval
<1>2. IsFiniteSet(P)
  BY <1>1, FS_Subset
<1>3. ASSUME NEW k
      PROVE  /\ IsFiniteSet({j \in P : j <= k})
             /\ Cardinality({j \in P : j <= k}) \in Nat
             /\ Cardinality({j \in P : j <= k}) <= Cardinality(P)
  <2>. PICK Q \in SUBSET P : Q = {j \in P : j <= k}
    OBVIOUS
  <2>. QED
    BY <1>2, FS_Subset, FS_CardinalityType
<1>. QED
  BY <1>2, <1>3, FS_CardinalityType

\* The n-th place is a place, with n of them up to it.
LEMMA NthFits ==
  ASSUME NEW L \in Nat, NEW P \in SUBSET (1 .. L), NEW n \in 1 .. Cardinality(P)
  PROVE  Nth(P, n) \in P /\ Cardinality({j \in P : j <= Nth(P, n)}) = n
<1>1. \E k \in P : Cardinality({j \in P : j <= k}) = n
  BY CountReached
<1>. PICK k : k = CHOOSE l \in P : Cardinality({j \in P : j <= l}) = n
  OBVIOUS
<1>2. k \in P /\ Cardinality({j \in P : j <= k}) = n
  BY <1>1
<1>. QED
  BY <1>2 DEF Nth

\* Of two places the later one has more up to it.
LEMMA MoreUpTo ==
  ASSUME NEW L \in Nat, NEW P \in SUBSET (1 .. L), NEW k \in P, NEW l \in P, k < l
  PROVE  Cardinality({j \in P : j <= k}) < Cardinality({j \in P : j <= l})
<1>. PICK A \in SUBSET P : A = {j \in P : j <= k}
  OBVIOUS
<1>. PICK B \in SUBSET P : B = {j \in P : j <= l}
  OBVIOUS
<1>1. k \in Nat /\ l \in Nat /\ \A j \in P : j \in Nat
  OBVIOUS
<1>2. l \notin A /\ A \cup {l} \subseteq B
  <2>1. ~(l <= k) /\ l <= l /\ \A j \in P : j <= k => j <= l
    BY <1>1
  <2>. QED
    BY <2>1
<1>3. IsFiniteSet(A) /\ IsFiniteSet(B)
  BY PlacesFinite
<1>4. Cardinality(A \cup {l}) = Cardinality(A) + 1
  BY <1>2, <1>3, FS_AddElement
<1>5. Cardinality(A \cup {l}) <= Cardinality(B)
  BY <1>2, <1>3, FS_Subset
<1>6. Cardinality(A) \in Nat /\ Cardinality(B) \in Nat
  BY <1>3, FS_CardinalityType
<1>. QED
  BY <1>4, <1>5, <1>6

\* The places are numbered, each once, from the left.
LEMMA NthOrder ==
  ASSUME NEW L \in Nat, NEW P \in SUBSET (1 .. L)
  PROVE  /\ \A k \in P : \E n \in 1 .. Cardinality(P) : Nth(P, n) = k
         /\ \A m, n \in 1 .. Cardinality(P) : m < n => Nth(P, m) < Nth(P, n)
<1>. DEFINE c(k) == Cardinality({j \in P : j <= k})
<1>0. \A k \in P : k \in Nat
  OBVIOUS
<1>1. \A k : c(k) \in Nat /\ c(k) <= Cardinality(P)
  BY PlacesFinite
<1>2. \A k, l \in P : k < l => c(k) < c(l)
  BY MoreUpTo
<1>3. \A n \in 1 .. Cardinality(P) : Nth(P, n) \in P /\ c(Nth(P, n)) = n
  BY NthFits
<1>4. \A k \in P : c(k) >= 1
  <2>. SUFFICES ASSUME NEW k \in P PROVE c(k) >= 1
    OBVIOUS
  <2>. PICK A \in SUBSET P : A = {j \in P : j <= k}
    OBVIOUS
  <2>1. {k} \subseteq A
    BY <1>0
  <2>2. IsFiniteSet(A)
    BY PlacesFinite
  <2>3. Cardinality({k}) = 1 /\ Cardinality({k}) <= Cardinality(A)
    BY <2>1, <2>2, FS_Subset, FS_Singleton
  <2>4. Cardinality(A) \in Nat
    BY <2>2, FS_CardinalityType
  <2>. QED
    BY <2>3, <2>4
<1>5. Cardinality(P) \in Nat
  BY PlacesFinite
<1>. HIDE DEF c
<1>6. ASSUME NEW k \in P PROVE \E n \in 1 .. Cardinality(P) : Nth(P, n) = k
  <2>1. PICK n \in 1 .. Cardinality(P) : n = c(k)
    BY <1>1, <1>4, <1>5
  <2>2. PICK l \in P : l = Nth(P, n) /\ c(l) = n
    BY <1>3
  <2>3. ~(k < l) /\ ~(l < k)
    BY <1>1, <1>2, <2>1, <2>2
  <2>4. k \in Nat /\ l \in Nat
    BY <1>0
  <2>. QED
    BY <2>2, <2>3, <2>4
<1>7. ASSUME NEW m \in 1 .. Cardinality(P), NEW n \in 1 .. Cardinality(P), m < n
      PROVE  Nth(P, m) < Nth(P, n)
  <2>1. PICK k \in P : k = Nth(P, m) /\ c(k) = m
    BY <1>3
  <2>2. PICK l \in P : l = Nth(P, n) /\ c(l) = n
    BY <1>3
  <2>3. k # l /\ ~(l < k)
    BY <1>2, <1>7, <2>1, <2>2
  <2>4. k \in Nat /\ l \in Nat
    BY <1>0
  <2>. QED
    BY <2>1, <2>2, <2>3, <2>4
<1>. QED
  BY <1>6, <1>7

\* What a part of a sequence is.
PartOf(s, P) == {s[k] : k \in P}

LEMMA PartFits ==
  ASSUME NEW V, NEW s \in Seq(V), NEW P \in SUBSET (1 .. Len(s))
  PROVE  /\ Picked(s, P) \in Seq(V) /\ Len(Picked(s, P)) = Cardinality(P)
         /\ \A n \in 1 .. Cardinality(P) : Nth(P, n) \in P /\ Picked(s, P)[n] = s[Nth(P, n)]
         /\ Elements(Picked(s, P)) = PartOf(s, P)
<1>. PICK L \in Nat : L = Len(s)
  OBVIOUS
<1>. PICK c \in Nat : c = Cardinality(P)
  BY PlacesFinite
<1>1. \A n \in 1 .. c : Nth(P, n) \in P
  BY NthFits
<1>2. \A k \in P : \E n \in 1 .. c : Nth(P, n) = k
  BY NthOrder
<1>3. \A k \in P : s[k] \in V
  OBVIOUS
<1>. PICK t : t = Picked(s, P)
  OBVIOUS
<1>4. t = [n \in 1 .. c |-> s[Nth(P, n)]]
  BY DEF Picked
<1>5. \A n \in 1 .. c : s[Nth(P, n)] \in V
  BY <1>1, <1>3
<1>6. t \in Seq(V) /\ Len(t) = c /\ DOMAIN t = 1 .. c
  BY <1>4, <1>5
<1>7. {t[n] : n \in 1 .. c} = {s[k] : k \in P}
  <2>1. \A n \in 1 .. c : \E k \in P : t[n] = s[k]
    BY <1>1, <1>4
  <2>2. \A k \in P : \E n \in 1 .. c : t[n] = s[k]
    BY <1>2, <1>4
  <2>. PICK A, B : A = {t[n] : n \in 1 .. c} /\ B = {s[k] : k \in P}
    OBVIOUS
  <2>3. A \subseteq B
    BY <2>1
  <2>4. B \subseteq A
    BY <2>2
  <2>. QED
    BY <2>3, <2>4
<1>8. Elements(t) = PartOf(s, P)
  BY <1>6, <1>7 DEF Elements, ToSet, PartOf
<1>. QED
  BY <1>1, <1>4, <1>6, <1>8

\* An element that comes after the sequence comes after its part.
PartGoesOn(s, e, P) ==
  /\ Picked(Append(s, e), P) = Picked(s, P)
  /\ Picked(Append(s, e), P \cup {Len(s) + 1}) = Append(Picked(s, P), e)

LEMMA PartAppended ==
  ASSUME NEW V, NEW s \in Seq(V), NEW e \in V, NEW P \in SUBSET (1 .. Len(s))
  PROVE  PartGoesOn(s, e, P)
<1>. PICK L \in Nat : L = Len(s)
  OBVIOUS
<1>. PICK c \in Nat : c = Cardinality(P)
  BY PlacesFinite
<1>. PICK a : a = Append(s, e)
  OBVIOUS
<1>1. a \in Seq(V) /\ Len(s) \in Nat
  OBVIOUS
<1>2. /\ \A k \in P : k \in Nat /\ k <= L /\ a[k] = s[k]
      /\ a[L + 1] = e /\ Len(a) = L + 1
  <2>1. \A k \in P : k \in Nat /\ k <= L /\ 1 <= k
    OBVIOUS
  <2>2. \A k \in 1 .. L : a[k] = s[k]
    OBVIOUS
  <2>. QED
    BY <2>1, <2>2
<1>3. Picked(a, P) = Picked(s, P)
  <2>1. \A n \in 1 .. c : Nth(P, n) \in P
    BY NthFits
  <2>2. Picked(a, P) = [n \in 1 .. c |-> a[Nth(P, n)]] /\ Picked(s, P) = [n \in 1 .. c |-> s[Nth(P, n)]]
    BY DEF Picked
  <2>3. \A n \in 1 .. c : a[Nth(P, n)] = s[Nth(P, n)]
    BY <1>2, <2>1
  <2>. QED
    BY ONLY <2>2, <2>3
<1>. PICK Q : Q = P \cup {L + 1}
  OBVIOUS
<1>4. /\ Q \in SUBSET (1 .. L + 1) /\ L + 1 \in Nat
      /\ \A k \in Q : k <= L + 1
  <2>1. \A k \in P : k \in 1 .. L + 1 /\ k <= L + 1
    BY <1>2
  <2>2. L + 1 \in 1 .. L + 1 /\ L + 1 <= L + 1 /\ L + 1 \in Nat
    OBVIOUS
  <2>. QED
    BY <2>1, <2>2
<1>5. L + 1 \notin P /\ IsFiniteSet(P)
  <2>1. \A k \in P : k # L + 1
    BY <1>2
  <2>2. IsFiniteSet(P)
    BY PlacesFinite
  <2>. QED
    BY <2>1, <2>2
<1>6. Cardinality(Q) = c + 1
  BY <1>5, FS_AddElement
<1>7. \A k \in P : {j \in Q : j <= k} = {j \in P : j <= k}
  <2>1. \A k \in P : ~(L + 1 <= k)
    BY <1>2
  <2>. QED
    BY <2>1
<1>8. {j \in Q : j <= L + 1} = Q
  BY <1>4
<1>9. \A n \in 1 .. c + 1 : n # c + 1 => n \in 1 .. c
  OBVIOUS
<1>10. \A n \in 1 .. c : Nth(Q, n) = Nth(P, n)
  <2>. SUFFICES ASSUME NEW n \in 1 .. c PROVE Nth(Q, n) = Nth(P, n)
    OBVIOUS
  <2>1. n # c + 1
    OBVIOUS
  <2>2. \A k : k \in Q /\ Cardinality({j \in Q : j <= k}) = n
               <=> k \in P /\ Cardinality({j \in P : j <= k}) = n
    <3>1. \A k \in P : k \in Q
      OBVIOUS
    <3>2. Cardinality({j \in Q : j <= L + 1}) # n
      BY <1>6, <1>8, <2>1
    <3>3. \A k \in Q : k \in P \/ k = L + 1
      OBVIOUS
    <3>. QED
      BY <1>7, <3>1, <3>2, <3>3
  <2>. QED
    BY <2>2 DEF Nth
<1>11. Nth(Q, c + 1) = L + 1
  <2>1. Nth(Q, c + 1) \in Q /\ Cardinality({j \in Q : j <= Nth(Q, c + 1)}) = c + 1
    <3>1. c + 1 \in 1 .. Cardinality(Q)
      BY <1>6
    <3>. QED
      BY <1>4, <3>1, NthFits
  <2>2. Nth(Q, c + 1) \notin P
    <3>. SUFFICES ASSUME NEW k \in P, k = Nth(Q, c + 1) PROVE FALSE
      OBVIOUS
    <3>1. Cardinality({j \in P : j <= k}) = c + 1
      BY <1>7, <2>1
    <3>2. Cardinality({j \in P : j <= k}) <= c
      BY PlacesFinite
    <3>. QED
      BY <3>1, <3>2
  <2>. QED
    BY <2>1, <2>2
<1>. PICK p \in Seq(V) : p = Picked(s, P) /\ Len(p) = c
  BY PartFits
<1>12. \A n \in 1 .. c : p[n] = s[Nth(P, n)] /\ Nth(P, n) \in P
  BY PartFits
<1>. PICK q : q = Picked(a, Q)
  OBVIOUS
<1>13. q = [n \in 1 .. c + 1 |-> a[Nth(Q, n)]]
  BY <1>6 DEF Picked
<1>14. \A n \in 1 .. c : q[n] = p[n]
  <2>1. \A n \in 1 .. c : n \in 1 .. c + 1
    OBVIOUS
  <2>2. \A n \in 1 .. c : q[n] = a[Nth(P, n)]
    BY <1>10, <1>13, <2>1
  <2>. QED
    BY <1>2, <1>12, <2>2
<1>15. q[c + 1] = e
  <2>1. c + 1 \in 1 .. c + 1
    OBVIOUS
  <2>. QED
    BY <1>2, <1>11, <1>13, <2>1
<1>16. q = Append(p, e)
  <2>1. Append(p, e) \in Seq(V) /\ Len(Append(p, e)) = c + 1
    OBVIOUS
  <2>2. Append(p, e)[c + 1] = e /\ \A n \in 1 .. c : Append(p, e)[n] = p[n]
    OBVIOUS
  <2>3. \A n \in 1 .. c + 1 : n = c + 1 \/ n \in 1 .. c
    OBVIOUS
  <2>4. \A n \in 1 .. c + 1 : q[n] = Append(p, e)[n]
    BY <1>14, <1>15, <2>2, <2>3
  <2>. PICK r : r = Append(p, e)
    OBVIOUS
  <2>5. r = [n \in 1 .. c + 1 |-> r[n]]
    <3>1. \A z \in Seq(V) : z = [n \in 1 .. Len(z) |-> z[n]]
      OBVIOUS
    <3>. QED
      BY <2>1, <3>1
  <2>6. q = [n \in 1 .. c + 1 |-> q[n]]
    BY <1>13
  <2>. QED
    BY <2>4, <2>5, <2>6
<1>. QED
  BY <1>3, <1>16 DEF PartGoesOn

\* f joins the sequences one after another, as FlattenSeq does.
Joining(f, seqs) ==
  f = [i \in 1 .. Len(seqs) |-> IF i = 1 THEN seqs[i] ELSE f[i - 1] \o seqs[i]]

LEMMA JoinDefined ==
  ASSUME NEW V, NEW seqs \in Seq(Seq(V))
  PROVE  \E f : Joining(f, seqs)
<1>. PICK L \in Nat : L = Len(seqs) /\ seqs \in [1 .. L -> Seq(V)]
  OBVIOUS
<1>. DEFINE Joins(f, m) ==
              /\ f \in [1 .. m -> Seq(V)]
              /\ \A i \in 1 .. m : f[i] = IF i = 1 THEN seqs[i] ELSE f[i - 1] \o seqs[i]
            Bad == {m \in Nat : m <= L /\ ~\E f : Joins(f, m)}
<1>1. Bad = {}
  <2>. SUFFICES ASSUME Bad # {} PROVE FALSE
    OBVIOUS
  <2>1. PICK m \in Bad : \A n \in Bad : m <= n
    <3>1. Bad \in SUBSET Nat
      OBVIOUS
    <3>. HIDE DEF Bad
    <3>. QED
      BY <3>1, LeastOfNaturals
  <2>2. m \in Nat /\ m <= L /\ ~\E f : Joins(f, m)
    OBVIOUS
  <2>3. m # 0
    <3>. SUFFICES ASSUME m = 0 PROVE FALSE
      OBVIOUS
    <3>. PICK f : f = [i \in 1 .. 0 |-> <<>>]
      OBVIOUS
    <3>1. f \in [1 .. m -> Seq(V)] /\ 1 .. m = {}
      OBVIOUS
    <3>2. Joins(f, m)
      BY <3>1
    <3>. HIDE DEF Joins
    <3>. QED
      BY <2>2, <3>2
  <2>4. m - 1 \in Nat /\ m - 1 <= L /\ ~(m <= m - 1)
    BY <2>2, <2>3
  <2>5. PICK g : Joins(g, m - 1)
    <3>1. m - 1 \notin Bad
      BY <2>1, <2>4
    <3>. HIDE DEF Joins
    <3>. QED
      BY <2>4, <3>1
  <2>. PICK f : f = [i \in 1 .. m |-> IF i = m THEN IF m = 1 THEN seqs[m] ELSE g[m - 1] \o seqs[m]
                                      ELSE g[i]]
    OBVIOUS
  <2>6. /\ m \in 1 .. m /\ m \in 1 .. L /\ (m # 1 => m - 1 \in 1 .. m - 1 /\ m - 1 # m /\ m - 1 \in 1 .. m)
        /\ \A i \in 1 .. m : i # m => i \in 1 .. m - 1 /\ (i # 1 => i - 1 \in 1 .. m - 1 /\ i - 1 # m)
    BY <2>2, <2>3
  <2>7. \A i \in 1 .. m : f[i] \in Seq(V)
    <3>1. seqs[m] \in Seq(V) /\ (m # 1 => g[m - 1] \in Seq(V))
      BY <2>5, <2>6
    <3>2. m # 1 => g[m - 1] \o seqs[m] \in Seq(V)
      BY <3>1
    <3>. QED
      BY <2>5, <2>6, <3>1, <3>2
  <2>8. \A i \in 1 .. m : f[i] = IF i = 1 THEN seqs[i] ELSE f[i - 1] \o seqs[i]
    <3>1. CASE m = 1
      BY <2>6, <3>1
    <3>2. CASE m # 1
      <4>1. f[m - 1] = g[m - 1] /\ f[m] = g[m - 1] \o seqs[m]
        BY <2>6, <3>2
      <4>2. ASSUME NEW i \in 1 .. m, i # m
            PROVE  f[i] = IF i = 1 THEN seqs[i] ELSE f[i - 1] \o seqs[i]
        <5>1. i \in 1 .. m - 1 /\ f[i] = g[i]
          BY <2>6, <4>2
        <5>2. i # 1 => i - 1 \in 1 .. m /\ f[i - 1] = g[i - 1]
          BY <2>6, <4>2
        <5>. QED
          BY <2>5, <5>1, <5>2
      <4>. QED
        BY <3>2, <4>1, <4>2
    <3>. QED
      BY <3>1, <3>2
  <2>9. Joins(f, m)
    BY <2>7, <2>8
  <2>. HIDE DEF Joins
  <2>. QED
    BY <2>2, <2>9
<1>2. PICK f : Joins(f, L)
  <2>1. L \in Nat /\ L <= L /\ L \notin Bad
    <3>1. L <= L
      OBVIOUS
    <3>. HIDE DEF Bad
    <3>. QED
      BY <1>1, <3>1
  <2>. HIDE DEF Joins
  <2>. QED
    BY <2>1
<1>3. f = [i \in 1 .. L |-> IF i = 1 THEN seqs[i] ELSE f[i - 1] \o seqs[i]]
  BY <1>2
<1>. QED
  BY <1>3 DEF Joining

LEMMA ConcatFacts ==
  ASSUME NEW V, NEW a \in Seq(V), NEW b \in Seq(V)
  PROVE  /\ a \o b \in Seq(V) /\ Len(a \o b) = Len(a) + Len(b)
         /\ \A i \in 1 .. Len(a) : (a \o b)[i] = a[i]
         /\ \A i \in 1 .. Len(b) : (a \o b)[Len(a) + i] = b[i]
         /\ ToSet(a \o b) = ToSet(a) \cup ToSet(b)
<1>. PICK m \in Nat : m = Len(a)
  OBVIOUS
<1>. PICK n \in Nat : n = Len(b)
  OBVIOUS
<1>. PICK c : c = a \o b
  OBVIOUS
<1>1. c \in Seq(V) /\ Len(c) = m + n
  OBVIOUS
<1>2. /\ \A i \in 1 .. m : c[i] = a[i]
      /\ \A i \in 1 .. n : c[m + i] = b[i]
  OBVIOUS
<1>3. ToSet(c) = ToSet(a) \cup ToSet(b)
  <2>1. DOMAIN a = 1 .. m /\ DOMAIN b = 1 .. n /\ DOMAIN c = 1 .. m + n
    BY <1>1
  <2>2. \A i \in 1 .. m + n : i \in 1 .. m \/ (i - m \in 1 .. n /\ m + (i - m) = i)
    OBVIOUS
  <2>3. (\A i \in 1 .. m : i \in 1 .. m + n) /\ (\A i \in 1 .. n : m + i \in 1 .. m + n)
    OBVIOUS
  <2>4. \A i \in 1 .. m + n : (\E k \in 1 .. m : c[i] = a[k]) \/ (\E k \in 1 .. n : c[i] = b[k])
    BY <1>2, <2>2
  <2>5. \A k \in 1 .. m : \E i \in 1 .. m + n : c[i] = a[k]
    BY <1>2, <2>3
  <2>6. \A k \in 1 .. n : \E i \in 1 .. m + n : c[i] = b[k]
    BY <1>2, <2>3
  <2>7. /\ ToSet(a) = {a[k] : k \in 1 .. m} /\ ToSet(b) = {b[k] : k \in 1 .. n}
        /\ ToSet(c) = {c[i] : i \in 1 .. m + n}
    BY <2>1 DEF ToSet
  <2>8. {c[i] : i \in 1 .. m + n} = {a[k] : k \in 1 .. m} \cup {b[k] : k \in 1 .. n}
    <3>. PICK M, N, O : M = 1 .. m /\ N = 1 .. n /\ O = 1 .. m + n
      OBVIOUS
    <3>1. {c[i] : i \in O} \subseteq {a[k] : k \in M} \cup {b[k] : k \in N}
      BY <2>4
    <3>2. {a[k] : k \in M} \subseteq {c[i] : i \in O}
      BY <2>5
    <3>3. {b[k] : k \in N} \subseteq {c[i] : i \in O}
      BY <2>6
    <3>. QED
      BY <3>1, <3>2, <3>3
  <2>. QED
    BY <2>7, <2>8
<1>. QED
  BY <1>1, <1>2, <1>3

\* The elements of the whole are those of the parts.
LEMMA FlattenFits ==
  ASSUME NEW V, NEW seqs \in Seq(Seq(V))
  PROVE  /\ FlattenSeq(seqs) \in Seq(V)
         /\ ToSet(FlattenSeq(seqs)) = UNION {ToSet(seqs[k]) : k \in 1 .. Len(seqs)}
<1>. PICK L \in Nat : L = Len(seqs)
  OBVIOUS
<1>1. CASE L = 0
  <2>1. FlattenSeq(seqs) = seqs /\ seqs = <<>>
    <3>1. Len(seqs) = 0 /\ seqs = <<>>
      <4>. PICK W : W = Seq(V)
        OBVIOUS
      <4>1. \A z \in Seq(W) : Len(z) = 0 => z = <<>>
        OBVIOUS
      <4>. QED
        BY <1>1, <4>1
    <3>2. FlattenSeq(seqs) = seqs
      BY <3>1, Zenon DEF FlattenSeq
    <3>. QED
      BY <3>1, <3>2
  <2>2. 1 .. L = {}
    BY <1>1
  <2>. QED
    BY <2>1, <2>2 DEF ToSet
<1>2. CASE L # 0
  <2>. DEFINE flatten[i \in 1 .. Len(seqs)] ==
                IF i = 1 THEN seqs[i] ELSE flatten[i - 1] \o seqs[i]
  <2>1. flatten = CHOOSE f : f = [i \in 1 .. Len(seqs) |->
                                    IF i = 1 THEN seqs[i] ELSE f[i - 1] \o seqs[i]]
    OBVIOUS
  <2>2. FlattenSeq(seqs) = flatten[Len(seqs)]
    BY <1>2 DEF FlattenSeq
  <2>. HIDE DEF flatten
  <2>. PICK f : f = flatten
    OBVIOUS
  <2>3. f = [i \in 1 .. L |-> IF i = 1 THEN seqs[i] ELSE f[i - 1] \o seqs[i]]
    <3>1. f = CHOOSE g : Joining(g, seqs)
      BY <2>1 DEF Joining
    <3>2. Joining(f, seqs)
      BY <3>1, JoinDefined
    <3>. QED
      BY <3>2 DEF Joining
  <2>. DEFINE Good(i) == f[i] \in Seq(V) /\ ToSet(f[i]) = UNION {ToSet(seqs[k]) : k \in 1 .. i}
              Bad == {i \in 1 .. L : ~Good(i)}
  <2>4. Bad = {}
    <3>. SUFFICES ASSUME Bad # {} PROVE FALSE
      OBVIOUS
    <3>1. PICK m \in Bad : \A n \in Bad : m <= n
      <4>1. Bad \in SUBSET Nat
        OBVIOUS
      <4>. HIDE DEF Bad
      <4>. QED
        BY <4>1, LeastOfNaturals
    <3>2. m \in 1 .. L /\ ~Good(m)
      OBVIOUS
    <3>3. seqs[m] \in Seq(V)
      BY <3>2
    <3>4. CASE m = 1
      <4>1. f[m] = seqs[m]
        BY <2>3, <3>2, <3>4
      <4>2. 1 .. m = {m}
        BY <3>4
      <4>. QED
        BY <3>2, <3>3, <4>1, <4>2
    <3>5. CASE m # 1
      <4>1. m - 1 \in 1 .. L /\ ~(m <= m - 1)
        BY <3>2, <3>5
      <4>2. Good(m - 1)
        <5>. HIDE DEF Good
        <5>. QED
          BY <3>1, <4>1
      <4>3. f[m] = f[m - 1] \o seqs[m]
        BY <2>3, <3>2, <3>5
      <4>4. f[m] \in Seq(V) /\ ToSet(f[m]) = ToSet(f[m - 1]) \cup ToSet(seqs[m])
        <5>. PICK a \in Seq(V) : a = f[m - 1]
          BY <4>2
        <5>. PICK b \in Seq(V) : b = seqs[m]
          BY <3>3
        <5>. QED
          BY <4>3, ConcatFacts
      <4>5. 1 .. m = (1 .. m - 1) \cup {m}
        BY <4>1
      <4>. QED
        BY <3>2, <4>2, <4>4, <4>5
    <3>. QED
      BY <3>4, <3>5
  <2>5. L \in 1 .. L /\ Good(L)
    <3>1. L \in 1 .. L
      BY <1>2
    <3>. HIDE DEF Good
    <3>. QED
      BY <2>4, <3>1
  <2>. QED
    BY <2>2, <2>5
<1>. QED
  BY <1>1, <1>2
-----------------------------------------------------------------------------
(* Bulk lookups.  What a row shows, while nobody disturbs the rows, is     *)
(* stored and fresh.                                                       *)

LookupsSpec == BulkInit /\ [][BulkNext]_bulkVars

ToldVerdicts == {"MALICIOUS", "BENIGN"}
Outcome == [status : {"skipped", "rate_limited", "error", "fetched", "cached"},
            verdict : {"null"} \cup ToldVerdicts]
LookupRow == [line : DOMAIN ValueOf, status : {"ok", "unrecognized", "not_stored"},
              outcomes : Seq(Outcome)]
LookupState == [st : {"idle", "line", "find", "ask", "read", "done", "failed"}, single : BOOLEAN,
                lines : Seq(DOMAIN ValueOf), panel : Seq(Panel), k : Nat \ {0},
                outcomes : Seq(Outcome), status : {"none", "fetched", "cached"},
                told : {"null"} \cup ToldVerdicts, rows : Seq(LookupRow),
                truncated : BOOLEAN, calm : BOOLEAN]
AnswerRow == [st : {"none", "fresh", "expired"}, verdict : {"null"} \cup ToldVerdicts]

ValueIn(L) == ValueOf[L.lines[L.k]]

\* A row in order: of the line, and with an outcome of every provider or none.
RowFine(row, line, asked) ==
  /\ row.line = line
  /\ IF row.status = "ok" THEN Len(row.outcomes) = asked ELSE row.outcomes = <<>>
  /\ ValueOf[line] \in KnownGood =>
       \A j \in 1 .. Len(row.outcomes) : row.outcomes[j].status = "skipped"

LookupFine(L) ==
  /\ Len(L.rows) = L.k - 1 /\ L.k <= Len(L.lines) + 1
  /\ L.st = "done" => L.k = Len(L.lines) + 1
  /\ L.st \in {"find", "ask", "read"} => L.k <= Len(L.lines) /\ ValueIn(L) \in LookupValues
  /\ L.st = "idle" => L.rows = <<>>
  /\ L.st # "idle" => Len(L.panel) > 0
  /\ L.st \in {"line", "find"} => L.outcomes = <<>>
  /\ L.st = "ask" => Len(L.outcomes) <= Len(L.panel)
  /\ L.st = "read" =>
       /\ Len(L.outcomes) < Len(L.panel) /\ L.status # "none" /\ ValueIn(L) \notin KnownGood
  /\ L.st \in {"ask", "read"} /\ ValueIn(L) \in KnownGood =>
       \A j \in 1 .. Len(L.outcomes) : L.outcomes[j].status = "skipped"
  /\ \A n \in 1 .. Len(L.rows) : RowFine(L.rows[n], L.lines[n], Len(L.panel))

\* The outcome at j is a verdict w.
Shows(outcomes, j, w) ==
  /\ j \in 1 .. Len(outcomes) /\ w \in ToldVerdicts
  /\ outcomes[j].status \in {"fetched", "cached"} /\ outcomes[j].verdict = w

\* ... and, if it repeats a verdict w, comes from the cache.
Repeats(outcomes, j, w) ==
  j \in 1 .. Len(outcomes) => outcomes[j].status = "cached" /\ outcomes[j].verdict = w

Kept(H, A, p, v, w) ==
  /\ v \in H /\ <<p, v>> \in Supported /\ v \notin KnownGood
  /\ A[v][p].st = "fresh" /\ A[v][p].verdict = w

RowsKept(L, H, A) ==
  \A n \in 1 .. Len(L.rows), j \in 1 .. Len(L.panel), w \in ToldVerdicts :
    Shows(L.rows[n].outcomes, j, w) => Kept(H, A, L.panel[j], ValueOf[L.rows[n].line], w)

RowsRepeat(L) ==
  \A m, n \in 1 .. Len(L.rows) :
    m < n /\ ValueOf[L.rows[m].line] = ValueOf[L.rows[n].line] =>
      \A j \in 1 .. Len(L.panel), w \in ToldVerdicts :
        Shows(L.rows[m].outcomes, j, w) => Repeats(L.rows[n].outcomes, j, w)

\* The line that is being asked about.
LineKept(L, H, A) ==
  L.st \in {"ask", "read"} =>
    \A j \in 1 .. Len(L.panel), w \in ToldVerdicts :
      /\ Shows(L.outcomes, j, w) => Kept(H, A, L.panel[j], ValueIn(L), w)
      /\ \A m \in 1 .. Len(L.rows) :
           ValueOf[L.rows[m].line] = ValueIn(L) /\ Shows(L.rows[m].outcomes, j, w) =>
             Repeats(L.outcomes, j, w)

\* The provider that has just answered.
AnswerKept(L, H, A) ==
  L.st = "read" =>
    LET p == L.panel[Len(L.outcomes) + 1] IN
    /\ ValueIn(L) \in H /\ <<p, ValueIn(L)>> \in Supported /\ A[ValueIn(L)][p].st = "fresh"
    /\ IF L.status = "fetched"
       THEN L.told \in ToldVerdicts /\ A[ValueIn(L)][p].verdict = L.told
       ELSE L.told = "null"
    /\ \A m \in 1 .. Len(L.rows), w \in ToldVerdicts :
         ValueOf[L.rows[m].line] = ValueIn(L) /\ Shows(L.rows[m].outcomes, Len(L.outcomes) + 1, w)
           => L.status = "cached"

CalmFine(L, H, A) ==
  L.calm => RowsKept(L, H, A) /\ RowsRepeat(L) /\ LineKept(L, H, A) /\ AnswerKept(L, H, A)

LookupsTypeOK ==
  /\ lookup \in LookupState
  /\ held \subseteq LookupValues
  /\ answers \in [LookupValues -> [Panel -> AnswerRow]]

LookupsSafe ==
  LookupsTypeOK /\ LookupFine(lookup) /\ CalmFine(lookup, held, answers)

LEMMA AppendFacts ==
  ASSUME NEW S, NEW s \in Seq(S), NEW e \in S
  PROVE  /\ Append(s, e) \in Seq(S) /\ Len(Append(s, e)) = Len(s) + 1
         /\ Append(s, e)[Len(s) + 1] = e
         /\ \A i \in 1 .. Len(s) : Append(s, e)[i] = s[i]
OBVIOUS

LEMMA LinesTyped ==
  ASSUME NEW lines \in Inputs
  PROVE  Capped(Distinct(lines)) \in Seq(DOMAIN ValueOf)
<1>1. lines \in Seq(DOMAIN ValueOf)
  BY BulkAssumption
<1>. PICK P \in SUBSET (1 .. Len(lines)) :
            P = {k \in 1 .. Len(lines) : \A j \in 1 .. k - 1 : lines[j] # lines[k]}
  OBVIOUS
<1>2. Len(lines) \in Nat
  BY <1>1
<1>. PICK N \in Nat : N = Cardinality(P)
  BY <1>2, PlacesFinite
<1>. PICK distinct : distinct = Distinct(lines)
  OBVIOUS
<1>3. distinct \in Seq(DOMAIN ValueOf) /\ Len(distinct) = N
  BY <1>1, PartFits DEF Distinct
<1>4. SubSeq(distinct, 1, IF N > BulkMax THEN BulkMax ELSE N) \in Seq(DOMAIN ValueOf)
  <2>1. BulkMax \in Nat
    BY BulkAssumption
  <2>2. CASE N > BulkMax
    <3>1. SubSeq(distinct, 1, BulkMax) \in Seq(DOMAIN ValueOf)
      BY ONLY <1>3, <2>1, <2>2, N \in Nat
    <3>. QED
      BY <2>2, <3>1
  <2>3. CASE ~(N > BulkMax)
    <3>1. SubSeq(distinct, 1, N) \in Seq(DOMAIN ValueOf)
      BY ONLY <1>3, N \in Nat
    <3>. QED
      BY <2>3, <3>1
  <2>. QED
    BY <2>2, <2>3
<1>. QED
  BY <1>3, <1>4 DEF Capped

\* What is kept is still kept after the step.
KeptOn ==
  \A p \in Panel, v \in LookupValues, w \in ToldVerdicts :
    Kept(held, answers, p, v, w) => Kept(held', answers', p, v, w)

LEMMA LookupTyped ==
  ASSUME LookupsSafe
  PROVE  /\ lookup \in LookupState /\ lookup.k \in Nat \ {0}
         /\ lookup.lines \in Seq(DOMAIN ValueOf) /\ lookup.panel \in Seq(Panel)
         /\ lookup.outcomes \in Seq(Outcome) /\ lookup.rows \in Seq(LookupRow)
BY DEF LookupsSafe, LookupsTypeOK, LookupState

LEMMA SameRows ==
  ASSUME LookupsSafe, NEW L \in LookupState, L.rows = lookup.rows, L.panel = lookup.panel,
         L.lines = lookup.lines, L.k = lookup.k, L.calm => lookup.calm, L.calm => KeptOn
  PROVE  /\ Len(L.rows) = L.k - 1 /\ L.k <= Len(L.lines) + 1
         /\ \A n \in 1 .. Len(L.rows) : RowFine(L.rows[n], L.lines[n], Len(L.panel))
         /\ L.calm => RowsKept(L, held', answers') /\ RowsRepeat(L)
<1>1. /\ Len(L.rows) = L.k - 1 /\ L.k <= Len(L.lines) + 1
      /\ \A n \in 1 .. Len(L.rows) : RowFine(L.rows[n], L.lines[n], Len(L.panel))
  BY DEF LookupsSafe, LookupFine
<1>2. ASSUME L.calm PROVE RowsRepeat(L)
  BY <1>2 DEF LookupsSafe, CalmFine, RowsRepeat
<1>3. ASSUME L.calm PROVE RowsKept(L, held', answers')
  <2>. SUFFICES ASSUME NEW n \in 1 .. Len(L.rows), NEW j \in 1 .. Len(L.panel),
                       NEW w \in ToldVerdicts, Shows(L.rows[n].outcomes, j, w)
                PROVE  Kept(held', answers', L.panel[j], ValueOf[L.rows[n].line], w)
    BY DEF RowsKept
  <2>. PICK p, v : p = L.panel[j] /\ v = ValueOf[L.rows[n].line]
    OBVIOUS
  <2>1. Kept(held, answers, p, v, w)
    BY <1>3 DEF LookupsSafe, CalmFine, RowsKept
  <2>2. p \in Panel
    BY LookupTyped
  <2>3. v \in LookupValues
    BY <2>1 DEF Kept, LookupsSafe, LookupsTypeOK
  <2>. QED
    BY <1>3, <2>1, <2>2, <2>3 DEF KeptOn
<1>. QED
  BY <1>1, <1>2, <1>3

LEMMA RowAddedSafe ==
  ASSUME LookupsSafe, UNCHANGED <<held, answers>>, lookup.st \in {"line", "find", "ask"},
         lookup.k <= Len(lookup.lines), NEW status \in {"ok", "unrecognized", "not_stored"},
         NEW outcomes \in Seq(Outcome), lookup' = RowAdded(status, outcomes),
         status = "ok" => /\ lookup.st = "ask" /\ outcomes = lookup.outcomes
                          /\ Len(outcomes) = Len(lookup.panel),
         status # "ok" => outcomes = <<>>
  PROVE  LookupsSafe'
<1>. PICK L : L = lookup'
  OBVIOUS
<1>1. /\ lookup \in LookupState /\ lookup.k \in Nat \ {0}
      /\ lookup.lines \in Seq(DOMAIN ValueOf) /\ lookup.panel \in Seq(Panel)
      /\ lookup.rows \in Seq(LookupRow)
  BY LookupTyped
<1>2. KeptOn
  BY DEF KeptOn
<1>3. held' \subseteq LookupValues /\ answers' \in [LookupValues -> [Panel -> AnswerRow]]
  BY DEF LookupsSafe, LookupsTypeOK
<1>4. CASE lookup.single /\ status # "ok"
  <2>1. L = [lookup EXCEPT !.st = "failed"]
    BY <1>4 DEF RowAdded
  <2>2. /\ L \in LookupState /\ L.st = "failed" /\ L.rows = lookup.rows
        /\ L.panel = lookup.panel /\ L.lines = lookup.lines /\ L.k = lookup.k
        /\ L.calm = lookup.calm
    BY <1>1, <2>1 DEF LookupState
  <2>3. /\ Len(L.rows) = L.k - 1 /\ L.k <= Len(L.lines) + 1
        /\ \A n \in 1 .. Len(L.rows) : RowFine(L.rows[n], L.lines[n], Len(L.panel))
        /\ L.calm => RowsKept(L, held', answers') /\ RowsRepeat(L)
    BY <1>2, <2>2, SameRows
  <2>4. Len(L.panel) > 0
    BY <2>2 DEF LookupsSafe, LookupFine
  <2>5. LookupFine(L)
    BY <2>2, <2>3, <2>4 DEF LookupFine
  <2>6. CalmFine(L, held', answers')
    BY <2>2, <2>3 DEF CalmFine, LineKept, AnswerKept
  <2>. QED
    BY <1>3, <2>2, <2>5, <2>6 DEF LookupsSafe, LookupsTypeOK
<1>5. CASE ~lookup.single \/ status = "ok"
  <2>. PICK N \in Nat : N = Len(lookup.rows)
    BY <1>1
  <2>1. PICK row : row = [line |-> Line, status |-> status, outcomes |-> outcomes]
    OBVIOUS
  <2>2. row \in LookupRow /\ row.line = lookup.lines[lookup.k] /\ row.status = status
        /\ row.outcomes = outcomes
    BY <1>1, <2>1 DEF Line, LookupRow
  <2>3. L = [lookup EXCEPT !.rows = Append(lookup.rows, row), !.k = lookup.k + 1,
                           !.outcomes = <<>>, !.st = "line"]
    BY <1>1, <1>5, <2>1 DEF RowAdded, LookupState
  <2>4. /\ Append(lookup.rows, row) \in Seq(LookupRow) /\ Len(Append(lookup.rows, row)) = N + 1
        /\ Append(lookup.rows, row)[N + 1] = row
        /\ \A i \in 1 .. N : Append(lookup.rows, row)[i] = lookup.rows[i]
    BY <1>1, <2>2, AppendFacts
  <2>5. lookup.k + 1 \in Nat \ {0} /\ <<>> \in Seq(Outcome)
    BY <1>1
  <2>6. /\ L.rows = Append(lookup.rows, row) /\ L.k = lookup.k + 1 /\ L.outcomes = <<>>
        /\ L.st = "line" /\ L.panel = lookup.panel /\ L.lines = lookup.lines
        /\ L.calm = lookup.calm
    BY <1>1, <2>3 DEF LookupState
  <2>7. L \in LookupState
    <3>1. L = [lookup EXCEPT !.rows = L.rows, !.k = L.k, !.outcomes = <<>>, !.st = "line"]
      BY <2>3, <2>6
    <3>2. L.rows \in Seq(LookupRow) /\ L.k \in Nat \ {0}
      BY <2>4, <2>5, <2>6
    <3>. QED
      BY <1>1, <2>5, <3>1, <3>2 DEF LookupState
  <2>8. N = lookup.k - 1 /\ Len(L.panel) > 0
    BY <2>6 DEF LookupsSafe, LookupFine
  <2>9. Len(L.rows) = N + 1 /\ L.rows[N + 1] = row /\ \A i \in 1 .. N : L.rows[i] = lookup.rows[i]
    BY <2>4, <2>6
  <2>10. RowFine(row, L.lines[N + 1], Len(L.panel))
    <3>1. row.line = L.lines[N + 1]
      BY <1>1, <2>2, <2>6, <2>8
    <3>2. ValueIn(lookup) = ValueOf[L.lines[N + 1]]
      BY <2>2, <2>6, <3>1 DEF ValueIn
    <3>3. status = "ok" /\ ValueIn(lookup) \in KnownGood =>
            \A j \in 1 .. Len(outcomes) : outcomes[j].status = "skipped"
      BY DEF LookupsSafe, LookupFine
    <3>4. status # "ok" => Len(outcomes) = 0
      OBVIOUS
    <3>. QED
      BY <2>2, <2>6, <3>1, <3>2, <3>3, <3>4 DEF RowFine
  <2>11. \A n \in 1 .. N : RowFine(L.rows[n], L.lines[n], Len(L.panel))
    BY <2>6, <2>9 DEF LookupsSafe, LookupFine
  <2>12. LookupFine(L)
    <3>1. \A n \in 1 .. Len(L.rows) : RowFine(L.rows[n], L.lines[n], Len(L.panel))
      <4>1. \A n \in 1 .. Len(L.rows) : n = N + 1 \/ n \in 1 .. N
        BY <2>9
      <4>. QED
        BY <2>9, <2>10, <2>11, <4>1
    <3>2. Len(L.rows) = L.k - 1 /\ L.k <= Len(L.lines) + 1
      <4>1. L.k = lookup.k + 1 /\ L.lines = lookup.lines
        BY <2>6
      <4>2. lookup.k <= Len(lookup.lines) /\ lookup.k \in Nat /\ Len(lookup.lines) \in Nat
        BY <1>1
      <4>3. Len(L.rows) = N + 1 /\ N = lookup.k - 1
        BY <2>8, <2>9
      <4>. QED
        BY ONLY <4>1, <4>2, <4>3
    <3>. QED
      BY <2>6, <2>8, <3>1, <3>2 DEF LookupFine
  <2>13. ASSUME L.calm, NEW j \in 1 .. Len(L.panel), NEW w \in ToldVerdicts
         PROVE  /\ Shows(row.outcomes, j, w) =>
                     Kept(held', answers', L.panel[j], ValueOf[row.line], w)
                /\ \A m \in 1 .. N :
                     ValueOf[lookup.rows[m].line] = ValueOf[row.line]
                       /\ Shows(lookup.rows[m].outcomes, j, w) => Repeats(row.outcomes, j, w)
    <3>1. CASE status = "ok"
      <4>1. LineKept(lookup, held, answers)
        BY <2>6, <2>13 DEF LookupsSafe, CalmFine
      <4>2. ValueIn(lookup) = ValueOf[row.line]
        BY <2>2 DEF ValueIn
      <4>. QED
        BY <2>2, <2>6, <3>1, <4>1, <4>2 DEF LineKept
    <3>2. CASE status # "ok"
      BY <2>2, <3>2 DEF Shows, Repeats
    <3>. QED
      BY <3>1, <3>2
  <2>14. ASSUME L.calm PROVE RowsKept(L, held', answers')
    <3>1. RowsKept(lookup, held', answers')
      BY <2>6, <2>14 DEF LookupsSafe, CalmFine
    <3>2. ASSUME NEW n \in 1 .. N + 1, NEW j \in 1 .. Len(L.panel), NEW w \in ToldVerdicts,
                 Shows(L.rows[n].outcomes, j, w)
          PROVE  Kept(held', answers', L.panel[j], ValueOf[L.rows[n].line], w)
      <4>1. CASE n = N + 1
        BY <2>9, <2>13, <2>14, <3>2, <4>1
      <4>2. CASE n \in 1 .. N
        BY <2>6, <2>9, <3>1, <3>2, <4>2 DEF RowsKept
      <4>. QED
        BY <4>1, <4>2
    <3>. QED
      BY <2>9, <3>2 DEF RowsKept
  <2>15. ASSUME L.calm PROVE RowsRepeat(L)
    <3>1. RowsRepeat(lookup)
      BY <2>6, <2>15 DEF LookupsSafe, CalmFine
    <3>2. ASSUME NEW m \in 1 .. N + 1, NEW n \in 1 .. N + 1, m < n,
                 ValueOf[L.rows[m].line] = ValueOf[L.rows[n].line],
                 NEW j \in 1 .. Len(L.panel), NEW w \in ToldVerdicts,
                 Shows(L.rows[m].outcomes, j, w)
          PROVE  Repeats(L.rows[n].outcomes, j, w)
      <4>1. m \in 1 .. N
        BY <3>2
      <4>2. CASE n = N + 1
        BY <2>9, <2>13, <2>15, <3>2, <4>1, <4>2
      <4>3. CASE n \in 1 .. N
        <5>1. L.rows[m] = lookup.rows[m] /\ L.rows[n] = lookup.rows[n]
          BY <2>9, <4>1, <4>3
        <5>2. Shows(lookup.rows[m].outcomes, j, w) => Repeats(lookup.rows[n].outcomes, j, w)
          <6>1. /\ m < n /\ ValueOf[lookup.rows[m].line] = ValueOf[lookup.rows[n].line]
                /\ j \in 1 .. Len(lookup.panel)
            BY <2>6, <3>2, <5>1
          <6>. QED
            BY <3>1, <4>1, <4>3, <6>1 DEF RowsRepeat
        <5>. QED
          BY <3>2, <5>1, <5>2
      <4>4. n = N + 1 \/ n \in 1 .. N
        OBVIOUS
      <4>. QED
        BY <4>2, <4>3, <4>4
    <3>3. Len(L.rows) = N + 1
      BY <2>9
    <3>4. ASSUME NEW m \in 1 .. Len(L.rows), NEW n \in 1 .. Len(L.rows), m < n,
                 ValueOf[L.rows[m].line] = ValueOf[L.rows[n].line],
                 NEW j \in 1 .. Len(L.panel), NEW w \in ToldVerdicts,
                 Shows(L.rows[m].outcomes, j, w)
          PROVE  Repeats(L.rows[n].outcomes, j, w)
      BY <3>2, <3>3, <3>4
    <3>. QED
      BY ONLY <3>4 DEF RowsRepeat
  <2>16. CalmFine(L, held', answers')
    BY <2>6, <2>14, <2>15 DEF CalmFine, LineKept, AnswerKept
  <2>. QED
    BY <1>3, <2>7, <2>12, <2>16 DEF LookupsSafe, LookupsTypeOK
<1>. QED
  BY <1>4, <1>5

LEMMA SubmitKeeps ==
  ASSUME LookupsSafe, NEW lines \in Inputs, NEW panel \in Panels, NEW single \in BOOLEAN,
         SubmitLookup(lines, panel, single)
  PROVE  LookupsSafe'
<1>. PICK L : L = lookup'
  OBVIOUS
<1>. PICK taken \in Seq(DOMAIN ValueOf) : taken = Capped(Distinct(lines))
  BY LinesTyped
<1>. PICK cut \in BOOLEAN : cut = (Len(Distinct(lines)) > BulkMax)
  <2>1. CASE Len(Distinct(lines)) > BulkMax
    <3>1. TRUE = (Len(Distinct(lines)) > BulkMax)
      BY <2>1
    <3>. QED
      BY <3>1, Zenon
  <2>2. CASE ~(Len(Distinct(lines)) > BulkMax)
    <3>1. FALSE = (Len(Distinct(lines)) > BulkMax)
      BY <2>2
    <3>. QED
      BY <3>1, Zenon
  <2>. QED
    BY <2>1, <2>2
<1>1. panel \in Seq(Panel) /\ panel # <<>>
  BY BulkAssumption
<1>2. L = [NoLookup EXCEPT !.st = "line", !.single = single, !.lines = taken,
                           !.panel = panel, !.truncated = cut]
  BY DEF SubmitLookup
<1>3. /\ L.st = "line" /\ L.rows = <<>> /\ L.k = 1 /\ L.lines = taken /\ L.panel = panel
      /\ L.outcomes = <<>>
  BY <1>2 DEF NoLookup
<1>4. L \in LookupState
  <2>1. <<>> \in Seq(Outcome) /\ <<>> \in Seq(LookupRow) /\ 1 \in Nat \ {0}
    OBVIOUS
  <2>. QED
    BY <1>1, <1>2, <2>1 DEF NoLookup, LookupState
<1>5. Len(panel) > 0 /\ Len(taken) \in Nat
  BY <1>1
<1>6. LookupFine(L)
  BY <1>3, <1>5 DEF LookupFine
<1>7. CalmFine(L, held', answers')
  BY <1>3 DEF CalmFine, RowsKept, RowsRepeat, LineKept, AnswerKept
<1>8. held' = held /\ answers' = answers
  BY DEF SubmitLookup
<1>. QED
  BY <1>4, <1>6, <1>7, <1>8 DEF LookupsSafe, LookupsTypeOK

LEMMA NextLineKeeps ==
  ASSUME LookupsSafe, NextLine
  PROVE  LookupsSafe'
<1>. PICK L : L = lookup'
  OBVIOUS
<1>1. /\ lookup \in LookupState /\ lookup.st = "line" /\ lookup.k <= Len(lookup.lines)
      /\ answers' = answers
  BY LookupTyped DEF NextLine
<1>2. CASE Value = Unrecognized
  <2>1. lookup' = RowAdded("unrecognized", <<>>) /\ held' = held
    BY <1>2 DEF NextLine
  <2>2. PICK status \in {"ok", "unrecognized", "not_stored"} : status = "unrecognized"
    OBVIOUS
  <2>3. PICK outcomes \in Seq(Outcome) : outcomes = <<>>
    <3>1. <<>> \in Seq(Outcome)
      OBVIOUS
    <3>. QED
      BY <3>1, Zenon
  <2>4. lookup' = RowAdded(status, outcomes)
    BY <2>1, <2>2, <2>3
  <2>5. status # "ok"
    BY <2>2
  <2>. QED
    BY <1>1, <2>1, <2>3, <2>4, <2>5, RowAddedSafe
<1>3. CASE Value # Unrecognized
  <2>1. /\ L = [lookup EXCEPT !.st = "find"]
        /\ held' = IF Line \in TornLines THEN held ELSE held \cup {Value}
    BY <1>3 DEF NextLine
  <2>2. Value \in LookupValues
    <3>1. lookup.lines[lookup.k] \in DOMAIN ValueOf
      BY <1>1, LookupTyped
    <3>. QED
      BY <1>3, <3>1 DEF Value, Line, LookupValues
  <2>3. held' \subseteq LookupValues /\ held \subseteq held'
    BY <2>1, <2>2 DEF LookupsSafe, LookupsTypeOK
  <2>4. /\ L \in LookupState /\ L.st = "find" /\ L.rows = lookup.rows
        /\ L.panel = lookup.panel /\ L.lines = lookup.lines /\ L.k = lookup.k
        /\ L.calm = lookup.calm /\ L.outcomes = lookup.outcomes
    BY <1>1, <2>1 DEF LookupState
  <2>5. KeptOn
    BY <1>1, <2>3 DEF KeptOn, Kept
  <2>6. /\ Len(L.rows) = L.k - 1 /\ L.k <= Len(L.lines) + 1
        /\ \A n \in 1 .. Len(L.rows) : RowFine(L.rows[n], L.lines[n], Len(L.panel))
        /\ L.calm => RowsKept(L, held', answers') /\ RowsRepeat(L)
    BY <2>4, <2>5, SameRows
  <2>7. ValueIn(L) = Value
    BY <2>4 DEF ValueIn, Value, Line
  <2>8. LookupFine(L)
    <3>1. Len(L.panel) > 0 /\ L.outcomes = <<>>
      BY <1>1, <2>4 DEF LookupsSafe, LookupFine
    <3>. QED
      BY <1>1, <2>2, <2>4, <2>6, <2>7, <3>1 DEF LookupFine
  <2>9. CalmFine(L, held', answers')
    BY <2>4, <2>6 DEF CalmFine, LineKept, AnswerKept
  <2>. QED
    BY <1>1, <2>3, <2>4, <2>8, <2>9 DEF LookupsSafe, LookupsTypeOK
<1>. QED
  BY <1>2, <1>3

LEMMA FindIndicatorKeeps ==
  ASSUME LookupsSafe, FindIndicator
  PROVE  LookupsSafe'
<1>. PICK L : L = lookup'
  OBVIOUS
<1>1. /\ lookup \in LookupState /\ lookup.st = "find" /\ lookup.k <= Len(lookup.lines)
      /\ answers' = answers /\ held' = held
  BY LookupTyped DEF FindIndicator, LookupsSafe, LookupFine
<1>2. CASE Value \notin held
  <2>1. lookup' = RowAdded("not_stored", <<>>)
    BY <1>2 DEF FindIndicator
  <2>2. PICK status \in {"ok", "unrecognized", "not_stored"} : status = "not_stored"
    OBVIOUS
  <2>3. PICK outcomes \in Seq(Outcome) : outcomes = <<>>
    <3>1. <<>> \in Seq(Outcome)
      OBVIOUS
    <3>. QED
      BY <3>1, Zenon
  <2>4. lookup' = RowAdded(status, outcomes)
    BY <2>1, <2>2, <2>3
  <2>5. status # "ok"
    BY <2>2
  <2>. QED
    BY <1>1, <2>3, <2>4, <2>5, RowAddedSafe
<1>3. CASE Value \in held
  <2>1. L = [lookup EXCEPT !.st = "ask"]
    BY <1>3 DEF FindIndicator
  <2>2. /\ L \in LookupState /\ L.st = "ask" /\ L.rows = lookup.rows
        /\ L.panel = lookup.panel /\ L.lines = lookup.lines /\ L.k = lookup.k
        /\ L.calm = lookup.calm /\ L.outcomes = <<>>
    <3>1. lookup.outcomes = <<>>
      BY <1>1 DEF LookupsSafe, LookupFine
    <3>. QED
      BY <1>1, <2>1, <3>1 DEF LookupState
  <2>3. KeptOn
    BY <1>1 DEF KeptOn
  <2>4. /\ Len(L.rows) = L.k - 1 /\ L.k <= Len(L.lines) + 1
        /\ \A n \in 1 .. Len(L.rows) : RowFine(L.rows[n], L.lines[n], Len(L.panel))
        /\ L.calm => RowsKept(L, held', answers') /\ RowsRepeat(L)
    BY <2>2, <2>3, SameRows
  <2>5. LookupFine(L)
    <3>1. Len(L.panel) > 0 /\ Len(L.outcomes) = 0
      BY <1>1, <2>2 DEF LookupsSafe, LookupFine
    <3>2. ValueIn(L) \in LookupValues
      BY <1>1, <2>2 DEF LookupsSafe, LookupFine, ValueIn
    <3>. QED
      BY <1>1, <2>2, <2>4, <3>1, <3>2 DEF LookupFine
  <2>6. CalmFine(L, held', answers')
    <3>1. LineKept(L, held', answers')
      BY <2>2 DEF LineKept, Shows, Repeats
    <3>. QED
      BY <2>2, <2>4, <3>1 DEF CalmFine, AnswerKept
  <2>. QED
    BY <1>1, <2>2, <2>5, <2>6 DEF LookupsSafe, LookupsTypeOK
<1>. QED
  BY <1>2, <1>3

LEMMA EndLineKeeps ==
  ASSUME LookupsSafe, EndLine
  PROVE  LookupsSafe'
<1>1. /\ lookup.st = "ask" /\ lookup' = RowAdded("ok", lookup.outcomes)
      /\ UNCHANGED <<held, answers>>
  BY DEF EndLine
<1>2. lookup.k <= Len(lookup.lines)
  BY <1>1 DEF LookupsSafe, LookupFine
<1>3. PICK outcomes \in Seq(Outcome) : outcomes = lookup.outcomes
  BY LookupTyped
<1>4. PICK status \in {"ok", "unrecognized", "not_stored"} : status = "ok"
  OBVIOUS
<1>5. lookup' = RowAdded(status, outcomes)
  BY <1>1, <1>3, <1>4
<1>6. Len(outcomes) = Len(lookup.panel)
  BY <1>3 DEF EndLine, AllAsked
<1>7. status = "ok" => /\ lookup.st = "ask" /\ outcomes = lookup.outcomes
                       /\ Len(outcomes) = Len(lookup.panel)
  BY <1>1, <1>3, <1>6
<1>8. status # "ok" => outcomes = <<>>
  BY <1>4
<1>. QED
  BY <1>1, <1>2, <1>5, <1>7, <1>8, RowAddedSafe

LEMMA OutcomeAdded ==
  ASSUME LookupsSafe, lookup.st \in {"ask", "read"}, Len(lookup.outcomes) < Len(lookup.panel),
         NEW o \in Outcome, NEW L \in LookupState, L = lookup', L.st = "ask",
         L.outcomes = Append(lookup.outcomes, o), L.rows = lookup.rows, L.panel = lookup.panel,
         L.lines = lookup.lines, L.k = lookup.k, L.calm = lookup.calm,
         held' \subseteq LookupValues, answers' \in [LookupValues -> [Panel -> AnswerRow]],
         ValueIn(lookup) \in KnownGood => o.status = "skipped", L.calm => KeptOn,
         NEW p \in Panel, p = lookup.panel[Len(lookup.outcomes) + 1],
         L.calm /\ o.status \in {"fetched", "cached"} /\ o.verdict \in ToldVerdicts =>
           Kept(held', answers', p, ValueIn(lookup), o.verdict),
         L.calm => \A m \in 1 .. Len(lookup.rows), w \in ToldVerdicts :
           ValueOf[lookup.rows[m].line] = ValueIn(lookup)
             /\ Shows(lookup.rows[m].outcomes, Len(lookup.outcomes) + 1, w) =>
               o.status = "cached" /\ o.verdict = w
  PROVE  LookupsSafe'
<1>. PICK a \in Nat : a = Len(lookup.outcomes)
  BY LookupTyped
<1>. PICK v : v = ValueIn(lookup)
  OBVIOUS
<1>1. /\ Len(L.outcomes) = a + 1 /\ L.outcomes[a + 1] = o
      /\ \A j \in 1 .. a : L.outcomes[j] = lookup.outcomes[j]
  BY LookupTyped, AppendFacts
<1>2. ValueIn(L) = v
  BY DEF ValueIn
<1>3. /\ Len(L.rows) = L.k - 1 /\ L.k <= Len(L.lines) + 1
      /\ \A n \in 1 .. Len(L.rows) : RowFine(L.rows[n], L.lines[n], Len(L.panel))
      /\ L.calm => RowsKept(L, held', answers') /\ RowsRepeat(L)
  BY SameRows
<1>4. LookupFine(L)
  <2>1. Len(L.panel) > 0 /\ L.k <= Len(L.lines) /\ v \in LookupValues
    BY DEF LookupsSafe, LookupFine
  <2>2. Len(L.outcomes) <= Len(L.panel)
    <3>1. Len(L.panel) \in Nat
      BY LookupTyped
    <3>. QED
      BY <1>1, <3>1
  <2>3. ASSUME v \in KnownGood, NEW j \in 1 .. a + 1 PROVE L.outcomes[j].status = "skipped"
    <3>1. CASE j = a + 1
      BY <1>1, <2>3, <3>1
    <3>2. CASE j \in 1 .. a
      BY <1>1, <2>3, <3>2 DEF LookupsSafe, LookupFine
    <3>3. j = a + 1 \/ j \in 1 .. a
      OBVIOUS
    <3>. QED
      BY <3>1, <3>2, <3>3
  <2>. QED
    BY <1>1, <1>2, <1>3, <2>1, <2>2, <2>3 DEF LookupFine
<1>5. ASSUME L.calm, NEW j \in 1 .. Len(L.panel), NEW w \in ToldVerdicts,
             Shows(L.outcomes, j, w)
      PROVE  Kept(held', answers', L.panel[j], v, w)
  <2>1. CASE j = a + 1
    <3>1. o.status \in {"fetched", "cached"} /\ o.verdict = w
      BY <1>1, <1>5, <2>1 DEF Shows
    <3>2. L.panel[j] = p
      BY <2>1
    <3>. QED
      BY <1>5, <3>1, <3>2
  <2>2. CASE j \in 1 .. a
    <3>1. Shows(lookup.outcomes, j, w)
      BY <1>1, <1>5, <2>2 DEF Shows
    <3>2. LineKept(lookup, held, answers)
      BY <1>5 DEF LookupsSafe, CalmFine
    <3>. PICK q : q = L.panel[j]
      OBVIOUS
    <3>3. Kept(held, answers, q, v, w)
      BY <3>1, <3>2 DEF LineKept
    <3>4. q \in Panel /\ v \in LookupValues
      BY LookupTyped DEF LookupsSafe, LookupFine
    <3>5. Kept(held', answers', q, v, w)
      BY <1>5, <3>3, <3>4 DEF KeptOn
    <3>. QED
      BY <3>5
  <2>3. j = a + 1 \/ j \in 1 .. a
    BY <1>1, <1>5 DEF Shows
  <2>. QED
    BY <2>1, <2>2, <2>3
<1>6. ASSUME L.calm, NEW j \in 1 .. Len(L.panel), NEW w \in ToldVerdicts,
             NEW m \in 1 .. Len(L.rows), ValueOf[L.rows[m].line] = v,
             Shows(L.rows[m].outcomes, j, w)
      PROVE  Repeats(L.outcomes, j, w)
  <2>. SUFFICES ASSUME j \in 1 .. a + 1
                PROVE  L.outcomes[j].status = "cached" /\ L.outcomes[j].verdict = w
    BY <1>1 DEF Repeats
  <2>1. CASE j = a + 1
    BY <1>1, <1>6, <2>1
  <2>2. CASE j \in 1 .. a
    <3>1. LineKept(lookup, held, answers)
      BY <1>6 DEF LookupsSafe, CalmFine
    <3>2. Repeats(lookup.outcomes, j, w)
      BY <1>6, <3>1 DEF LineKept
    <3>. QED
      BY <1>1, <2>2, <3>2 DEF Repeats
  <2>3. j = a + 1 \/ j \in 1 .. a
    OBVIOUS
  <2>. QED
    BY <2>1, <2>2, <2>3
<1>7. CalmFine(L, held', answers')
  <2>1. ASSUME L.calm PROVE LineKept(L, held', answers')
    BY <1>2, <1>5, <1>6, <2>1 DEF LineKept
  <2>. QED
    BY <1>3, <2>1 DEF CalmFine, AnswerKept
<1>. QED
  BY <1>4, <1>7 DEF LookupsSafe, LookupsTypeOK

LEMMA AskKeeps ==
  ASSUME LookupsSafe, AskProvider
  PROVE  LookupsSafe'
<1>. PICK L : L = lookup'
  OBVIOUS
<1>. PICK a \in Nat : a = Len(lookup.outcomes)
  BY LookupTyped
<1>. PICK p : p = Provider
  OBVIOUS
<1>. PICK v : v = Value
  OBVIOUS
<1>1. PICK status \in StatusesOf(v, p), verdict \in {"MALICIOUS", "BENIGN"} :
        /\ answers' = StoredAs(v, p, status, verdict)
        /\ L = IF status \in {"fetched", "cached"}
               THEN [lookup EXCEPT !.st = "read", !.status = status,
                                   !.told = IF status = "fetched" THEN verdict ELSE "null"]
               ELSE [lookup EXCEPT
                      !.outcomes = Append(@, [status |-> status, verdict |-> "null"])]
  BY DEF AskProvider
<1>2. lookup.st = "ask" /\ lookup \in LookupState /\ held' = held
  BY LookupTyped DEF AskProvider
<1>3. a < Len(lookup.panel) /\ p \in Panel /\ p = lookup.panel[a + 1]
  <2>1. a <= Len(lookup.panel) /\ a # Len(lookup.panel) /\ Len(lookup.panel) \in Nat
    BY <1>2, LookupTyped DEF LookupsSafe, LookupFine, AskProvider, AllAsked
  <2>2. a + 1 \in 1 .. Len(lookup.panel)
    BY <2>1
  <2>. QED
    BY <2>1, <2>2, LookupTyped DEF Provider
<1>4. v \in LookupValues /\ v = ValueIn(lookup) /\ lookup.k <= Len(lookup.lines)
  BY <1>2 DEF LookupsSafe, LookupFine, ValueIn, Value, Line
<1>5. answers \in [LookupValues -> [Panel -> AnswerRow]] /\ held \subseteq LookupValues
  BY DEF LookupsSafe, LookupsTypeOK
<1>6. status \in {"skipped", "rate_limited", "error", "fetched", "cached"}
  BY <1>1 DEF StatusesOf
<1>7. PICK row \in AnswerRow :
        /\ answers' = IF status \in {"fetched", "error"} THEN [answers EXCEPT ![v][p] = row]
                      ELSE answers
        /\ row.st = "fresh" /\ (status = "fetched" => row.verdict = verdict)
  <2>1. answers[v][p] \in AnswerRow
    BY <1>3, <1>4, <1>5
  <2>2. [st |-> "fresh", verdict |-> IF status = "fetched" THEN verdict
                                     ELSE answers[v][p].verdict] \in AnswerRow
    BY <2>1 DEF AnswerRow, ToldVerdicts
  <2>3. answers' = IF status \in {"fetched", "error"}
                   THEN [answers EXCEPT ![v][p] =
                          [st |-> "fresh", verdict |-> IF status = "fetched" THEN verdict
                                                       ELSE answers[v][p].verdict]]
                   ELSE answers
    BY <1>1, <1>3, <1>4, <1>5 DEF StoredAs
  <2>. QED
    BY <2>2, <2>3
<1>8. answers' \in [LookupValues -> [Panel -> AnswerRow]]
  BY <1>3, <1>4, <1>5, <1>7
<1>9. \A q \in Panel, u \in LookupValues : q # p \/ u # v => answers'[u][q] = answers[u][q]
  BY <1>3, <1>4, <1>5, <1>7
<1>10. ASSUME NEW w \in ToldVerdicts, Kept(held, answers, p, v, w)
       PROVE  status = "cached" /\ answers' = answers
  BY <1>1, <1>7, <1>10 DEF Kept, StatusesOf
<1>11. KeptOn
  BY <1>2, <1>9, <1>10 DEF KeptOn, Kept
<1>12. ASSUME lookup.calm, NEW m \in 1 .. Len(lookup.rows), NEW w \in ToldVerdicts,
              ValueOf[lookup.rows[m].line] = v, Shows(lookup.rows[m].outcomes, a + 1, w)
       PROVE  status = "cached"
  <2>1. a + 1 \in 1 .. Len(lookup.panel)
    <3>1. Len(lookup.panel) \in Nat
      BY LookupTyped
    <3>. QED
      BY <1>3, <3>1
  <2>2. Kept(held, answers, lookup.panel[a + 1], ValueOf[lookup.rows[m].line], w)
    BY <1>12, <2>1 DEF LookupsSafe, CalmFine, RowsKept
  <2>3. Kept(held, answers, p, v, w)
    BY <1>3, <1>12, <2>2
  <2>. QED
    BY <1>10, <2>3
<1>13. CASE status \in {"fetched", "cached"}
  <2>. PICK told \in {"null"} \cup ToldVerdicts :
         told = IF status = "fetched" THEN verdict ELSE "null"
    BY DEF ToldVerdicts
  <2>1. L = [lookup EXCEPT !.st = "read", !.status = status, !.told = told]
    BY <1>1, <1>13
  <2>2. /\ L \in LookupState /\ L.st = "read" /\ L.status = status /\ L.told = told
        /\ L.rows = lookup.rows /\ L.panel = lookup.panel /\ L.lines = lookup.lines
        /\ L.k = lookup.k /\ L.calm = lookup.calm /\ L.outcomes = lookup.outcomes
    BY <1>2, <1>13, <2>1 DEF LookupState
  <2>3. /\ Len(L.rows) = L.k - 1 /\ L.k <= Len(L.lines) + 1
        /\ \A n \in 1 .. Len(L.rows) : RowFine(L.rows[n], L.lines[n], Len(L.panel))
        /\ L.calm => RowsKept(L, held', answers') /\ RowsRepeat(L)
    BY <1>11, <2>2, SameRows
  <2>4. v \in held /\ <<p, v>> \in Supported /\ v \notin KnownGood
    BY <1>1, <1>13 DEF StatusesOf
  <2>5. ValueIn(L) = v
    BY <1>4, <2>2 DEF ValueIn
  <2>6. LookupFine(L)
    <3>1. Len(L.panel) > 0 /\ L.status # "none" /\ Len(L.outcomes) < Len(L.panel)
      BY <1>3, <1>13, <2>2 DEF LookupsSafe, LookupFine
    <3>. QED
      BY <1>4, <2>2, <2>3, <2>4, <2>5, <3>1 DEF LookupFine
  <2>7. ASSUME L.calm PROVE LineKept(L, held', answers')
    <3>1. LineKept(lookup, held, answers)
      BY <2>2, <2>7 DEF LookupsSafe, CalmFine
    <3>2. ASSUME NEW j \in 1 .. Len(L.panel), NEW w \in ToldVerdicts, Shows(L.outcomes, j, w)
          PROVE  Kept(held', answers', L.panel[j], v, w)
      <4>. PICK q : q = L.panel[j]
        OBVIOUS
      <4>1. Kept(held, answers, q, v, w)
        BY <1>2, <1>4, <2>2, <3>1, <3>2 DEF LineKept
      <4>2. q \in Panel
        BY <2>2, LookupTyped
      <4>3. Kept(held', answers', q, v, w)
        BY <1>4, <1>11, <4>1, <4>2 DEF KeptOn
      <4>. QED
        BY <4>3
    <3>3. ASSUME NEW j \in 1 .. Len(L.panel), NEW w \in ToldVerdicts,
                 NEW m \in 1 .. Len(L.rows), ValueOf[L.rows[m].line] = v,
                 Shows(L.rows[m].outcomes, j, w)
          PROVE  Repeats(L.outcomes, j, w)
      BY <1>2, <1>4, <2>2, <3>1, <3>3 DEF LineKept
    <3>. QED
      BY <2>5, <3>2, <3>3 DEF LineKept
  <2>8. ASSUME L.calm PROVE AnswerKept(L, held', answers')
    <3>1. answers'[v][p].st = "fresh"
      BY <1>1, <1>3, <1>4, <1>5, <1>7, <1>13, <2>4 DEF StatusesOf
    <3>2. status = "fetched" => told \in ToldVerdicts /\ answers'[v][p].verdict = told
      BY <1>3, <1>4, <1>5, <1>7 DEF ToldVerdicts
    <3>3. \A m \in 1 .. Len(L.rows), w \in ToldVerdicts :
            ValueOf[L.rows[m].line] = v /\ Shows(L.rows[m].outcomes, Len(L.outcomes) + 1, w)
              => L.status = "cached"
      BY <1>12, <2>2, <2>8
    <3>4. L.panel[Len(L.outcomes) + 1] = p
      BY <1>3, <2>2
    <3>. QED
      BY <1>2, <2>2, <2>4, <2>5, <3>1, <3>2, <3>3, <3>4 DEF AnswerKept
  <2>9. CalmFine(L, held', answers')
    BY <2>3, <2>7, <2>8 DEF CalmFine
  <2>. QED
    BY <1>2, <1>5, <1>8, <2>2, <2>6, <2>9 DEF LookupsSafe, LookupsTypeOK
<1>14. CASE status \notin {"fetched", "cached"}
  <2>. PICK o : o = [status |-> status, verdict |-> "null"]
    OBVIOUS
  <2>1. o \in Outcome /\ o.status = status /\ o.verdict = "null"
    BY <1>6 DEF Outcome
  <2>2. L = [lookup EXCEPT !.outcomes = Append(lookup.outcomes, o)]
    BY <1>1, <1>2, <1>14 DEF LookupState
  <2>3. Append(lookup.outcomes, o) \in Seq(Outcome)
    BY <2>1, LookupTyped, AppendFacts
  <2>4. /\ L \in LookupState /\ L.st = "ask" /\ L.outcomes = Append(lookup.outcomes, o)
        /\ L.rows = lookup.rows /\ L.panel = lookup.panel /\ L.lines = lookup.lines
        /\ L.k = lookup.k /\ L.calm = lookup.calm
    BY <1>2, <2>2, <2>3 DEF LookupState
  <2>5. ValueIn(lookup) \in KnownGood => o.status = "skipped"
    BY <1>1, <1>4, <2>1 DEF StatusesOf
  <2>6. ~(o.status \in {"fetched", "cached"})
    BY <1>14, <2>1
  <2>7. L.calm => \A m \in 1 .. Len(lookup.rows), w \in ToldVerdicts :
          ValueOf[lookup.rows[m].line] = ValueIn(lookup)
            /\ Shows(lookup.rows[m].outcomes, Len(lookup.outcomes) + 1, w) =>
              o.status = "cached" /\ o.verdict = w
    BY <1>4, <1>12, <1>14, <2>4
  <2>8. held' \subseteq LookupValues /\ lookup.st \in {"ask", "read"}
    BY <1>2, <1>5
  <2>9. Len(lookup.outcomes) < Len(lookup.panel) /\ p = lookup.panel[Len(lookup.outcomes) + 1]
    BY <1>3
  <2>. QED
    BY <1>3, <1>8, <1>11, <2>1, <2>4, <2>5, <2>6, <2>7, <2>8, <2>9, OutcomeAdded
<1>. QED
  BY <1>13, <1>14

LEMMA ReadBackKeeps ==
  ASSUME LookupsSafe, ReadBack
  PROVE  LookupsSafe'
<1>. PICK L : L = lookup'
  OBVIOUS
<1>. PICK a \in Nat : a = Len(lookup.outcomes)
  BY LookupTyped
<1>. PICK p : p = Provider
  OBVIOUS
<1>. PICK v : v = Value
  OBVIOUS
<1>1. /\ lookup.st = "read" /\ lookup \in LookupState /\ held' = held /\ answers' = answers
      /\ L = [lookup EXCEPT
            !.st = "ask", !.told = "null",
            !.outcomes = Append(@, [status |-> lookup.status,
                                    verdict |-> ShownVerdict(answers[v][p])])]
  BY LookupTyped DEF ReadBack
<1>2. a < Len(lookup.panel) /\ p \in Panel /\ p = lookup.panel[a + 1]
  <2>1. a < Len(lookup.panel) /\ Len(lookup.panel) \in Nat
    BY <1>1, LookupTyped DEF LookupsSafe, LookupFine
  <2>2. a + 1 \in 1 .. Len(lookup.panel)
    BY <2>1
  <2>. QED
    BY <2>1, <2>2, LookupTyped DEF Provider
<1>3. /\ v \in LookupValues /\ v = ValueIn(lookup) /\ v \notin KnownGood
      /\ lookup.status \in {"fetched", "cached"}
  BY <1>1 DEF LookupsSafe, LookupFine, ValueIn, Value, Line, LookupState
<1>4. answers \in [LookupValues -> [Panel -> AnswerRow]] /\ held \subseteq LookupValues
  BY DEF LookupsSafe, LookupsTypeOK
<1>5. PICK shown \in {"null"} \cup ToldVerdicts : shown = ShownVerdict(answers[v][p])
  <2>1. answers[v][p].verdict \in {"null"} \cup ToldVerdicts
    BY <1>2, <1>3, <1>4 DEF AnswerRow
  <2>2. lookup.told \in {"null"} \cup ToldVerdicts
    BY <1>1 DEF LookupState
  <2>. QED
    BY <2>1, <2>2 DEF ShownVerdict
<1>6. ASSUME lookup.calm
      PROVE  /\ v \in held /\ <<p, v>> \in Supported /\ answers[v][p].st = "fresh"
             /\ answers[v][p].verdict = shown
  <2>1. AnswerKept(lookup, held, answers)
    BY <1>6 DEF LookupsSafe, CalmFine
  <2>2. /\ v \in held /\ <<p, v>> \in Supported /\ answers[v][p].st = "fresh"
        /\ IF lookup.status = "fetched"
           THEN lookup.told \in ToldVerdicts /\ answers[v][p].verdict = lookup.told
           ELSE lookup.told = "null"
    BY <1>1, <1>2, <1>3, <2>1 DEF AnswerKept
  <2>3. answers[v][p].verdict = shown
    BY <1>5, <2>2 DEF ShownVerdict, ToldVerdicts
  <2>. QED
    BY <2>2, <2>3
<1>. PICK o : o = [status |-> lookup.status, verdict |-> shown]
  OBVIOUS
<1>7. o \in Outcome /\ o.status = lookup.status /\ o.verdict = shown
  BY <1>3 DEF Outcome
<1>8. L = [lookup EXCEPT !.st = "ask", !.told = "null", !.outcomes = Append(lookup.outcomes, o)]
  BY <1>1, <1>5 DEF LookupState
<1>9. Append(lookup.outcomes, o) \in Seq(Outcome)
  BY <1>7, LookupTyped, AppendFacts
<1>10. /\ L \in LookupState /\ L.st = "ask" /\ L.outcomes = Append(lookup.outcomes, o)
       /\ L.rows = lookup.rows /\ L.panel = lookup.panel /\ L.lines = lookup.lines
       /\ L.k = lookup.k /\ L.calm = lookup.calm
  BY <1>1, <1>8, <1>9 DEF LookupState
<1>11. KeptOn
  BY <1>1 DEF KeptOn
<1>12. L.calm /\ o.status \in {"fetched", "cached"} /\ o.verdict \in ToldVerdicts =>
         Kept(held', answers', p, ValueIn(lookup), o.verdict)
  BY <1>1, <1>3, <1>6, <1>7, <1>10 DEF Kept
<1>13. ASSUME L.calm, NEW m \in 1 .. Len(lookup.rows), NEW w \in ToldVerdicts,
              ValueOf[lookup.rows[m].line] = ValueIn(lookup),
              Shows(lookup.rows[m].outcomes, Len(lookup.outcomes) + 1, w)
       PROVE  o.status = "cached" /\ o.verdict = w
  <2>1. a + 1 \in 1 .. Len(lookup.panel)
    <3>1. Len(lookup.panel) \in Nat
      BY LookupTyped
    <3>. QED
      BY <1>2, <3>1
  <2>2. Kept(held, answers, lookup.panel[a + 1], ValueOf[lookup.rows[m].line], w)
    BY <1>10, <1>13, <2>1 DEF LookupsSafe, CalmFine, RowsKept
  <2>3. answers[v][p].verdict = w
    BY <1>2, <1>3, <1>13, <2>2 DEF Kept
  <2>4. lookup.status = "cached"
    <3>1. AnswerKept(lookup, held, answers)
      BY <1>10, <1>13 DEF LookupsSafe, CalmFine
    <3>. QED
      BY <1>1, <1>13, <3>1 DEF AnswerKept
  <2>. QED
    BY <1>6, <1>7, <1>10, <1>13, <2>3, <2>4
<1>14. /\ held' \subseteq LookupValues /\ answers' \in [LookupValues -> [Panel -> AnswerRow]]
       /\ lookup.st \in {"ask", "read"} /\ Len(lookup.outcomes) < Len(lookup.panel)
       /\ p = lookup.panel[Len(lookup.outcomes) + 1]
       /\ ValueIn(lookup) \in KnownGood => o.status = "skipped"
  BY <1>1, <1>2, <1>3, <1>4
<1>. QED
  BY <1>2, <1>7, <1>10, <1>11, <1>12, <1>13, <1>14, OutcomeAdded

\* A lookup that ends, well or not, keeps its rows.
LEMMA LookupEndKeeps ==
  ASSUME LookupsSafe, UNCHANGED <<held, answers>>, NEW st \in {"done", "failed"},
         lookup' = [lookup EXCEPT !.st = st], lookup.st # "idle",
         st = "done" => lookup.k > Len(lookup.lines)
  PROVE  LookupsSafe'
<1>. PICK L : L = lookup'
  OBVIOUS
<1>1. /\ L \in LookupState /\ L.st = st /\ L.rows = lookup.rows /\ L.panel = lookup.panel
      /\ L.lines = lookup.lines /\ L.k = lookup.k /\ L.calm = lookup.calm
  BY LookupTyped DEF LookupState
<1>2. KeptOn
  BY DEF KeptOn
<1>3. /\ Len(L.rows) = L.k - 1 /\ L.k <= Len(L.lines) + 1
      /\ \A n \in 1 .. Len(L.rows) : RowFine(L.rows[n], L.lines[n], Len(L.panel))
      /\ L.calm => RowsKept(L, held', answers') /\ RowsRepeat(L)
  BY <1>1, <1>2, SameRows
<1>4. st = "done" => L.k = Len(L.lines) + 1
  <2>1. lookup.k \in Nat /\ Len(lookup.lines) \in Nat
    BY LookupTyped
  <2>. QED
    BY <1>1, <1>3, <2>1
<1>5. LookupFine(L)
  <2>1. Len(L.panel) > 0
    BY <1>1 DEF LookupsSafe, LookupFine
  <2>. QED
    BY <1>1, <1>3, <1>4, <2>1 DEF LookupFine
<1>6. CalmFine(L, held', answers')
  BY <1>1, <1>3 DEF CalmFine, LineKept, AnswerKept
<1>7. held' = held /\ answers' = answers
  OBVIOUS
<1>. QED
  BY <1>1, <1>5, <1>6, <1>7 DEF LookupsSafe, LookupsTypeOK

\* Once others have disturbed the rows, nothing is promised of them.
LEMMA DisturbedKeeps ==
  ASSUME LookupsSafe, lookup' = [lookup EXCEPT !.calm = FALSE],
         held' \subseteq LookupValues, answers' \in [LookupValues -> [Panel -> AnswerRow]]
  PROVE  LookupsSafe'
<1>. PICK L : L = lookup'
  OBVIOUS
<1>1. /\ L \in LookupState /\ L.st = lookup.st /\ L.rows = lookup.rows
      /\ L.panel = lookup.panel /\ L.lines = lookup.lines /\ L.k = lookup.k /\ L.calm = FALSE
      /\ L.outcomes = lookup.outcomes /\ L.status = lookup.status
  BY LookupTyped DEF LookupState
<1>2. ValueIn(L) = ValueIn(lookup)
  BY <1>1 DEF ValueIn
<1>3. LookupFine(L)
  BY <1>1, <1>2 DEF LookupsSafe, LookupFine
<1>4. CalmFine(L, held', answers')
  BY <1>1 DEF CalmFine
<1>. QED
  BY <1>1, <1>3, <1>4 DEF LookupsSafe, LookupsTypeOK

LEMMA LookupsStep ==
  LookupsSafe /\ [BulkNext]_bulkVars => LookupsSafe'
<1>. SUFFICES ASSUME LookupsSafe, [BulkNext]_bulkVars PROVE LookupsSafe'
  OBVIOUS
<1>1. ASSUME NEW lines \in Inputs, NEW panel \in Panels, NEW single \in BOOLEAN,
             SubmitLookup(lines, panel, single)
      PROVE  LookupsSafe'
  BY <1>1, SubmitKeeps
<1>2. CASE NextLine
  BY <1>2, NextLineKeeps
<1>3. CASE FindIndicator
  BY <1>3, FindIndicatorKeeps
<1>4. CASE AskProvider
  BY <1>4, AskKeeps
<1>5. CASE ReadBack
  BY <1>5, ReadBackKeeps
<1>6. CASE EndLine
  BY <1>6, EndLineKeeps
<1>7. CASE AnswerLookup
  <2>. PICK st \in {"done", "failed"} : st = "done"
    OBVIOUS
  <2>1. /\ lookup' = [lookup EXCEPT !.st = st] /\ lookup.st # "idle"
        /\ lookup.k > Len(lookup.lines) /\ UNCHANGED <<held, answers>>
    BY <1>7 DEF AnswerLookup
  <2>. QED
    BY <2>1, LookupEndKeeps
<1>8. CASE LookupBreaks
  <2>. PICK st \in {"done", "failed"} : st = "failed"
    OBVIOUS
  <2>1. /\ lookup' = [lookup EXCEPT !.st = st] /\ lookup.st # "idle"
        /\ st # "done" /\ UNCHANGED <<held, answers>>
    BY <1>8 DEF LookupBreaks
  <2>. QED
    BY <2>1, LookupEndKeeps
<1>9. NoAnswerYet \in AnswerRow /\ [st |-> "expired", verdict |-> "BENIGN"] \in AnswerRow
  BY DEF NoAnswerYet, AnswerRow, ToldVerdicts
<1>10. held \subseteq LookupValues /\ answers \in [LookupValues -> [Panel -> AnswerRow]]
  BY DEF LookupsSafe, LookupsTypeOK
<1>11. ASSUME NEW v \in LookupValues, DeleteHeld(v) PROVE LookupsSafe'
  <2>1. held' \subseteq LookupValues
    BY <1>10, <1>11 DEF DeleteHeld
  <2>2. answers' \in [LookupValues -> [Panel -> AnswerRow]]
    BY <1>9, <1>10, <1>11 DEF DeleteHeld
  <2>3. lookup' = [lookup EXCEPT !.calm = FALSE]
    BY <1>11 DEF DeleteHeld, Disturbed
  <2>. QED
    BY <2>1, <2>2, <2>3, DisturbedKeeps
<1>12. ASSUME NEW v \in LookupValues, NEW p \in Panel,
              NEW row \in {NoAnswerYet, [st |-> "expired", verdict |-> "BENIGN"]},
              OtherAnswer(v, p, row)
       PROVE  LookupsSafe'
  <2>1. row \in AnswerRow
    BY <1>9
  <2>2. held' \subseteq LookupValues
    BY <1>10, <1>12 DEF OtherAnswer
  <2>3. answers' \in [LookupValues -> [Panel -> AnswerRow]]
    BY <1>10, <1>12, <2>1 DEF OtherAnswer
  <2>4. lookup' = [lookup EXCEPT !.calm = FALSE]
    BY <1>12 DEF OtherAnswer, Disturbed
  <2>. QED
    BY <2>2, <2>3, <2>4, DisturbedKeeps
<1>13. CASE UNCHANGED bulkVars
  BY <1>13 DEF bulkVars, LookupsSafe, LookupsTypeOK
<1>. QED
  BY <1>1, <1>2, <1>3, <1>4, <1>5, <1>6, <1>7, <1>8, <1>11, <1>12, <1>13 DEF BulkNext

LEMMA SafeAddUp == LookupsSafe => LookupsAddUp
<1>. SUFFICES ASSUME LookupsSafe PROVE LookupsAddUp
  OBVIOUS
<1>1. /\ lookup.rows \in Seq(LookupRow) /\ lookup.panel \in Seq(Panel) /\ lookup.k \in Nat
      /\ lookup.lines \in Seq(DOMAIN ValueOf)
  BY LookupTyped
<1>2. \A n \in 1 .. Len(lookup.rows) :
        /\ RowFine(lookup.rows[n], lookup.lines[n], Len(lookup.panel))
        /\ lookup.rows[n].outcomes \in Seq(Outcome)
  <2>1. \A n \in 1 .. Len(lookup.rows) : lookup.rows[n] \in LookupRow
    BY <1>1
  <2>2. \A r \in LookupRow : r.outcomes \in Seq(Outcome)
    BY DEF LookupRow
  <2>3. \A n \in 1 .. Len(lookup.rows) :
          RowFine(lookup.rows[n], lookup.lines[n], Len(lookup.panel))
    BY DEF LookupsSafe, LookupFine
  <2>. QED
    BY <2>1, <2>2, <2>3
<1>3. LookupAnswered
  <2>. SUFFICES ASSUME lookup.st = "done"
                PROVE  /\ Len(lookup.rows) = Len(lookup.lines)
                       /\ \A n \in 1 .. Len(lookup.rows) :
                            LET row == lookup.rows[n] IN
                            /\ row.line = lookup.lines[n]
                            /\ row.status = "ok" <=> Len(row.outcomes) = Len(lookup.panel)
                            /\ row.status = "ok" /\ ValueOf[row.line] \in KnownGood =>
                                 \A k \in 1 .. Len(row.outcomes) : Cell(row, k) = "skipped"
                       /\ lookup.calm => UsedProviders = 1 .. Len(lookup.panel)
                            \/ \A n \in 1 .. Len(lookup.rows) : lookup.rows[n].status # "ok"
    BY DEF LookupAnswered
  <2>1. Len(lookup.rows) = Len(lookup.lines) /\ Len(lookup.panel) > 0
    BY <1>1 DEF LookupsSafe, LookupFine
  <2>2. ASSUME NEW n \in 1 .. Len(lookup.rows)
        PROVE  /\ lookup.rows[n].line = lookup.lines[n]
               /\ lookup.rows[n].status = "ok"
                    <=> Len(lookup.rows[n].outcomes) = Len(lookup.panel)
    BY <1>2, <2>1 DEF RowFine
  <2>3. ASSUME NEW n \in 1 .. Len(lookup.rows), ValueOf[lookup.rows[n].line] \in KnownGood,
               NEW k \in 1 .. Len(lookup.rows[n].outcomes)
        PROVE  Cell(lookup.rows[n], k) = "skipped"
    <3>1. lookup.rows[n].outcomes[k].status = "skipped"
      BY <1>2, <2>3 DEF RowFine
    <3>2. ~(Len(lookup.rows[n].outcomes) < k)
      BY <1>2
    <3>. QED
      BY <3>1, <3>2 DEF Cell
  <2>4. ASSUME NEW n \in 1 .. Len(lookup.rows), lookup.rows[n].status = "ok"
        PROVE  UsedProviders = 1 .. Len(lookup.panel)
    <3>1. Len(lookup.rows[n].outcomes) = Len(lookup.panel) /\ Len(lookup.panel) \in Nat
      BY <1>1, <2>2, <2>4
    <3>2. \A k \in 1 .. Len(lookup.panel) : Len(lookup.rows[n].outcomes) >= k
      BY <3>1
    <3>. QED
      BY <2>4, <3>2 DEF UsedProviders
  <2>. QED
    BY <2>1, <2>2, <2>3, <2>4
<1>4. PaidOnce
  <2>. SUFFICES ASSUME lookup.calm,
                       NEW m \in 1 .. Len(lookup.rows), NEW n \in 1 .. Len(lookup.rows), m < n,
                       ValueOf[lookup.rows[m].line] = ValueOf[lookup.rows[n].line],
                       NEW k \in 1 .. Len(lookup.panel),
                       Cell(lookup.rows[m], k) \in {"MALICIOUS", "BENIGN"}
                PROVE  /\ lookup.rows[n].outcomes # <<>> =>
                            lookup.rows[n].outcomes[k].status = "cached"
                       /\ Cell(lookup.rows[n], k) \in {Cell(lookup.rows[m], k), "blank"}
    BY DEF PaidOnce
  <2>. PICK w \in ToldVerdicts : w = Cell(lookup.rows[m], k)
    BY DEF ToldVerdicts
  <2>. PICK told, again \in Seq(Outcome) :
         told = lookup.rows[m].outcomes /\ again = lookup.rows[n].outcomes
    BY <1>2
  <2>1. Shows(told, k, w)
    <3>1. ~(Len(told) < k)
      BY DEF Cell, ToldVerdicts
    <3>2. k \in 1 .. Len(told)
      BY <3>1
    <3>3. told[k] \in Outcome
      BY <3>2
    <3>. QED
      BY <3>1, <3>2, <3>3 DEF Cell, ToldVerdicts, Shows, Outcome
  <2>2. Repeats(again, k, w)
    BY <2>1 DEF LookupsSafe, CalmFine, RowsRepeat
  <2>3. again # <<>> => k \in 1 .. Len(again)
    <3>1. again # <<>> => Len(again) = Len(lookup.panel)
      BY <1>2 DEF RowFine
    <3>. QED
      BY <3>1
  <2>4. again # <<>> => again[k].status = "cached"
    BY <2>2, <2>3 DEF Repeats
  <2>5. Cell(lookup.rows[n], k) \in {w, "blank"}
    <3>1. CASE Len(again) < k
      BY <3>1 DEF Cell
    <3>2. CASE ~(Len(again) < k)
      <4>1. k \in 1 .. Len(again)
        BY <3>2
      <4>. QED
        BY <2>2, <3>2, <4>1 DEF Cell, Repeats
    <3>. QED
      BY <3>1, <3>2
  <2>. QED
    BY <2>4, <2>5
<1>. QED
  BY <1>3, <1>4 DEF LookupsAddUp

\* However long a submission is, however it spells its values and whoever else
\* writes meanwhile: every line is answered once and in order, and while nobody
\* disturbs the rows a provider is paid once for a value, whose lines then show
\* the one verdict (bulkEnrichAction, enrichLookupAction).
THEOREM LookupsStayRight == LookupsSpec => []LookupsAddUp
<1>1. BulkInit => LookupsSafe
  <2>. SUFFICES ASSUME BulkInit PROVE LookupsSafe
    OBVIOUS
  <2>1. <<>> \in Seq(Outcome) /\ <<>> \in Seq(LookupRow) /\ <<>> \in Seq(DOMAIN ValueOf)
        /\ <<>> \in Seq(Panel) /\ 1 \in Nat \ {0}
    OBVIOUS
  <2>2. lookup \in LookupState
    BY <2>1 DEF BulkInit, NoLookup, LookupState
  <2>3. held \subseteq LookupValues /\ answers \in [LookupValues -> [Panel -> AnswerRow]]
    BY DEF BulkInit, NoAnswerYet, AnswerRow
  <2>4. LookupFine(lookup)
    BY DEF BulkInit, NoLookup, LookupFine
  <2>5. CalmFine(lookup, held, answers)
    BY DEF BulkInit, NoLookup, CalmFine, RowsKept, RowsRepeat, LineKept, AnswerKept
  <2>. QED
    BY <2>2, <2>3, <2>4, <2>5 DEF LookupsSafe, LookupsTypeOK
<1>2. LookupsSafe /\ [BulkNext]_bulkVars => LookupsSafe'
  BY LookupsStep
<1>. QED
  BY <1>1, <1>2, SafeAddUp, PTL DEF LookupsSpec
-----------------------------------------------------------------------------
(* The matrix and the rules.                                               *)

CoverageSpec == CoverageInit /\ [][CoverageNext]_coverageVars

Mapping == Adversaries \X {c.id : c \in Cells} \X Strengths
Sheet == [deprecated : SUBSET Cells, maps : SUBSET Mapping, white : SUBSET Artefacts,
          linked : SUBSET (Adversaries \X Artefacts)]
Board == [st : {"closed", "loading", "shown"}, cells : SUBSET Cells, maps : SUBSET Mapping,
          read : SUBSET {"cells", "maps"}, calm : BOOLEAN]

\* ActorTechnique has one row of an actor and a technique.
OneRowEach(maps) == \A m, n \in maps : m[1] = n[1] /\ m[2] = n[2] => m = n

\* What was read is what is there, while nothing has changed.
BoardRead(b, s) ==
  /\ b.st = "shown" => b.read = {"cells", "maps"}
  /\ b.calm => /\ "cells" \in b.read => b.cells = Cells \ s.deprecated
               /\ "maps" \in b.read => b.maps = s.maps

CoverageSafe ==
  /\ sheet \in Sheet /\ board \in Board
  /\ IsFiniteSet(sheet.maps) /\ IsFiniteSet(board.maps)
  /\ OneRowEach(sheet.maps)
  /\ BoardRead(board, sheet)

LEMMA SheetKeeps ==
  ASSUME CoverageSafe, NEW to \in Sheet, SheetBecomes(to), IsFiniteSet(to.maps),
         OneRowEach(to.maps)
  PROVE  CoverageSafe'
<1>. PICK b : b = board'
  OBVIOUS
<1>1. b = [board EXCEPT !.calm = FALSE] /\ sheet' = to
  BY DEF SheetBecomes
<1>2. b \in Board /\ b.maps = board.maps /\ b.calm = FALSE /\ b.st = board.st
      /\ b.read = board.read
  BY <1>1 DEF CoverageSafe, Board
<1>3. BoardRead(b, to)
  BY <1>2 DEF CoverageSafe, BoardRead
<1>. QED
  BY <1>1, <1>2, <1>3 DEF CoverageSafe

LEMMA MapCellKeeps ==
  ASSUME CoverageSafe, NEW actor \in Adversaries, NEW c \in Cells, NEW conf \in Strengths,
         MapCell(actor, c, conf)
  PROVE  CoverageSafe'
<1>. PICK others : others = {m \in sheet.maps : m[1] # actor \/ m[2] # c.id}
  OBVIOUS
<1>. PICK row : row = <<actor, c.id, conf>>
  OBVIOUS
<1>. PICK to : to = [sheet EXCEPT !.maps = others \cup {row}]
  OBVIOUS
<1>1. sheet \in Sheet /\ sheet.maps \subseteq Mapping /\ IsFiniteSet(sheet.maps)
  BY DEF CoverageSafe, Sheet
<1>2. row \in Mapping /\ row[1] = actor /\ row[2] = c.id
  BY DEF Mapping
<1>3. to \in Sheet /\ to.maps = others \cup {row}
  BY <1>1, <1>2 DEF Sheet
<1>4. IsFiniteSet(to.maps)
  <2>1. IsFiniteSet(others)
    BY <1>1, FS_Subset
  <2>2. IsFiniteSet(others \cup {row})
    BY <2>1, FS_AddElement
  <2>. QED
    BY <1>3, <2>2
<1>5. OneRowEach(to.maps)
  BY <1>2, <1>3 DEF CoverageSafe, OneRowEach
<1>6. SheetBecomes(to)
  BY <1>1 DEF MapCell, Sheet
<1>. QED
  BY <1>3, <1>4, <1>5, <1>6, SheetKeeps

LEMMA ReadsKeep ==
  ASSUME CoverageSafe, NEW part \in {"cells", "maps"}, NEW cells \in SUBSET Cells,
         NEW maps \in SUBSET Mapping, IsFiniteSet(maps),
         part = "cells" => cells = Cells \ sheet.deprecated /\ maps = board.maps,
         part = "maps" => cells = board.cells /\ maps = sheet.maps,
         board.st = "loading", part \notin board.read, UNCHANGED sheet,
         board' = [board EXCEPT !.cells = cells, !.maps = maps, !.read = board.read \cup {part},
                                !.st = IF board.read = {} THEN "loading" ELSE "shown"]
  PROVE  CoverageSafe'
<1>. PICK b : b = board'
  OBVIOUS
<1>. PICK st \in {"loading", "shown"} :
       st = IF board.read = {} THEN "loading" ELSE "shown"
  OBVIOUS
<1>1. board \in Board /\ board.read \subseteq {"cells", "maps"}
  BY DEF CoverageSafe, Board
<1>2. board.read \cup {part} \subseteq {"cells", "maps"}
  BY <1>1
<1>3. b = [board EXCEPT !.cells = cells, !.maps = maps, !.read = board.read \cup {part},
                        !.st = st]
  OBVIOUS
<1>4. b \in Board /\ b.cells = cells /\ b.maps = maps /\ b.read = board.read \cup {part}
      /\ b.st = st /\ b.calm = board.calm
  <2>. PICK read \in SUBSET {"cells", "maps"} : read = board.read \cup {part}
    BY <1>2
  <2>1. b = [board EXCEPT !.cells = cells, !.maps = maps, !.read = read, !.st = st]
    BY <1>3
  <2>. QED
    BY ONLY <1>1, <2>1, read = board.read \cup {part}, read \in SUBSET {"cells", "maps"},
       st \in {"loading", "shown"}, cells \in SUBSET Cells, maps \in SUBSET Mapping
       DEF Board
<1>5. b.st = "shown" => b.read = {"cells", "maps"}
  BY <1>1, <1>4
<1>6. BoardRead(b, sheet)
  BY <1>1, <1>4, <1>5 DEF CoverageSafe, BoardRead
<1>. QED
  BY <1>4, <1>6 DEF CoverageSafe

LEMMA CoverageStep ==
  CoverageSafe /\ [CoverageNext]_coverageVars => CoverageSafe'
<1>. SUFFICES ASSUME CoverageSafe, [CoverageNext]_coverageVars PROVE CoverageSafe'
  OBVIOUS
<1>1. sheet \in Sheet /\ board \in Board /\ IsFiniteSet(sheet.maps) /\ IsFiniteSet(board.maps)
  BY DEF CoverageSafe
<1>2. ASSUME NEW actor \in Adversaries, NEW c \in Cells, NEW conf \in Strengths,
             MapCell(actor, c, conf)
      PROVE  CoverageSafe'
  BY <1>2, MapCellKeeps
<1>3. ASSUME NEW m \in sheet.maps, UnmapCell(m) PROVE CoverageSafe'
  <2>. PICK to : to = [sheet EXCEPT !.maps = sheet.maps \ {m}]
    OBVIOUS
  <2>1. to \in Sheet /\ to.maps = sheet.maps \ {m}
    BY <1>1 DEF Sheet
  <2>2. IsFiniteSet(to.maps)
    BY <1>1, <2>1, FS_RemoveElement
  <2>3. OneRowEach(to.maps)
    BY <2>1 DEF CoverageSafe, OneRowEach
  <2>4. SheetBecomes(to)
    BY <1>1, <1>3 DEF UnmapCell, Sheet
  <2>. QED
    BY <2>1, <2>2, <2>3, <2>4, SheetKeeps
<1>4. ASSUME NEW to \in Sheet, to.maps = sheet.maps, SheetBecomes(to) PROVE CoverageSafe'
  BY <1>1, <1>4, SheetKeeps DEF CoverageSafe
<1>5. ASSUME NEW c \in Cells, Deprecate(c) PROVE CoverageSafe'
  <2>. PICK to : to = [sheet EXCEPT !.deprecated = sheet.deprecated \cup {c}]
    OBVIOUS
  <2>1. to \in Sheet /\ to.maps = sheet.maps
    BY <1>1 DEF Sheet
  <2>2. SheetBecomes(to)
    BY <1>1, <1>5 DEF Deprecate, Sheet
  <2>. QED
    BY <1>4, <2>1, <2>2
<1>6. ASSUME NEW a \in Artefacts, WhitelistArtefact(a) PROVE CoverageSafe'
  <2>. PICK to : to = [sheet EXCEPT !.white = sheet.white \cup {a}]
    OBVIOUS
  <2>1. to \in Sheet /\ to.maps = sheet.maps
    BY <1>1 DEF Sheet
  <2>2. SheetBecomes(to)
    BY <1>1, <1>6 DEF WhitelistArtefact, Sheet
  <2>. QED
    BY <1>4, <2>1, <2>2
<1>7. ASSUME NEW a \in Artefacts, NEW actor \in Adversaries, LinkArtefact(actor, a)
      PROVE  CoverageSafe'
  <2>. PICK to : to = [sheet EXCEPT !.linked = sheet.linked \cup {<<actor, a>>}]
    OBVIOUS
  <2>1. to \in Sheet /\ to.maps = sheet.maps
    BY <1>1 DEF Sheet
  <2>2. SheetBecomes(to)
    BY <1>1, <1>7 DEF LinkArtefact, Sheet
  <2>. QED
    BY <1>4, <2>1, <2>2
<1>8. CASE OpenBoard
  <2>. PICK b : b = board'
    OBVIOUS
  <2>1. b = [NewBoard EXCEPT !.st = "loading"] /\ sheet' = sheet
    BY <1>8 DEF OpenBoard
  <2>2. b \in Board /\ b.maps = {} /\ b.st = "loading" /\ b.read = {}
    BY <2>1 DEF NewBoard, Board
  <2>3. BoardRead(b, sheet)
    BY <2>2 DEF BoardRead
  <2>. QED
    BY <2>1, <2>2, <2>3, FS_EmptySet DEF CoverageSafe
<1>9. CASE ReadCells
  <2>. PICK part \in {"cells", "maps"} : part = "cells"
    OBVIOUS
  <2>. PICK cells \in SUBSET Cells : cells = Cells \ sheet.deprecated
    OBVIOUS
  <2>. PICK maps \in SUBSET Mapping : maps = board.maps
    BY <1>1 DEF Board
  <2>1. board.st = "loading" /\ part \notin board.read /\ UNCHANGED sheet
    BY <1>9 DEF ReadCells, Reads2
  <2>2. board' = [board EXCEPT !.cells = cells, !.maps = maps, !.read = board.read \cup {part},
                               !.st = IF board.read = {} THEN "loading" ELSE "shown"]
    BY <1>1, <1>9 DEF ReadCells, Reads2, Board
  <2>3. IsFiniteSet(maps)
    BY <1>1
  <2>. QED
    BY <2>1, <2>2, <2>3, ReadsKeep
<1>10. CASE ReadMappings
  <2>. PICK part \in {"cells", "maps"} : part = "maps"
    OBVIOUS
  <2>. PICK cells \in SUBSET Cells : cells = board.cells
    BY <1>1 DEF Board
  <2>. PICK maps \in SUBSET Mapping : maps = sheet.maps
    BY <1>1 DEF Sheet
  <2>1. board.st = "loading" /\ part \notin board.read /\ UNCHANGED sheet
    BY <1>10 DEF ReadMappings, Reads2
  <2>2. board' = [board EXCEPT !.cells = cells, !.maps = maps, !.read = board.read \cup {part},
                               !.st = IF board.read = {} THEN "loading" ELSE "shown"]
    BY <1>1, <1>10 DEF ReadMappings, Reads2, Board
  <2>3. IsFiniteSet(maps)
    BY <1>1
  <2>. QED
    BY <2>1, <2>2, <2>3, ReadsKeep
<1>11. CASE UNCHANGED coverageVars
  BY <1>11 DEF coverageVars, CoverageSafe
<1>. QED
  BY <1>2, <1>3, <1>5, <1>6, <1>7, <1>8, <1>9, <1>10, <1>11 DEF CoverageNext

\* A technique's rows are as many as the actors it is mapped to.
LEMMA RowsAreActors ==
  ASSUME CoverageSafe, board.maps = sheet.maps, NEW id
  PROVE  LayerScore(id, Adversaries) = Cardinality(ActorsOf(id))
<1>. PICK R : R = LayerRows({id}, Adversaries)
  OBVIOUS
<1>. PICK A : A = ActorsOf(id)
  OBVIOUS
<1>. PICK f : f = [m \in R |-> m[1]]
  OBVIOUS
<1>1. \A m \in sheet.maps : m[1] \in Adversaries
  BY DEF CoverageSafe, Sheet, Mapping
<1>2. R = {m \in sheet.maps : m[2] = id}
  BY <1>1 DEF LayerRows
<1>3. A = {m[1] : m \in R}
  BY <1>2 DEF ActorsOf
<1>4. f \in Surjection(R, A)
  BY <1>3 DEF Surjection
<1>5. f \in Injection(R, A)
  <2>1. \A m, n \in R : m[1] = n[1] => m = n
    BY <1>2 DEF CoverageSafe, OneRowEach
  <2>2. f \in [R -> A] /\ \A m \in R : f[m] = m[1]
    BY <1>3
  <2>3. \A m, n \in R : f[m] = f[n] => m = n
    BY <2>1, <2>2
  <2>. QED
    BY <2>2, <2>3 DEF Injection, IsInjective
<1>6. IsFiniteSet(R)
  BY <1>2, FS_Subset DEF CoverageSafe
<1>7. Cardinality(A) = Cardinality(R)
  BY <1>4, <1>5, <1>6, FS_Surjection
<1>. QED
  BY <1>7 DEF LayerScore

LEMMA SafeCounts == CoverageSafe => MatrixCounts
<1>. SUFFICES ASSUME CoverageSafe, Shown, NEW t \in TacticNames, NEW c \in Column(t)
              PROVE  LET family == {c} \cup SubsOf(c)
                     IN  /\ ActorCount(c) <= Cardinality(Adversaries)
                         /\ \A d \in SubsOf(c) : Cardinality(ActorsOf(d.id)) <= ActorCount(c)
                         /\ board.calm =>
                              /\ \A d \in family : LayerScore(d.id, Adversaries) <= ActorCount(c)
                              /\ ActorCount(c)
                                   <= Cardinality(LayerRows({d.id : d \in family}, Adversaries))
                              /\ \A d \in SubsOf(c) :
                                   Cardinality(ActorsOf(d.id)) = LayerScore(d.id, Adversaries)
                              /\ c \in CoveredCells => ActorCount(c) > 0
  BY DEF MatrixCounts
<1>. PICK family : family = {c} \cup SubsOf(c)
  OBVIOUS
<1>. PICK all : all = ActorsOf(c.id) \cup UNION {ActorsOf(d.id) : d \in SubsOf(c)}
  OBVIOUS
<1>1. ActorCount(c) = Cardinality(all)
  BY DEF ActorCount
<1>2. \A m \in board.maps : m[1] \in Adversaries
  BY DEF CoverageSafe, Board, Mapping
<1>3. all \subseteq Adversaries /\ \A d \in family : ActorsOf(d.id) \subseteq all
  BY <1>2 DEF ActorsOf
<1>4. IsFiniteSet(all) /\ Cardinality(all) <= Cardinality(Adversaries)
      /\ Cardinality(all) \in Nat
  BY <1>3, FS_Subset, FS_CardinalityType, CoverageAssumption
<1>5. \A d \in family : Cardinality(ActorsOf(d.id)) <= Cardinality(all)
  <2>. SUFFICES ASSUME NEW d \in family PROVE Cardinality(ActorsOf(d.id)) <= Cardinality(all)
    OBVIOUS
  <2>. PICK A : A = ActorsOf(d.id)
    OBVIOUS
  <2>1. A \subseteq all
    BY <1>3
  <2>2. Cardinality(A) <= Cardinality(all)
    BY <1>4, <2>1, FS_Subset
  <2>. QED
    BY <2>2
<1>6. ASSUME board.calm
      PROVE  /\ \A d \in family : LayerScore(d.id, Adversaries) = Cardinality(ActorsOf(d.id))
             /\ Cardinality(all)
                  <= Cardinality(LayerRows({d.id : d \in family}, Adversaries))
  <2>1. board.maps = sheet.maps
    BY <1>6 DEF CoverageSafe, BoardRead, Shown
  <2>. PICK R : R = LayerRows({d.id : d \in family}, Adversaries)
    OBVIOUS
  <2>. PICK f : f = [m \in R |-> m[1]]
    OBVIOUS
  <2>2. R = {m \in board.maps : \E d \in family : m[2] = d.id}
    BY <1>2, <2>1 DEF LayerRows
  <2>3. all = {m[1] : m \in R}
    <3>1. \A a : a \in all <=> \E d \in family : a \in ActorsOf(d.id)
      OBVIOUS
    <3>2. \A d \in family : \A a : a \in ActorsOf(d.id) <=>
            \E m \in board.maps : m[2] = d.id /\ a = m[1]
      BY DEF ActorsOf
    <3>3. \A m \in board.maps, d \in family : m[2] = d.id => m \in R
      BY <2>2
    <3>4. \A m \in R : m \in board.maps /\ \E d \in family : m[2] = d.id
      BY <2>2
    <3>5. ASSUME NEW a \in all PROVE \E m \in R : a = m[1]
      <4>. PICK d \in family : a \in ActorsOf(d.id)
        BY <3>1
      <4>. PICK m \in board.maps : m[2] = d.id /\ a = m[1]
        BY <3>2
      <4>. QED
        BY <3>3
    <3>6. ASSUME NEW m \in R PROVE m[1] \in all
      <4>. PICK d \in family : m[2] = d.id
        BY <3>4
      <4>1. m[1] \in ActorsOf(d.id)
        BY <3>2, <3>4
      <4>. QED
        BY <3>1, <4>1
    <3>. QED
      BY ONLY <3>5, <3>6
  <2>4. f \in Surjection(R, all)
    BY <2>3 DEF Surjection
  <2>5. IsFiniteSet(R)
    BY <2>2, FS_Subset DEF CoverageSafe
  <2>6. Cardinality(all) <= Cardinality(R)
    BY <2>4, <2>5, FS_Surjection
  <2>. QED
    BY <2>1, <2>6, RowsAreActors
<1>7. c \in CoveredCells => Cardinality(all) > 0
  <2>1. c \in CoveredCells => all # {}
    BY DEF CoveredCells
  <2>2. all # {} => Cardinality(all) # 0
    BY <1>4, FS_EmptySet
  <2>. QED
    BY <1>4, <2>1, <2>2
<1>8. SubsOf(c) \subseteq family
  OBVIOUS
<1>. QED
  BY <1>1, <1>4, <1>5, <1>6, <1>7, <1>8

\* A rule that names an artefact is the rule of its types.
LEMMA RuleNames ==
  ASSUME NEW actor, NEW types, NEW level, NEW a \in Artefacts, NEW r \in RuleOf(actor, types, level),
         a.id \in r.on
  PROVE  a \in Qualified(actor) /\ a.type \in types
<1>. PICK of : of = {b \in Qualified(actor) : b.type \in types}
  OBVIOUS
<1>1. of \subseteq Artefacts
  BY DEF Qualified, Tied
<1>2. r = [on |-> {b.id : b \in of}, level |-> level]
  BY DEF RuleOf
<1>3. PICK b \in of : b.id = a.id
  BY <1>2
<1>4. b = a
  BY <1>1, <1>3, CoverageAssumption
<1>. QED
  BY <1>3, <1>4

LEMMA RuleMade ==
  ASSUME NEW actor, NEW types, NEW level, NEW a \in Qualified(actor), a.type \in types
  PROVE  \E rule : RuleOf(actor, types, level) = {rule} /\ a.id \in rule.on
<1>. PICK of : of = {b \in Qualified(actor) : b.type \in types}
  OBVIOUS
<1>. PICK rule : rule = [on |-> {b.id : b \in of}, level |-> level]
  OBVIOUS
<1>1. a \in of
  OBVIOUS
<1>2. RuleOf(actor, types, level) = {rule}
  BY <1>1 DEF RuleOf
<1>3. a.id \in rule.on
  BY <1>1
<1>. QED
  BY <1>2, <1>3

TechniqueRules(actor) ==
  {[on |-> {m[2]}, level |-> Level(m[2], m[3])] :
     m \in {n \in sheet.maps : n[1] = actor /\ n[2] \in Detected}}

LEMMA TypesApart ==
  NetworkTypes \cap HashTypes = {} /\ NetworkTypes \cap HostTypes = {} /\ HashTypes \cap HostTypes = {}
BY DEF NetworkTypes, HashTypes, HostTypes

LEMMA ArtefactRules ==
  ASSUME CoverageSafe, NEW actor, NEW a \in Artefacts
  PROVE  Cardinality({r \in SigmaRules(actor) : a.id \in r.on}) =
           IF a \in Qualified(actor) /\ a.type \in NetworkTypes \cup HashTypes \cup HostTypes
           THEN 1 ELSE 0
<1>. PICK R : R = {r \in SigmaRules(actor) : a.id \in r.on}
  OBVIOUS
<1>. PICK net : net = RuleOf(actor, NetworkTypes, "high")
  OBVIOUS
<1>. PICK hash : hash = RuleOf(actor, HashTypes, "critical")
  OBVIOUS
<1>. PICK host : host = RuleOf(actor, HostTypes, "high")
  OBVIOUS
<1>1. SigmaRules(actor) = net \cup hash \cup host \cup TechniqueRules(actor)
  BY DEF SigmaRules, TechniqueRules
<1>2. ASSUME NEW r \in TechniqueRules(actor) PROVE a.id \notin r.on
  <2>. PICK m \in sheet.maps : r.on = {m[2]}
    BY DEF TechniqueRules
  <2>1. \E c \in Cells : m[2] = c.id
    BY DEF CoverageSafe, Sheet, Mapping
  <2>. QED
    BY <2>1, CoverageAssumption
<1>3. \A r \in net : a.id \in r.on => a \in Qualified(actor) /\ a.type \in NetworkTypes
  BY RuleNames
<1>4. \A r \in hash : a.id \in r.on => a \in Qualified(actor) /\ a.type \in HashTypes
  BY RuleNames
<1>5. \A r \in host : a.id \in r.on => a \in Qualified(actor) /\ a.type \in HostTypes
  BY RuleNames
<1>6. \A r \in R : r \in net \cup hash \cup host /\ a.id \in r.on
  BY <1>1, <1>2
<1>7. CASE ~(a \in Qualified(actor) /\ a.type \in NetworkTypes \cup HashTypes \cup HostTypes)
  <2>1. R = {}
    BY <1>3, <1>4, <1>5, <1>6, <1>7
  <2>2. Cardinality(R) = 0
    BY <2>1, FS_EmptySet
  <2>. QED
    BY <1>7, <2>2
<1>8. ASSUME NEW rule, R = {rule}, a \in Qualified(actor),
             a.type \in NetworkTypes \cup HashTypes \cup HostTypes
      PROVE  Cardinality(R) = IF a \in Qualified(actor)
                                 /\ a.type \in NetworkTypes \cup HashTypes \cup HostTypes
                              THEN 1 ELSE 0
  <2>1. Cardinality(R) = 1
    BY <1>8, FS_Singleton
  <2>. QED
    BY <1>8, <2>1
<1>9. CASE a \in Qualified(actor) /\ a.type \in NetworkTypes
  <2>1. PICK rule : net = {rule} /\ a.id \in rule.on
    BY <1>9, RuleMade
  <2>2. R = {rule}
    <3>1. rule \in R
      BY <1>1, <2>1
    <3>2. \A r \in R : r \in net
      BY <1>4, <1>5, <1>6, <1>9, TypesApart
    <3>. QED
      BY <2>1, <3>1, <3>2
  <2>. QED
    BY <1>8, <1>9, <2>2
<1>10. CASE a \in Qualified(actor) /\ a.type \in HashTypes
  <2>1. PICK rule : hash = {rule} /\ a.id \in rule.on
    BY <1>10, RuleMade
  <2>2. R = {rule}
    <3>1. rule \in R
      BY <1>1, <2>1
    <3>2. \A r \in R : r \in hash
      BY <1>3, <1>5, <1>6, <1>10, TypesApart
    <3>. QED
      BY <2>1, <3>1, <3>2
  <2>. QED
    BY <1>8, <1>10, <2>2
<1>11. CASE a \in Qualified(actor) /\ a.type \in HostTypes
  <2>1. PICK rule : host = {rule} /\ a.id \in rule.on
    BY <1>11, RuleMade
  <2>2. R = {rule}
    <3>1. rule \in R
      BY <1>1, <2>1
    <3>2. \A r \in R : r \in host
      BY <1>3, <1>4, <1>6, <1>11, TypesApart
    <3>. QED
      BY <2>1, <3>1, <3>2
  <2>. QED
    BY <1>8, <1>11, <2>2
<1>. QED
  BY <1>7, <1>9, <1>10, <1>11

LEMMA SafeRules == CoverageSafe => RulesFollow
<1>. SUFFICES ASSUME CoverageSafe, NEW actor \in Adversaries
              PROVE  LET rules == SigmaRules(actor) IN
                     /\ \A a \in Artefacts :
                          Cardinality({r \in rules : a.id \in r.on}) =
                            IF /\ <<actor, a>> \in sheet.linked /\ a \notin sheet.white
                               /\ a.conf \in 50 .. 100
                               /\ a.type \in NetworkTypes \cup HashTypes \cup HostTypes
                            THEN 1 ELSE 0
                     /\ \A c \in Cells : Cardinality({r \in rules : c.id \in r.on}) <= 1
  BY DEF RulesFollow
<1>1. ASSUME NEW a \in Artefacts
      PROVE  Cardinality({r \in SigmaRules(actor) : a.id \in r.on}) =
               IF /\ <<actor, a>> \in sheet.linked /\ a \notin sheet.white
                  /\ a.conf \in 50 .. 100
                  /\ a.type \in NetworkTypes \cup HashTypes \cup HostTypes
               THEN 1 ELSE 0
  <2>1. a \in Qualified(actor) <=>
          <<actor, a>> \in sheet.linked /\ a \notin sheet.white /\ a.conf \in 50 .. 100
    BY CoverageAssumption DEF Qualified, Tied
  <2>. QED
    BY <2>1, ArtefactRules
<1>2. ASSUME NEW c \in Cells
      PROVE  Cardinality({r \in SigmaRules(actor) : c.id \in r.on}) <= 1
  <2>. PICK R : R = {r \in SigmaRules(actor) : c.id \in r.on}
    OBVIOUS
  <2>1. ASSUME NEW types, NEW level, NEW r \in RuleOf(actor, types, level)
        PROVE  c.id \notin r.on
    <3>1. r.on = {b.id : b \in {a \in Qualified(actor) : a.type \in types}}
      BY DEF RuleOf
    <3>2. Qualified(actor) \subseteq Artefacts
      BY DEF Qualified, Tied
    <3>. QED
      BY <3>1, <3>2, CoverageAssumption
  <2>2. \A r \in R : r \in TechniqueRules(actor) /\ c.id \in r.on
    BY <2>1 DEF SigmaRules, TechniqueRules
  <2>3. ASSUME NEW r \in R, NEW s \in R PROVE r = s
    <3>1. PICK m \in sheet.maps : /\ m[1] = actor
                                  /\ r = [on |-> {m[2]}, level |-> Level(m[2], m[3])]
      BY <2>2 DEF TechniqueRules
    <3>2. PICK n \in sheet.maps : /\ n[1] = actor
                                  /\ s = [on |-> {n[2]}, level |-> Level(n[2], n[3])]
      BY <2>2 DEF TechniqueRules
    <3>3. m[2] = c.id /\ n[2] = c.id
      BY <2>2, <3>1, <3>2
    <3>4. m = n
      BY <3>1, <3>2, <3>3 DEF CoverageSafe, OneRowEach
    <3>. QED
      BY <3>1, <3>2, <3>4
  <2>4. CASE R = {}
    BY <2>4, FS_EmptySet
  <2>5. CASE R # {}
    <3>1. PICK r : R = {r}
      BY <2>3, <2>5
    <3>2. Cardinality(R) = 1
      BY <3>1, FS_Singleton
    <3>. QED
      BY <3>2
  <2>. QED
    BY <2>4, <2>5
<1>. QED
  BY <1>1, <1>2

\* Whatever imports and analysts change between the two statements of the page:
\* no cell counts an actor twice or fewer than one of its children, the page
\* and the Navigator layer agree while nothing changes, and the Sigma rules of
\* an adversary name what is tied to it, each once (getMatrix,
\* buildNavigatorLayer, generateSigmaRules).
THEOREM CoverageStays == CoverageSpec => []CoverageHolds
<1>1. CoverageInit => CoverageSafe
  BY FS_EmptySet DEF CoverageInit, CoverageSafe, NewBoard, Sheet, Board, OneRowEach, BoardRead
<1>2. CoverageSafe /\ [CoverageNext]_coverageVars => CoverageSafe'
  BY CoverageStep
<1>3. CoverageSafe => CoverageHolds
  BY SafeCounts, SafeRules DEF CoverageHolds
<1>. QED
  BY <1>1, <1>2, <1>3, PTL DEF CoverageSpec
-----------------------------------------------------------------------------
(* Pastes.  What the text holds, piece by piece.                           *)

PasteSpec == ImportFormInit /\ [][ImportFormNext]_importFormVars

PasteTexts == Pastes \cup {Empty}
PastedValues == UNION {Found(text) : text \in Pastes}
PasteLines == UNION {Elements(text.lines) : text \in Pastes}
Readable == PastedValues \cup {Unsplit(line) : line \in PasteLines}

\* PastedValues of one type and name are of one class and host.
LEMMA ValuesNamed ==
  ASSUME NEW w \in PastedValues, NEW v \in PastedValues, w.type = v.type, w.id = v.id
  PROVE  w.class = v.class /\ w.host = v.host /\ w.type # "none"
BY PasteAssumption DEF PastedValues

LEMMA LinesTold ==
  ASSUME NEW text \in PasteTexts
  PROVE  /\ text.lines \in Seq(PasteLines) /\ Len(text.lines) \in Nat
         /\ \A k \in 1 .. Len(text.lines) :
              /\ text.lines[k] \in PasteLines
              /\ text.lines[k].values \in Seq(PastedValues) /\ text.lines[k].values # <<>>
<1>1. CASE text = Empty
  <2>1. text.lines = <<>>
    BY <1>1 DEF Empty
  <2>. QED
    BY <2>1
<1>2. CASE text \in Pastes
  <2>. PICK lines : lines = text.lines
    OBVIOUS
  <2>. PICK own : own = Elements(lines)
    OBVIOUS
  <2>1. lines \in Seq(own) /\ own \subseteq PasteLines
    BY <1>2, PasteAssumption DEF PasteLines
  <2>2. lines \in Seq(PasteLines)
    BY <2>1
  <2>3. ASSUME NEW k \in 1 .. Len(lines)
        PROVE  lines[k] \in PasteLines /\ lines[k].values \in Seq(PastedValues) /\ lines[k].values # <<>>
    <3>. PICK line : line = lines[k]
      OBVIOUS
    <3>1. line \in own
      BY <2>1
    <3>. PICK values : values = line.values
      OBVIOUS
    <3>2. values \in Seq(Elements(values)) /\ values # <<>>
      BY <1>2, <3>1, PasteAssumption
    <3>3. Elements(values) \subseteq PastedValues
      <4>1. Elements(values) \subseteq Found(text)
        BY DEF Found
      <4>. QED
        BY <1>2, <4>1 DEF PastedValues
    <3>4. values \in Seq(PastedValues)
      <4>. PICK A, B : A = Elements(values) /\ B = PastedValues
        OBVIOUS
      <4>1. values \in Seq(A) /\ A \subseteq B
        BY <3>2, <3>3
      <4>2. values \in Seq(B)
        BY <4>1
      <4>. QED
        BY <4>2
    <3>. QED
      BY <2>1, <3>1, <3>2, <3>4
  <2>. QED
    BY <2>2, <2>3
<1>. QED
  BY <1>1, <1>2 DEF PasteTexts

\* A piece is a value, or a line that is not split.
LEMMA PiecesRead ==
  ASSUME NEW text \in PasteTexts
  PROVE  /\ Pieces(text) \in Seq(Readable) /\ Len(Pieces(text)) \in Nat
         /\ \A w \in Elements(Pieces(text)) : w \in PastedValues \/ w.type = "WORD"
<1>. DEFINE separators == {"tab", "semicolon", "spaces", "comma"}
            part(k) == IF text.lines[k].comment THEN <<>>
                       ELSE SplitAt(text.lines[k], separators)
            L == Len(text.lines)
            seqs == [k \in 1 .. L |-> part(k)]
<1>1. L \in Nat
  BY LinesTold
<1>2. ASSUME NEW k \in 1 .. L PROVE part(k) \in Seq(Readable)
  <2>. PICK line : line = text.lines[k]
    OBVIOUS
  <2>1. line \in PasteLines /\ line.values \in Seq(PastedValues)
    BY LinesTold
  <2>2. line.values \in Seq(Readable) /\ Unsplit(line) \in Readable
    <3>. PICK A, B : A = PastedValues /\ B = Readable
      OBVIOUS
    <3>1. A \subseteq B /\ line.values \in Seq(A)
      BY <2>1 DEF Readable
    <3>2. line.values \in Seq(B)
      BY <3>1
    <3>. QED
      BY <2>1, <3>2 DEF Readable
  <2>3. <<Unsplit(line)>> \in Seq(Readable)
    BY <2>2
  <2>. QED
    BY <2>2, <2>3 DEF SplitAt
<1>3. Pieces(text) = FlattenSeq(seqs)
  BY DEF Pieces, Tokens
<1>. HIDE DEF part
<1>4. seqs \in Seq(Seq(Readable))
  <2>. PICK W : W = Seq(Readable)
    OBVIOUS
  <2>1. seqs \in [1 .. L -> W]
    BY <1>2
  <2>2. seqs \in Seq(W)
    BY <1>1, <2>1
  <2>. QED
    BY <2>2
<1>5. FlattenSeq(seqs) \in Seq(Readable)
  BY <1>4, FlattenFits
<1>6. ASSUME NEW w \in Elements(Pieces(text)) PROVE w \in PastedValues \/ w.type = "WORD"
  <2>1. w \in Readable
    <3>. PICK s \in Seq(Readable) : s = Pieces(text)
      BY <1>3, <1>5
    <3>1. w \in Elements(s)
      OBVIOUS
    <3>. QED
      BY <3>1 DEF Elements, ToSet
  <2>2. ASSUME NEW line \in PasteLines PROVE Unsplit(line).type = "WORD"
    BY DEF Unsplit
  <2>. QED
    BY <2>1, <2>2 DEF Readable
<1>. QED
  BY <1>3, <1>5, <1>6

\* Of the places told, those whose key came before are the others' number less.
CountedOnce(key, T) ==
  LET K == {key[k] : k \in T}
      R == {k \in T : \E j \in T : j < k /\ key[j] = key[k]}
  IN  /\ IsFiniteSet(K) /\ Cardinality(K) \in Nat /\ Cardinality(R) \in Nat
      /\ Cardinality(K) + Cardinality(R) = Cardinality(T)

LEMMA FirstsCounted ==
  ASSUME NEW L \in Nat, NEW T \in SUBSET (1 .. L), NEW key
  PROVE  CountedOnce(key, T)
<1>. PICK K : K = {key[k] : k \in T}
  OBVIOUS
<1>. PICK R \in SUBSET T : R = {k \in T : \E j \in T : j < k /\ key[j] = key[k]}
  OBVIOUS
<1>. PICK F \in SUBSET T : F = T \ R
  OBVIOUS
<1>. PICK f : f = [k \in F |-> key[k]]
  OBVIOUS
<1>1. IsFiniteSet(T) /\ IsFiniteSet(F) /\ IsFiniteSet(R)
  <2>1. IsFiniteSet(T)
    BY PlacesFinite
  <2>. QED
    BY <2>1, FS_Subset
<1>2. f \in [F -> K]
  OBVIOUS
<1>3. \A x \in K : \E k \in F : f[k] = x
  <2>. SUFFICES ASSUME NEW x \in K PROVE \E k \in F : f[k] = x
    OBVIOUS
  <2>. DEFINE Bearing == {k \in T : key[k] = x}
  <2>1. Bearing \in SUBSET Nat /\ Bearing # {}
    <3>1. PICK m \in T : x = key[m]
      OBVIOUS
    <3>2. m \in Bearing
      BY <3>1
    <3>3. T \subseteq Nat
      OBVIOUS
    <3>. QED
      BY <3>2, <3>3
  <2>2. PICK k \in Bearing : \A j \in Bearing : k <= j
    <3>. HIDE DEF Bearing
    <3>. QED
      BY <2>1, LeastOfNaturals
  <2>3. k \notin R
    <3>. SUFFICES ASSUME NEW j \in T, j < k, key[j] = key[k] PROVE FALSE
      OBVIOUS
    <3>1. j \in Bearing /\ j \in Nat /\ k \in Nat
      BY <2>1
    <3>. QED
      BY <2>2, <3>1
  <2>. QED
    BY <2>3
<1>4. \A j, k \in F : f[j] = f[k] => j = k
  <2>. SUFFICES ASSUME NEW j \in F, NEW k \in F, key[j] = key[k], j # k PROVE FALSE
    OBVIOUS
  <2>1. j < k \/ k < j
    OBVIOUS
  <2>. QED
    BY <2>1
<1>5. f \in Surjection(F, K) /\ f \in Injection(F, K)
  <2>1. DOMAIN f = F
    OBVIOUS
  <2>2. IsInjective(f)
    <3>. PICK D : D = DOMAIN f
      OBVIOUS
    <3>1. D = F
      BY <2>1
    <3>2. \A a, b \in D : f[a] = f[b] => a = b
      BY ONLY <1>4, <3>1
    <3>. QED
      BY <3>2 DEF IsInjective
  <2>. QED
    BY <1>2, <1>3, <2>2 DEF Surjection, Injection
<1>6. IsFiniteSet(K) /\ Cardinality(K) = Cardinality(F)
  BY <1>1, <1>5, FS_Surjection
<1>7. Cardinality(T) = Cardinality(F) + Cardinality(R)
  <2>1. F \cup R = T /\ F \cap R = {}
    OBVIOUS
  <2>2. Cardinality(F \cup R) = Cardinality(F) + Cardinality(R) - Cardinality(F \cap R)
    BY <1>1, FS_Union
  <2>3. Cardinality(F \cap R) = 0
    BY <2>1, FS_EmptySet
  <2>4. Cardinality(F) \in Nat /\ Cardinality(R) \in Nat
    BY <1>1, FS_CardinalityType
  <2>5. Cardinality(T) = Cardinality(F) + Cardinality(R) - 0
    <3>. PICK U : U = F \cup R
      OBVIOUS
    <3>1. U = T
      BY <2>1
    <3>2. Cardinality(U) = Cardinality(F) + Cardinality(R) - Cardinality(F \cap R)
      BY <2>2
    <3>. QED
      BY <2>3, <3>1, <3>2
  <2>. QED
    BY ONLY <2>4, <2>5
<1>8. /\ IsFiniteSet(K) /\ Cardinality(K) \in Nat /\ Cardinality(R) \in Nat
      /\ Cardinality(K) + Cardinality(R) = Cardinality(T)
  <2>1. Cardinality(K) \in Nat /\ Cardinality(R) \in Nat
    BY <1>1, <1>6, FS_CardinalityType
  <2>. QED
    BY <2>1, <1>6, <1>7
<1>. QED
  BY <1>8 DEF CountedOnce

\* Every piece is a key, a repeated key or unparsed.
LEMMA PiecesAddUp ==
  ASSUME NEW text \in PasteTexts
  PROVE  /\ IsFiniteSet(ParsedKeys(text)) /\ Cardinality(ParsedKeys(text)) \in Nat
         /\ DuplicatesIn(text) \in Nat /\ Len(Unparsed(text)) \in Nat
         /\ Cardinality(ParsedKeys(text)) + DuplicatesIn(text) + Len(Unparsed(text)) =
              Len(Pieces(text))
         /\ \A w \in Elements(Pieces(text)) :
              DetectType(w) = "none" => w \in Elements(Unparsed(text))
<1>. PICK s : s = Pieces(text)
  OBVIOUS
<1>1. s \in Seq(Readable)
  BY PiecesRead
<1>. PICK N \in SUBSET (1 .. Len(s)) : N = {k \in 1 .. Len(s) : DetectType(s[k]) = "none"}
  OBVIOUS
<1>. PICK L \in Nat : L = Len(s)
  BY <1>1
<1>10. N \in SUBSET (1 .. L) /\ N = {k \in 1 .. L : DetectType(s[k]) = "none"}
  OBVIOUS
<1>. PICK T \in SUBSET (1 .. L) : T = {k \in 1 .. L : DetectType(s[k]) # "none"}
  OBVIOUS
<1>. PICK key : key = [k \in 1 .. L |-> Normalize(s[k])]
  OBVIOUS
<1>. PICK R : R = {k \in T : \E j \in T : j < k /\ key[j] = key[k]}
  OBVIOUS
<1>. PICK K : K = {key[k] : k \in T}
  OBVIOUS
<1>2. DOMAIN s = 1 .. L
  BY <1>1
<1>3. ParsedKeys(text) = K
  <2>1. Elements(s) = {s[k] : k \in 1 .. L}
    BY <1>2 DEF Elements, ToSet
  <2>2. K = {Normalize(s[k]) : k \in T}
    OBVIOUS
  <2>3. ParsedKeys(text) = {Normalize(w) : w \in {v \in {s[k] : k \in 1 .. L} : DetectType(v) # "none"}}
    BY <2>1 DEF ParsedKeys
  <2>. QED
    BY <2>2, <2>3
<1>4. DuplicatesIn(text) = Cardinality(R)
  <2>1. R = {k \in T : \E j \in T : j < k /\ Normalize(s[j]) = Normalize(s[k])}
    OBVIOUS
  <2>. QED
    BY <1>2, <2>1 DEF DuplicatesIn
<1>5. Unparsed(text) = Picked(s, N)
  BY <1>2 DEF Unparsed
<1>6. /\ Picked(s, N) \in Seq(Readable) /\ Len(Picked(s, N)) = Cardinality(N)
      /\ Elements(Picked(s, N)) = PartOf(s, N)
  <2>1. Picked(s, N) \in Seq(Readable) /\ Len(Picked(s, N)) = Cardinality(N)
    BY <1>1, PartFits
  <2>2. Elements(Picked(s, N)) = PartOf(s, N)
    BY <1>1, PartFits
  <2>. QED
    BY <2>1, <2>2
<1>7. /\ IsFiniteSet(K) /\ Cardinality(K) \in Nat /\ Cardinality(R) \in Nat
      /\ Cardinality(K) + Cardinality(R) = Cardinality(T)
  <2>1. CountedOnce(key, T)
    BY FirstsCounted
  <2>. QED
    BY <2>1 DEF CountedOnce
<1>8. Cardinality(T) + Cardinality(N) = L /\ Cardinality(N) \in Nat /\ Cardinality(T) \in Nat
  <2>1. IsFiniteSet(T) /\ IsFiniteSet(N)
    BY PlacesFinite
  <2>2. T \cup N = 1 .. L /\ T \cap N = {}
    OBVIOUS
  <2>3. Cardinality(1 .. L) = L
    <3>1. Cardinality(1 .. L) = IF 1 > L THEN 0 ELSE L - 1 + 1
      BY 1 \in Int, L \in Int, FS_Interval
    <3>. QED
      BY <3>1
  <2>4. Cardinality(T \cup N) = Cardinality(T) + Cardinality(N) - Cardinality(T \cap N)
    BY <2>1, FS_Union
  <2>5. Cardinality(T \cap N) = 0
    BY <2>2, FS_EmptySet
  <2>6. Cardinality(T) \in Nat /\ Cardinality(N) \in Nat
    BY <2>1, FS_CardinalityType
  <2>7. L = Cardinality(T) + Cardinality(N) - 0
    BY <2>2, <2>3, <2>4, <2>5, Zenon
  <2>. QED
    BY ONLY <2>6, <2>7, L \in Nat
<1>9. \A w \in Elements(s) : DetectType(w) = "none" => w \in Elements(Unparsed(text))
  <2>1. Elements(s) = {s[k] : k \in 1 .. L}
    BY <1>2 DEF Elements, ToSet
  <2>2. Elements(Unparsed(text)) = {s[k] : k \in N}
    BY <1>5, <1>6 DEF PartOf
  <2>. QED
    BY <2>1, <2>2
<1>. QED
  BY <1>3, <1>4, <1>5, <1>6, <1>7, <1>8, <1>9

\* What a row of a key holds.
RowOfKey(key) == [key |-> key, white |-> WhitelistReason(key)]

ReportFits ==
  /\ answer.text \in PasteTexts
  /\ answer.created + answer.updated = answer.total
  /\ answer.total = Cardinality(ParsedKeys(answer.text))
  /\ answer.duplicates = DuplicatesIn(answer.text)
  /\ answer.unparsed = Unparsed(answer.text)
  /\ answer.announced = Cardinality(ExtractIocs(answer.seen))
  /\ \A k \in ParsedKeys(answer.text) : \E r \in observables : r.key = k

PasteSafe ==
  /\ paste \in PasteTexts /\ previewOf \in PasteTexts
  /\ inFlight # Unsent =>
       /\ inFlight.text \in PasteTexts
       /\ inFlight.announced = Cardinality(ExtractIocs(inFlight.seen))
  /\ answer = NoAnswer \/ ReportFits
  /\ \A r \in observables : \E w \in PastedValues : r = RowOfKey(Normalize(w))

LEMMA PasteInitSafe == ImportFormInit => PasteSafe
BY DEF ImportFormInit, PasteSafe, PasteTexts

\* A key that is parsed is a value's.
LEMMA KeysRead ==
  ASSUME NEW text \in PasteTexts, NEW k \in ParsedKeys(text)
  PROVE  \E w \in PastedValues : k = Normalize(w)
<1>. PICK w \in Elements(Pieces(text)) : DetectType(w) # "none" /\ k = Normalize(w)
  BY DEF ParsedKeys
<1>1. w.type # "WORD"
  BY DEF DetectType, Wordless
<1>. QED
  BY <1>1, PiecesRead

\* The report counts what is fresh and what is not.
LEMMA ReportCounts ==
  ASSUME NEW K, IsFiniteSet(K), NEW X \in SUBSET K
  PROVE  Cardinality(X) + Cardinality(K \ X) = Cardinality(K)
<1>. PICK Y \in SUBSET K : Y = K \ X
  OBVIOUS
<1>1. IsFiniteSet(X) /\ IsFiniteSet(Y)
  BY FS_Subset
<1>. PICK U : U = X \cup Y
  OBVIOUS
<1>2. Cardinality(U) = Cardinality(X) + Cardinality(Y) - Cardinality(X \cap Y)
  BY <1>1, FS_Union
<1>3. Cardinality(X \cap Y) = 0
  <2>1. X \cap Y = {}
    OBVIOUS
  <2>. QED
    BY <2>1, FS_EmptySet
<1>4. Cardinality(X) \in Nat /\ Cardinality(Y) \in Nat
  BY <1>1, FS_CardinalityType
<1>5. U = K
  OBVIOUS
<1>. QED
  BY <1>2, <1>3, <1>4, <1>5

LEMMA IngestedSafe ==
  ASSUME PasteSafe, Ingested
  PROVE  PasteSafe'
<1>. PICK text \in PasteTexts : text = inFlight.text
  BY DEF PasteSafe, Ingested
<1>. PICK keys : keys = ParsedKeys(text)
  OBVIOUS
<1>. PICK fresh \in SUBSET keys : fresh = {k \in keys : \A r \in observables : r.key # k}
  OBVIOUS
<1>1. answer' = Report(inFlight)
  BY DEF Ingested
<1>2. /\ answer'.text = text /\ answer'.seen = inFlight.seen
      /\ answer'.announced = inFlight.announced
      /\ answer'.created = Cardinality(fresh) /\ answer'.updated = Cardinality(keys \ fresh)
      /\ answer'.duplicates = DuplicatesIn(text) /\ answer'.unparsed = Unparsed(text)
      /\ answer'.total = Cardinality(keys)
  BY <1>1 DEF Report
<1>3. Cardinality(fresh) + Cardinality(keys \ fresh) = Cardinality(keys)
  BY PiecesAddUp, ReportCounts
<1>4. observables' = observables \cup {RowOfKey(k) : k \in fresh}
  BY DEF Ingested, RowOfKey
<1>5. \A k \in keys : \E r \in observables' : r.key = k
  <2>. SUFFICES ASSUME NEW k \in keys PROVE \E r \in observables' : r.key = k
    OBVIOUS
  <2>1. CASE k \in fresh
    <3>1. RowOfKey(k) \in observables' /\ RowOfKey(k).key = k
      BY <1>4, <2>1 DEF RowOfKey
    <3>. QED
      BY <3>1
  <2>2. CASE k \notin fresh
    BY <1>4, <2>2
  <2>. QED
    BY <2>1, <2>2
<1>6. ReportFits'
  BY <1>2, <1>3, <1>5 DEF ReportFits, PasteSafe, Ingested
<1>7. \A r \in observables' : \E w \in PastedValues : r = RowOfKey(Normalize(w))
  <2>1. \A k \in fresh : \E w \in PastedValues : RowOfKey(k) = RowOfKey(Normalize(w))
    BY KeysRead
  <2>. QED
    BY <1>4, <2>1 DEF PasteSafe
<1>8. inFlight' = Unsent /\ paste' = paste /\ previewOf' = previewOf
  BY DEF Ingested
<1>. QED
  BY <1>6, <1>7, <1>8 DEF PasteSafe

LEMMA PasteStepSafe ==
  ASSUME PasteSafe, [ImportFormNext]_importFormVars
  PROVE  PasteSafe'
<1>1. CASE UNCHANGED importFormVars
  BY <1>1 DEF importFormVars, PasteSafe, ReportFits
<1>2. ASSUME NEW text \in Pastes, Paste(text) PROVE PasteSafe'
  BY <1>2 DEF Paste, PasteSafe, ReportFits, PasteTexts
<1>3. CASE Debounced
  BY <1>3 DEF Debounced, PasteSafe, ReportFits
<1>4. CASE Submit
  BY <1>4 DEF Submit, PasteSafe, ReportFits
<1>5. CASE Ingested
  BY <1>5, IngestedSafe
<1>. QED
  BY <1>1, <1>2, <1>3, <1>4, <1>5 DEF ImportFormNext

\* Two rows of one observable are one.
LEMMA RowsAreTold ==
  ASSUME PasteSafe, NEW r \in observables, NEW s \in observables,
         SameObservable(r.key, s.key)
  PROVE  r = s
<1>. PICK w \in PastedValues : r = RowOfKey(Normalize(w))
  BY DEF PasteSafe
<1>. PICK v \in PastedValues : s = RowOfKey(Normalize(v))
  BY DEF PasteSafe
<1>1. SameObservable(Normalize(w), Normalize(v))
  BY DEF RowOfKey
<1>2. w.type = v.type /\ w.id = v.id
  BY <1>1 DEF SameObservable, Normalize
<1>3. w.class = v.class /\ w.host = v.host
  BY <1>2, ValuesNamed
<1>4. Normalize(w).marks = Normalize(v).marks
  BY <1>1, <1>2 DEF SameObservable, Normalize
<1>5. Normalize(w) = Normalize(v)
  BY <1>2, <1>3, <1>4 DEF Normalize
<1>. QED
  BY <1>5

\* The observable of a value is that of its key.
LEMMA KeyIsObserved ==
  ASSUME NEW w
  PROVE  SameObservable(Normalize(w), w)
<1>1. "defanged" \notin Significant(w.type)
  BY DEF Significant
<1>. QED
  BY <1>1 DEF SameObservable, Normalize, Refanged

\* An empty text has no piece and is no list.
LEMMA EmptyRead == Pieces(Empty) = <<>> /\ IsProse(Empty)
<1>1. Empty.lines = <<>> /\ Len(Empty.lines) = 0 /\ 1 .. 0 = {}
  BY DEF Empty
<1>2. IsProse(Empty)
  <2>1. {k \in 1 .. Len(Empty.lines) : ~Empty.lines[k].comment} = {}
    BY <1>1
  <2>2. Cardinality({k \in 1 .. Len(Empty.lines) : ~Empty.lines[k].comment}) = 0
    BY <2>1, FS_EmptySet
  <2>. QED
    BY <2>2 DEF IsProse
<1>3. Pieces(Empty) = <<>>
  <2>. DEFINE separators == {"tab", "semicolon", "spaces", "comma"}
  <2>. PICK seqs : seqs = [k \in 1 .. Len(Empty.lines) |->
                             IF Empty.lines[k].comment THEN <<>>
                             ELSE SplitAt(Empty.lines[k], separators)]
    OBVIOUS
  <2>1. seqs = <<>>
    BY <1>1
  <2>2. Len(seqs) = 0
    BY <2>1
  <2>3. FlattenSeq(seqs) = seqs
    BY <2>2, Zenon DEF FlattenSeq
  <2>4. Pieces(Empty) = FlattenSeq(seqs)
    BY DEF Pieces, Tokens
  <2>. QED
    BY <2>1, <2>3, <2>4
<1>. QED
  BY <1>2, <1>3

LEMMA SafeAccounts ==
  ASSUME PasteSafe
  PROVE  EveryValueAccounted
<1>1. \A r, s \in observables : SameObservable(r.key, s.key) => r = s
  BY RowsAreTold
<1>2. CASE answer = NoAnswer
  <2>1. answer.text = Empty /\ answer.unparsed = <<>>
        /\ answer.created = 0 /\ answer.updated = 0 /\ answer.duplicates = 0
    BY <1>2 DEF NoAnswer
  <2>2. Pieces(answer.text) = <<>>
    BY <2>1, EmptyRead
  <2>3. Elements(Pieces(answer.text)) = {}
    BY <2>2 DEF Elements, ToSet
  <2>4. answer.created + answer.updated + answer.duplicates + Len(answer.unparsed) =
          Len(Pieces(answer.text))
    BY <2>1, <2>2
  <2>. QED
    BY <1>1, <2>3, <2>4 DEF EveryValueAccounted
<1>3. CASE ReportFits
  <2>. PICK text \in PasteTexts : text = answer.text
    BY <1>3 DEF ReportFits
  <2>1. ASSUME NEW w \in Elements(Pieces(text))
        PROVE  \/ \E r \in observables : SameObservable(r.key, w)
               \/ w \in Elements(answer.unparsed)
    <3>1. CASE DetectType(w) = "none"
      BY <1>3, <3>1, PiecesAddUp DEF ReportFits
    <3>2. CASE DetectType(w) # "none"
      <4>1. Normalize(w) \in ParsedKeys(text)
        BY <3>2 DEF ParsedKeys
      <4>. PICK r \in observables : r.key = Normalize(w)
        BY <1>3, <4>1 DEF ReportFits
      <4>2. SameObservable(r.key, w)
        BY KeyIsObserved
      <4>. QED
        BY <4>2
    <3>. QED
      BY <3>1, <3>2
  <2>2. answer.created + answer.updated + answer.duplicates + Len(answer.unparsed) =
          Len(Pieces(answer.text))
    <3>1. Cardinality(ParsedKeys(text)) + DuplicatesIn(text) + Len(Unparsed(text)) =
            Len(Pieces(text))
      BY PiecesAddUp
    <3>2. /\ answer.created + answer.updated = Cardinality(ParsedKeys(text))
          /\ answer.duplicates = DuplicatesIn(text) /\ answer.unparsed = Unparsed(text)
      BY <1>3 DEF ReportFits
    <3>. QED
      BY <3>1, <3>2
  <2>. QED
    BY <1>1, <2>1, <2>2 DEF EveryValueAccounted
<1>. QED
  BY <1>2, <1>3 DEF PasteSafe

\* Both readings of a plain text come to the same keys.
LEMMA PlainReadAlike ==
  ASSUME NEW text \in PasteTexts, Plain(text)
  PROVE  InLines(text) = ParsedKeys(text)
<1>1. Tokens(text, {"tab", "comma"}) = Pieces(text)
  <2>1. \A k \in 1 .. Len(text.lines) :
          SplitAt(text.lines[k], {"tab", "comma"}) =
            SplitAt(text.lines[k], {"tab", "semicolon", "spaces", "comma"})
    BY DEF Plain, SplitAt
  <2>. QED
    BY <2>1 DEF Pieces, Tokens
<1>2. ASSUME NEW w \in Elements(Pieces(text))
      PROVE  /\ Patterned(w) /\ w.type # "USER_AGENT" /\ DetectType(w) # "none"
             /\ ClassifyLine(w) = Normalize(w)
  <2>1. w.type \notin Wordless /\ w.marks \subseteq {"defanged", "case", "form"}
    BY DEF Plain
  <2>2. w \in PastedValues
    BY <2>1, PiecesRead DEF Wordless
  <2>3. w.type # "none"
    BY <2>2, ValuesNamed
  <2>4. DetectType(w) = w.type
    BY <2>1 DEF DetectType
  <2>5. w.marks \cap ShownMarks(w.type) = Refanged(w) \cap Significant(w.type)
    <3>1. w.type \notin {"MUTEX", "USER_AGENT"}
      BY <2>1 DEF Wordless
    <3>2. {"defanged", "case", "form"} \cap ShownMarks(w.type) =
            {"case", "form"} \cap Significant(w.type)
      BY <3>1 DEF ShownMarks, Significant, Verbatim
    <3>. QED
      BY <2>1, <3>2 DEF Refanged
  <2>6. Patterned(w) /\ w.type # "USER_AGENT"
    BY <2>1 DEF Patterned, Wordless
  <2>7. ClassifyLine(w) = Normalize(w)
    BY <2>5 DEF ClassifyLine, ShownWith, Normalize
  <2>. QED
    BY <2>3, <2>4, <2>6, <2>7
<1>3. InLines(text) = {ClassifyLine(w) : w \in Elements(Pieces(text))}
  BY <1>1, <1>2 DEF InLines
<1>4. ParsedKeys(text) = {Normalize(w) : w \in Elements(Pieces(text))}
  BY <1>2 DEF ParsedKeys
<1>5. {ClassifyLine(w) : w \in Elements(Pieces(text))} = {Normalize(w) : w \in Elements(Pieces(text))}
  BY <1>2
<1>. QED
  BY <1>3, <1>4, <1>5

LEMMA SafeAnnounces ==
  ASSUME PasteSafe
  PROVE  AnnouncedAsStored
<1>. SUFFICES ASSUME answer.seen = answer.text, Plain(answer.text)
              PROVE  answer.announced = answer.total
  BY DEF AnnouncedAsStored
<1>1. answer # NoAnswer
  BY EmptyRead DEF NoAnswer, Plain
<1>2. ReportFits
  BY <1>1 DEF PasteSafe
<1>3. InLines(answer.text) = ParsedKeys(answer.text)
  BY <1>2, PlainReadAlike DEF ReportFits
<1>4. ExtractIocs(answer.seen) = InLines(answer.text)
  BY DEF Plain, ExtractIocs
<1>. QED
  BY <1>2, <1>3, <1>4 DEF ReportFits

\* Whatever is pasted after whatever, each value of the text that was sent is
\* a row or comes back unparsed, the counts add up to its pieces, an observable
\* has one row, and a plain list was announced as it is stored
\* (src/app/(app)/indicators/import/import-form.tsx, src/lib/ioc/normalize.ts).
THEOREM PastesDoAddUp == PasteSpec => []PastesAddUp
<1>1. ImportFormInit => PasteSafe
  BY PasteInitSafe
<1>2. PasteSafe /\ [ImportFormNext]_importFormVars => PasteSafe'
  BY PasteStepSafe
<1>3. PasteSafe => PastesAddUp
  BY SafeAccounts, SafeAnnounces DEF PastesAddUp
<1>. QED
  BY <1>1, <1>2, <1>3, PTL DEF PasteSpec
-----------------------------------------------------------------------------
(* Search results.  Ranked: in the order of their ranks.                   *)

Ranked(rows, S, q) ==
  /\ ToSet(rows) = S
  /\ \A i, j \in DOMAIN rows : i < j => RankOf(rows[i], q) >= RankOf(rows[j], q)

\* A number asked for outranks every similarity.
LEMMA RankTyped ==
  ASSUME NEW e \in Entries, NEW q
  PROVE  /\ RankOf(e, q) \in 0 .. 10
         /\ RankOf(e, q) = 10 <=> e.kind \in {"technique", "vulnerability"} /\ e.number = q
<1>1. e.rank \in 0 .. 9
  BY PaletteAssumption
<1>. QED
  BY <1>1 DEF RankOf

\* Rows can be put in the order of their ranks: the first is one of the best.
LEMMA CanBeRanked ==
  ASSUME NEW q, NEW S \in SUBSET Entries
  PROVE  \E rows \in [1 .. Cardinality(S) -> S] : Ranked(rows, S, q)
<1>. DEFINE Can(T) == \E rows \in [1 .. Cardinality(T) -> T] : Ranked(rows, T, q)
            Bad == {n \in Nat : \E T \in SUBSET Entries : Cardinality(T) = n /\ ~Can(T)}
<1>1. \A T \in SUBSET Entries : IsFiniteSet(T) /\ Cardinality(T) \in Nat
  BY PaletteAssumption, FS_Subset, FS_CardinalityType
<1>. SUFFICES ASSUME ~Can(S) PROVE FALSE
  OBVIOUS
<1>2. Bad \in SUBSET Nat /\ Bad # {}
  <2>1. Cardinality(S) \in Bad
    BY <1>1
  <2>. HIDE DEF Can
  <2>. QED
    BY <2>1
<1>3. PICK n \in Bad : \A m \in Bad : n <= m
  <2>. HIDE DEF Bad
  <2>. QED
    BY <1>2, LeastOfNaturals
<1>4. PICK T \in SUBSET Entries : Cardinality(T) = n /\ ~Can(T)
  OBVIOUS
<1>5. n \in Nat
  OBVIOUS
<1>6. T # {}
  <2>. SUFFICES ASSUME T = {} PROVE FALSE
    OBVIOUS
  <2>1. n = 0
    BY <1>4, FS_EmptySet
  <2>. PICK rows : rows = [i \in 1 .. 0 |-> i]
    OBVIOUS
  <2>2. rows \in [1 .. Cardinality(T) -> T]
    BY <1>4, <2>1
  <2>3. Ranked(rows, T, q)
    BY DEF Ranked, ToSet
  <2>. QED
    BY <1>4, <2>2, <2>3
<1>7. PICK e \in T : \A d \in T : RankOf(e, q) >= RankOf(d, q)
  <2>. DEFINE Short == {10 - RankOf(d, q) : d \in T}
  <2>1. \A d \in T : RankOf(d, q) \in Int /\ RankOf(d, q) <= 10
    BY RankTyped
  <2>2. Short \in SUBSET Nat /\ Short # {}
    BY <1>6, <2>1
  <2>3. PICK x \in Short : \A y \in Short : x <= y
    <3>. HIDE DEF Short
    <3>. QED
      BY <2>2, LeastOfNaturals
  <2>4. PICK e \in T : x = 10 - RankOf(e, q)
    OBVIOUS
  <2>5. \A d \in T : 10 - RankOf(e, q) <= 10 - RankOf(d, q)
    BY <2>3, <2>4
  <2>6. \A d \in T : RankOf(e, q) >= RankOf(d, q)
    BY <2>1, <2>5
  <2>. QED
    BY <2>6
<1>8. PICK R \in SUBSET Entries : R = T \ {e}
  OBVIOUS
<1>9. Cardinality(R) = n - 1 /\ n - 1 \in Nat
  <2>1. IsFiniteSet(T) /\ Cardinality(R) \in Nat
    BY <1>1
  <2>. QED
    BY <1>4, <1>5, <1>8, <2>1, FS_RemoveElement
<1>10. Can(R)
  <2>1. ~(n <= n - 1)
    BY <1>5
  <2>2. n - 1 \notin Bad
    BY <1>3, <2>1
  <2>. HIDE DEF Can
  <2>. QED
    BY <1>9, <2>2
<1>11. PICK g \in [1 .. n - 1 -> R] : Ranked(g, R, q)
  BY <1>9, <1>10
<1>. PICK f : f = [i \in 1 .. n |-> IF i = 1 THEN e ELSE g[i - 1]]
  OBVIOUS
<1>12. \A i \in 1 .. n : i # 1 => i - 1 \in 1 .. n - 1
  BY <1>5
<1>13. /\ f \in [1 .. n -> T] /\ DOMAIN f = 1 .. n /\ f[1] = e /\ 1 \in 1 .. n
       /\ \A i \in 1 .. n : i # 1 => f[i] = g[i - 1]
  <2>1. 1 \in 1 .. n
    BY <1>5, <1>9
  <2>. QED
    BY <1>8, <1>12, <2>1
<1>14. ToSet(f) = T
  <2>1. \A d \in R : \E i \in 1 .. n - 1 : g[i] = d
    BY <1>11 DEF Ranked, ToSet
  <2>2. \A d \in R : \E i \in 1 .. n : f[i] = d
    <3>. SUFFICES ASSUME NEW d \in R PROVE \E i \in 1 .. n : f[i] = d
      OBVIOUS
    <3>1. PICK i \in 1 .. n - 1 : g[i] = d
      BY <2>1
    <3>2. i + 1 \in 1 .. n /\ i + 1 # 1 /\ i + 1 - 1 = i
      BY <1>5
    <3>3. f[i + 1] = d
      BY <1>13, <3>1, <3>2
    <3>. QED
      BY <3>2, <3>3
  <2>. QED
    BY <1>8, <1>13, <2>2 DEF ToSet
<1>15. \A i, j \in DOMAIN f : i < j => RankOf(f[i], q) >= RankOf(f[j], q)
  <2>. SUFFICES ASSUME NEW i \in 1 .. n, NEW j \in 1 .. n, i < j
                PROVE  RankOf(f[i], q) >= RankOf(f[j], q)
    BY <1>13
  <2>1. CASE i = 1
    BY <1>7, <1>13, <2>1
  <2>2. CASE i # 1
    <3>1. j # 1 /\ i - 1 \in 1 .. n - 1 /\ j - 1 \in 1 .. n - 1 /\ i - 1 < j - 1
      BY <1>5, <2>2
    <3>2. RankOf(g[i - 1], q) >= RankOf(g[j - 1], q)
      BY <1>11, <3>1 DEF Ranked
    <3>. QED
      BY <1>13, <2>2, <3>1, <3>2
  <2>. QED
    BY <2>1, <2>2
<1>. QED
  BY <1>4, <1>13, <1>14, <1>15 DEF Ranked

LEMMA RankedRows ==
  ASSUME NEW q, NEW S \in SUBSET Entries
  PROVE  ByRank(S, q) \in [1 .. Cardinality(S) -> S] /\ Ranked(ByRank(S, q), S, q)
BY CanBeRanked DEF ByRank, Ranked

\* A row with the number asked for heads the rows.
LEMMA NumberHeads ==
  ASSUME NEW q, NEW S \in SUBSET Entries, NEW e \in S, RankOf(e, q) = 10
  PROVE  /\ 1 \in DOMAIN ByRank(S, q) /\ ByRank(S, q)[1] \in S
         /\ RankOf(ByRank(S, q)[1], q) = 10
<1>. PICK rows : rows = ByRank(S, q)
  OBVIOUS
<1>. PICK n \in Nat : n = Cardinality(S)
  BY PaletteAssumption, FS_Subset, FS_CardinalityType
<1>1. rows \in [1 .. n -> S] /\ Ranked(rows, S, q)
  BY RankedRows
<1>2. PICK i \in 1 .. n : rows[i] = e
  BY <1>1 DEF Ranked, ToSet
<1>3. 1 \in 1 .. n /\ (i = 1 \/ 1 < i)
  BY <1>2
<1>4. RankOf(rows[1], q) >= 10
  <2>1. CASE i = 1
    BY <1>2, <2>1
  <2>2. CASE 1 < i
    BY <1>1, <1>2, <1>3, <2>2 DEF Ranked
  <2>. QED
    BY <1>3, <2>1, <2>2
<1>5. rows[1] \in S
  BY <1>1, <1>3
<1>6. RankOf(rows[1], q) \in 0 .. 10
  BY <1>5, RankTyped
<1>. QED
  BY <1>1, <1>3, <1>4, <1>5, <1>6

\* What is found by its number heads everything that is found.
LEMMA NumberFound ==
  ASSUME NEW q, q \notin ShortQueries, NEW e \in Entries,
         e.number = q, e.kind \in {"technique", "vulnerability"}, ~e.deprecated
  PROVE  Search(q)[1].number = q
<1>. DEFINE Rows(kind) == {d \in Entries : d.kind = kind /\ Satisfies(d, q)}
            All == UNION {Best(kind, q) : kind \in EntryKinds}
<1>1. e \in Rows(e.kind) /\ e.kind \in EntryKinds
  BY DEF Satisfies, EntryKinds
<1>2. RankOf(e, q) = 10
  BY RankTyped
<1>3. \A kind : Best(kind, q) \subseteq Rows(kind)
  <2>. SUFFICES ASSUME NEW kind PROVE Best(kind, q) \subseteq Rows(kind)
    OBVIOUS
  <2>1. ByRank(Rows(kind), q) \in [1 .. Cardinality(Rows(kind)) -> Rows(kind)]
    BY RankedRows
  <2>. HIDE DEF Rows
  <2>2. Best(kind, q) = {ByRank(Rows(kind), q)[i] :
                           i \in {k \in DOMAIN ByRank(Rows(kind), q) : k <= PerTypeLimit}}
    BY DEF Best, Rows
  <2>. QED
    BY <2>1, <2>2
<1>4. PICK d : d \in Best(e.kind, q) /\ RankOf(d, q) = 10
  <2>. PICK S \in SUBSET Entries : S = Rows(e.kind)
    OBVIOUS
  <2>1. /\ 1 \in DOMAIN ByRank(S, q) /\ ByRank(S, q)[1] \in S
        /\ RankOf(ByRank(S, q)[1], q) = 10
    <3>1. e \in S
      BY <1>1
    <3>. QED
      BY <1>2, <3>1, NumberHeads
  <2>2. 1 <= PerTypeLimit
    BY PaletteAssumption
  <2>3. ByRank(S, q)[1] \in Best(e.kind, q)
    BY <2>1, <2>2 DEF Best
  <2>. QED
    BY <2>1, <2>3
<1>5. d \in All /\ All \in SUBSET Entries
  BY <1>1, <1>3, <1>4
<1>6. Search(q) = ByRank(All, q)
  BY DEF Search
<1>. HIDE DEF All
<1>7. ByRank(All, q)[1] \in All /\ RankOf(ByRank(All, q)[1], q) = 10
  BY <1>4, <1>5, NumberHeads
<1>. QED
  BY <1>5, <1>6, <1>7, RankTyped
-----------------------------------------------------------------------------
(* The search palette.  The newest request is about what the box says,     *)
(* unless the timer is about to send another.                              *)

PaletteSpec == PaletteInit /\ [][PaletteNext]_paletteVars

Typed == Queries \cup {""}
PaletteState ==
  [open : BOOLEAN, query : Typed, hits : {<<>>} \cup {Search(q) : q \in Typed},
   loading : BOOLEAN, timer : Typed \cup {NoQuery}, requests : SUBSET [n : Nat, q : Typed],
   issued : Nat, applied : Nat, ok : BOOLEAN]

RequestsNumbered(p) ==
  /\ p.applied <= p.issued
  /\ \A r \in p.requests : r.n <= p.issued /\ r.n # p.applied
  /\ \A r, s \in p.requests : r.n = s.n => r = s

NewestFits(p) ==
  /\ ~p.ok => p.hits = <<>>
  /\ p.timer # NoQuery => p.timer = p.query
  /\ p.open /\ p.query \notin ShortQueries /\ p.timer = NoQuery =>
       /\ p.loading => p.requests # {}
       /\ \A r \in p.requests : r.n = p.issued => r.q = p.query
       /\ p.applied = p.issued /\ p.ok => p.hits = Search(p.query)

PaletteSafe == palette \in PaletteState /\ RequestsNumbered(palette) /\ NewestFits(palette)

\* The effect leaves no timer for another query than the one in the box.
LEMMA EffectFits ==
  ASSUME NEW p \in PaletteState, RequestsNumbered(p), ~p.ok => p.hits = <<>>,
         palette' = AfterEffect(p)
  PROVE  PaletteSafe'
<1>. PICK e : e = palette'
  OBVIOUS
<1>0. p.query # NoQuery
  BY PaletteAssumption DEF PaletteState, Typed, NoQuery
<1>1. CASE ~p.open
  <2>1. e = [p EXCEPT !.timer = NoQuery]
    BY <1>1 DEF AfterEffect
  <2>2. /\ e \in PaletteState /\ e.open = p.open /\ e.timer = NoQuery
        /\ e.requests = p.requests /\ e.issued = p.issued /\ e.applied = p.applied
        /\ ~e.ok => e.hits = <<>>
    BY <2>1 DEF PaletteState
  <2>. QED
    BY <1>1, <2>2 DEF PaletteSafe, RequestsNumbered, NewestFits
<1>2. CASE p.open /\ p.query \in ShortQueries
  <2>1. e = [p EXCEPT !.timer = NoQuery, !.hits = <<>>]
    BY <1>2 DEF AfterEffect
  <2>2. /\ e \in PaletteState /\ e.query = p.query /\ e.timer = NoQuery
        /\ e.requests = p.requests /\ e.issued = p.issued /\ e.applied = p.applied
        /\ ~e.ok => e.hits = <<>>
    BY <2>1 DEF PaletteState
  <2>. QED
    BY <1>2, <2>2 DEF PaletteSafe, RequestsNumbered, NewestFits
<1>3. CASE p.open /\ p.query \notin ShortQueries
  <2>1. e = [p EXCEPT !.timer = p.query, !.loading = TRUE]
    BY <1>3 DEF AfterEffect, Timer
  <2>2. /\ e \in PaletteState /\ e.query = p.query /\ e.timer = p.query
        /\ e.requests = p.requests /\ e.issued = p.issued /\ e.applied = p.applied
        /\ ~e.ok => e.hits = <<>>
    BY <2>1 DEF PaletteState
  <2>. QED
    BY <1>0, <2>2 DEF PaletteSafe, RequestsNumbered, NewestFits
<1>. QED
  BY <1>1, <1>2, <1>3

LEMMA SendFits ==
  ASSUME PaletteSafe, SendSearch
  PROVE  PaletteSafe'
<1>. PICK e : e = palette'
  OBVIOUS
<1>. PICK n \in Nat : n = palette.issued
  BY DEF PaletteSafe, PaletteState
<1>. PICK q \in Typed : q = palette.timer
  BY DEF SendSearch, PaletteSafe, PaletteState
<1>. PICK r : r = [n |-> n + 1, q |-> q]
  OBVIOUS
<1>1. palette \in PaletteState
  BY DEF PaletteSafe
<1>2. e = [palette EXCEPT !.timer = NoQuery, !.issued = n + 1,
                          !.requests = palette.requests \cup {r}]
  BY <1>1 DEF SendSearch, PaletteState
<1>3. r \in [n : Nat, q : Typed] /\ r.n = n + 1 /\ r.q = q
  OBVIOUS
<1>4. /\ e \in PaletteState /\ e.timer = NoQuery /\ e.issued = n + 1 /\ e.query = palette.query
      /\ e.requests = palette.requests \cup {r} /\ e.applied = palette.applied
  <2>1. palette.requests \cup {r} \in SUBSET [n : Nat, q : Typed] /\ n + 1 \in Nat
    BY <1>1, <1>3 DEF PaletteState
  <2>2. e \in PaletteState
    BY <1>1, <1>2, <2>1 DEF PaletteState
  <2>. QED
    BY <1>1, <1>2, <2>2 DEF PaletteState
<1>5. /\ palette.applied \in Nat /\ palette.applied <= n /\ palette.query = q
      /\ \A s \in palette.requests : s.n \in Nat /\ s.n <= n /\ s.n # palette.applied
  BY <1>1 DEF PaletteSafe, RequestsNumbered, NewestFits, SendSearch, PaletteState
<1>6. \A s, t \in palette.requests : s.n = t.n => s = t
  BY DEF PaletteSafe, RequestsNumbered
<1>7. RequestsNumbered(e)
  BY <1>3, <1>4, <1>5, <1>6 DEF RequestsNumbered
<1>8. NewestFits(e)
  <2>1. \A s \in e.requests : s.n = n + 1 => s = r
    BY <1>4, <1>5
  <2>2. e.ok = palette.ok /\ e.hits = palette.hits
    BY <1>1, <1>2 DEF PaletteState
  <2>3. ~palette.ok => palette.hits = <<>>
    BY DEF PaletteSafe, NewestFits
  <2>. QED
    BY <1>3, <1>4, <1>5, <2>1, <2>2, <2>3 DEF NewestFits
<1>. QED
  BY <1>4, <1>7, <1>8 DEF PaletteSafe

LEMMA AnswerFits ==
  ASSUME PaletteSafe, NEW r \in palette.requests, NEW ok \in BOOLEAN,
         NEW hits \in {<<>>} \cup {Search(q) : q \in Typed}, ok => hits = Search(r.q),
         ~ok => hits = <<>>,
         Answered(r, hits, ok)
  PROVE  PaletteSafe'
<1>. PICK e : e = palette'
  OBVIOUS
<1>. PICK n \in Nat : n = r.n
  BY DEF PaletteSafe, PaletteState
<1>1. palette \in PaletteState
  BY DEF PaletteSafe
<1>2. e = [palette EXCEPT !.requests = palette.requests \ {r}, !.hits = hits,
                          !.loading = FALSE, !.applied = n, !.ok = ok]
  BY <1>1 DEF Answered, PaletteState
<1>3. palette.requests \ {r} \in SUBSET [n : Nat, q : Typed]
  BY <1>1 DEF PaletteState
<1>4. e \in PaletteState
  BY <1>1, <1>2, <1>3 DEF PaletteState
<1>5. /\ e.requests = palette.requests \ {r} /\ e.hits = hits /\ e.loading = FALSE
      /\ e.applied = n /\ e.ok = ok /\ e.issued = palette.issued /\ e.timer = palette.timer
      /\ e.query = palette.query /\ e.open = palette.open
  BY <1>1, <1>2 DEF PaletteState
<1>6. RequestsNumbered(e)
  BY <1>5 DEF PaletteSafe, RequestsNumbered
<1>7. NewestFits(e)
  BY <1>5 DEF PaletteSafe, NewestFits
<1>. QED
  BY <1>4, <1>6, <1>7 DEF PaletteSafe

LEMMA PaletteStep ==
  PaletteSafe /\ [PaletteNext]_paletteVars => PaletteSafe'
<1>. SUFFICES ASSUME PaletteSafe, [PaletteNext]_paletteVars PROVE PaletteSafe'
  OBVIOUS
<1>1. /\ palette \in PaletteState /\ RequestsNumbered(palette)
      /\ ~palette.ok => palette.hits = <<>>
  BY DEF PaletteSafe, NewestFits
<1>2. CASE OpenPalette
  <2>. PICK p : p = [palette EXCEPT !.open = TRUE, !.query = "", !.hits = <<>>]
    OBVIOUS
  <2>1. /\ p \in PaletteState /\ p.requests = palette.requests /\ p.issued = palette.issued
        /\ p.applied = palette.applied /\ (~p.ok => p.hits = <<>>)
    BY <1>1 DEF PaletteState, Typed
  <2>2. RequestsNumbered(p)
    BY <1>1, <2>1 DEF RequestsNumbered
  <2>3. palette' = AfterEffect(p)
    BY <1>2 DEF OpenPalette
  <2>. QED
    BY <1>1, <2>1, <2>2, <2>3, EffectFits
<1>3. CASE ClosePalette
  <2>. PICK p : p = [palette EXCEPT !.open = FALSE]
    OBVIOUS
  <2>1. /\ p \in PaletteState /\ p.requests = palette.requests /\ p.issued = palette.issued
        /\ p.applied = palette.applied /\ (~p.ok => p.hits = <<>>)
    BY <1>1 DEF PaletteState
  <2>2. RequestsNumbered(p)
    BY <1>1, <2>1 DEF RequestsNumbered
  <2>3. palette' = AfterEffect(p)
    BY <1>3 DEF ClosePalette
  <2>. QED
    BY <1>1, <2>1, <2>2, <2>3, EffectFits
<1>4. ASSUME NEW q \in Queries, TypeQuery(q) PROVE PaletteSafe'
  <2>. PICK p : p = [palette EXCEPT !.query = q]
    OBVIOUS
  <2>1. /\ p \in PaletteState /\ p.requests = palette.requests /\ p.issued = palette.issued
        /\ p.applied = palette.applied /\ (~p.ok => p.hits = <<>>)
    BY <1>1 DEF PaletteState, Typed
  <2>2. RequestsNumbered(p)
    BY <1>1, <2>1 DEF RequestsNumbered
  <2>3. palette' = AfterEffect(p)
    BY <1>4 DEF TypeQuery
  <2>. QED
    BY <1>1, <2>1, <2>2, <2>3, EffectFits
<1>5. CASE SendSearch
  BY <1>5, SendFits
<1>6. ASSUME NEW r \in palette.requests, SearchAnswered(r) PROVE PaletteSafe'
  <2>1. r.q \in Typed
    BY <1>1 DEF PaletteState
  <2>. PICK hits \in {<<>>} \cup {Search(q) : q \in Typed} : hits = Search(r.q)
    BY <2>1
  <2>. PICK ok \in BOOLEAN : ok = TRUE
    OBVIOUS
  <2>2. Answered(r, hits, ok)
    BY <1>6 DEF SearchAnswered
  <2>. QED
    BY <2>2, AnswerFits
<1>7. ASSUME NEW r \in palette.requests, SearchFailed(r) PROVE PaletteSafe'
  <2>. PICK hits \in {<<>>} \cup {Search(q) : q \in Typed} : hits = <<>>
    OBVIOUS
  <2>. PICK ok \in BOOLEAN : ok = FALSE
    OBVIOUS
  <2>1. Answered(r, hits, ok)
    BY <1>7 DEF SearchFailed
  <2>. QED
    BY <2>1, AnswerFits
<1>8. CASE UNCHANGED paletteVars
  BY <1>8 DEF paletteVars, PaletteSafe
<1>. QED
  BY <1>2, <1>3, <1>4, <1>5, <1>6, <1>7, <1>8 DEF PaletteNext

LEMMA SafeSettles == PaletteSafe => PaletteSettles
BY DEF PaletteSafe, PaletteState, NewestFits, PaletteSettles, Asking, Quiet

\* Hits are those of the request that was answered, and one that failed has none.
LEMMA SafeNumber == PaletteSafe => NumberFirst
<1>. SUFFICES ASSUME PaletteSafe, palette.hits # <<>>, NEW e \in Entries,
                     Asking, Quiet, palette.applied = palette.issued,
                     e.number = palette.query,
                     e.kind \in {"technique", "vulnerability"}, ~e.deprecated
              PROVE  palette.hits[1].number = palette.query
  BY DEF NumberFirst
<1>1. palette.hits = Search(palette.query) /\ palette.query \notin ShortQueries
  BY DEF PaletteSafe, PaletteState, NewestFits, Asking, Quiet
<1>. QED
  BY <1>1, NumberFound

\* However keys, closings and answers fall, and in whatever order: a palette
\* with nothing under way is not left searching, and shows what its box asks
\* for unless the last answer was late or an error; and a technique or CVE asked
\* for by its number heads what is shown (CommandPalette, search).
THEOREM PaletteDoesAnswer == PaletteSpec => []PaletteAnswers
<1>1. PaletteInit => PaletteSafe
  <2>. SUFFICES ASSUME PaletteInit PROVE PaletteSafe
    OBVIOUS
  <2>1. {} \in SUBSET [n : Nat, q : Typed] /\ <<>> \in {<<>>} \cup {Search(q) : q \in Typed}
    OBVIOUS
  <2>2. palette \in PaletteState
    BY <2>1 DEF PaletteInit, PaletteState, Typed, NoQuery
  <2>3. /\ palette.requests = {} /\ palette.applied = 0 /\ palette.issued = 0
        /\ palette.timer = NoQuery /\ palette.open = FALSE /\ palette.ok = TRUE
    BY DEF PaletteInit, NoQuery
  <2>4. RequestsNumbered(palette) /\ NewestFits(palette)
    BY <2>3 DEF RequestsNumbered, NewestFits
  <2>. QED
    BY <2>2, <2>4 DEF PaletteSafe
<1>2. PaletteSafe /\ [PaletteNext]_paletteVars => PaletteSafe'
  BY PaletteStep
<1>3. PaletteSafe => PaletteAnswers
  BY SafeSettles, SafeNumber DEF PaletteAnswers
<1>. QED
  BY <1>1, <1>2, <1>3, PTL DEF PaletteSpec
-----------------------------------------------------------------------------
(* The hunt builder.  A row is always one its controls can make.           *)

BuilderSpec == BuilderInit /\ [][BuilderNext]_builderVars

HuntAst == [match : {"all", "any"}, rows : Seq(HuntRow)]
BuilderSafe ==
  /\ draft = Closed \/ (draft \in HuntAst /\ draft.rows # <<>>)
  /\ savedHunt = None \/ ( /\ savedHunt \in HuntAst /\ Valid(savedHunt)
                           /\ Validated(savedHunt) = savedHunt )

Enums == {"type", "severity", "tlp"}

\* The table of the fields, spelt out.
LEMMA FieldNames ==
  HuntFields = Enums \cup {"confidence", "value", "tag", "source", "attackTechnique",
                           "attackTactic", "firstSeen", "lastSeen"}
BY DEF HuntFields, FieldDef, Enums

LEMMA FieldKinds ==
  /\ \A f \in Enums : FieldDef[f] = [is |-> "enum", ops |-> <<"eq", "neq", "in">>]
  /\ FieldDef["confidence"] = [is |-> "number", ops |-> <<"gte", "lte", "eq">>]
  /\ FieldDef["value"] = [is |-> "text", ops |-> <<"contains">>]
  /\ FieldDef["source"] = [is |-> "source", ops |-> <<"eq", "neq">>]
  /\ FieldDef["attackTechnique"] = [is |-> "text", ops |-> <<"eq", "contains">>]
  /\ \A f \in {"tag", "attackTactic"} : FieldDef[f] = [is |-> "tag", ops |-> <<"has">>]
  /\ \A f \in {"firstSeen", "lastSeen"} :
       FieldDef[f] = [is |-> "date", ops |-> <<"after", "before">>]
BY DEF FieldDef, Enums

LEMMA OpsOf ==
  ASSUME NEW f \in HuntFields, NEW a, NEW b, NEW c
  PROVE  /\ FieldDef[f].ops = <<a>> => Ops(f) = {a}
         /\ FieldDef[f].ops = <<a, b>> => Ops(f) = {a, b}
         /\ FieldDef[f].ops = <<a, b, c>> => Ops(f) = {a, b, c}
<1>1. 1 .. 1 = {1} /\ 1 .. 2 = {1, 2} /\ 1 .. 3 = {1, 2, 3}
  OBVIOUS
<1>2. Len(<<a>>) = 1 /\ Len(<<a, b>>) = 2 /\ Len(<<a, b, c>>) = 3
  OBVIOUS
<1>3. ASSUME FieldDef[f].ops = <<a>> PROVE Ops(f) = {a}
  <2>1. Ops(f) = {<<a>>[k] : k \in {1}}
    BY <1>1, <1>2, <1>3 DEF Ops
  <2>. QED
    BY <2>1
<1>4. ASSUME FieldDef[f].ops = <<a, b>> PROVE Ops(f) = {a, b}
  <2>1. Ops(f) = {<<a, b>>[k] : k \in {1, 2}}
    BY <1>1, <1>2, <1>4 DEF Ops
  <2>. QED
    BY <2>1
<1>5. ASSUME FieldDef[f].ops = <<a, b, c>> PROVE Ops(f) = {a, b, c}
  <2>1. Ops(f) = {<<a, b, c>>[k] : k \in {1, 2, 3}}
    BY <1>1, <1>2, <1>5 DEF Ops
  <2>. QED
    BY <2>1
<1>. QED
  BY <1>3, <1>4, <1>5

LEMMA FieldOps ==
  /\ \A f \in Enums : FieldDef[f].is = "enum" /\ Ops(f) = {"eq", "neq", "in"}
  /\ FieldDef["confidence"].is = "number" /\ Ops("confidence") = {"gte", "lte", "eq"}
  /\ FieldDef["value"].is = "text" /\ Ops("value") = {"contains"}
  /\ FieldDef["source"].is = "source" /\ Ops("source") = {"eq", "neq"}
  /\ FieldDef["attackTechnique"].is = "text" /\ Ops("attackTechnique") = {"eq", "contains"}
  /\ \A f \in {"tag", "attackTactic"} : FieldDef[f].is = "tag" /\ Ops(f) = {"has"}
  /\ \A f \in {"firstSeen", "lastSeen"} : FieldDef[f].is = "date" /\ Ops(f) = {"after", "before"}
  /\ \A f \in HuntFields : FieldDef[f].ops[1] \in Ops(f)
<1>1. ASSUME NEW f \in Enums
      PROVE  /\ FieldDef[f].is = "enum" /\ Ops(f) = {"eq", "neq", "in"}
             /\ FieldDef[f].ops[1] \in Ops(f)
  BY FieldKinds, FieldNames, OpsOf
<1>2. /\ FieldDef["confidence"].is = "number" /\ Ops("confidence") = {"gte", "lte", "eq"}
      /\ FieldDef["confidence"].ops[1] \in Ops("confidence")
  BY FieldKinds, FieldNames, OpsOf
<1>3. /\ FieldDef["value"].is = "text" /\ Ops("value") = {"contains"}
      /\ FieldDef["value"].ops[1] \in Ops("value")
  BY FieldKinds, FieldNames, OpsOf
<1>4. /\ FieldDef["source"].is = "source" /\ Ops("source") = {"eq", "neq"}
      /\ FieldDef["source"].ops[1] \in Ops("source")
  BY FieldKinds, FieldNames, OpsOf
<1>5. /\ FieldDef["attackTechnique"].is = "text"
      /\ Ops("attackTechnique") = {"eq", "contains"}
      /\ FieldDef["attackTechnique"].ops[1] \in Ops("attackTechnique")
  BY FieldKinds, FieldNames, OpsOf
<1>6. ASSUME NEW f \in {"tag", "attackTactic"}
      PROVE  /\ FieldDef[f].is = "tag" /\ Ops(f) = {"has"}
             /\ FieldDef[f].ops[1] \in Ops(f)
  BY FieldKinds, FieldNames, OpsOf
<1>7. ASSUME NEW f \in {"firstSeen", "lastSeen"}
      PROVE  /\ FieldDef[f].is = "date" /\ Ops(f) = {"after", "before"}
             /\ FieldDef[f].ops[1] \in Ops(f)
  BY FieldKinds, FieldNames, OpsOf
<1>. QED
  BY <1>1, <1>2, <1>3, <1>4, <1>5, <1>6, <1>7, FieldNames

LEMMA EnumValues ==
  /\ Len(Options("type")) = 2 /\ OptionSet("type") = {"DOMAIN", "CVE"}
  /\ Len(Options("severity")) = 2 /\ OptionSet("severity") = {"HIGH", "LOW"}
  /\ Len(Options("tlp")) = 2 /\ OptionSet("tlp") = {"RED", "CLEAR"}
  /\ \A f \in Enums : Options(f)[1] \in OptionSet(f)
<1>1. /\ Options("type") = <<"DOMAIN", "CVE">>
      /\ Options("severity") = <<"HIGH", "LOW">>
      /\ Options("tlp") = <<"RED", "CLEAR">>
  BY DEF Options, EnumOptions
<1>2. 1 .. 2 = {1, 2}
  OBVIOUS
<1>3. Len(Options("type")) = 2 /\ Len(Options("severity")) = 2 /\ Len(Options("tlp")) = 2
  BY <1>1
<1>4. OptionSet("type") = {Options("type")[k] : k \in {1, 2}}
  BY <1>2, <1>3 DEF OptionSet
<1>5. OptionSet("severity") = {Options("severity")[k] : k \in {1, 2}}
  BY <1>2, <1>3 DEF OptionSet
<1>6. OptionSet("tlp") = {Options("tlp")[k] : k \in {1, 2}}
  BY <1>2, <1>3 DEF OptionSet
<1>. QED
  BY <1>1, <1>3, <1>4, <1>5, <1>6 DEF Enums

LEMMA OpsAllowed ==
  ASSUME NEW f \in HuntFields
  PROVE  /\ Ops(f) \subseteq HuntOps
         /\ "in" \in Ops(f) <=> f \in Enums
         /\ FieldDef[f].is = "enum" <=> f \in Enums
BY FieldOps, FieldNames DEF HuntOps, Enums

LEMMA SingleValue ==
  ASSUME NEW v
  PROVE  Len(<<v>>) = 1 /\ <<v>>[1] = v /\ (v \in HuntValues => <<v>> \in Seq(HuntValues))
OBVIOUS

LEMMA ValuesHeld ==
  /\ \A row : row.field \in HuntFields => Enterable(row) \subseteq HuntValues
  /\ \A f \in HuntFields : OptionSet(f) \subseteq HuntValues
  /\ "" \in HuntValues
<1>1. \A f \in HuntFields : OptionSet(f) \subseteq HuntValues
  BY DEF HuntValues
<1>2. Texts \subseteq HuntValues /\ Numbers \subseteq HuntValues /\ Days \cup {""} \subseteq HuntValues
      /\ {"", "feed"} \subseteq HuntValues /\ "" \in HuntValues
  BY DEF HuntValues, Texts
<1>3. ASSUME NEW row, row.field \in HuntFields PROVE Enterable(row) \subseteq HuntValues
  BY <1>1, <1>2, <1>3 DEF Enterable
<1>. QED
  BY <1>1, <1>2, <1>3

LEMMA ValuePut ==
  ASSUME NEW f, NEW o, NEW m, NEW old, NEW new, NEW c,
         c = [field |-> f, op |-> o, many |-> m, value |-> old]
  PROVE  [c EXCEPT !.value = new] = [field |-> f, op |-> o, many |-> m, value |-> new]
OBVIOUS

\* A row of one value, and a row of a list.
LEMMA SingleRow ==
  ASSUME NEW f \in HuntFields, NEW o \in Ops(f), o # "in", NEW v, NEW c,
         c = [field |-> f, op |-> o, many |-> FALSE, value |-> <<v>>], v \in Enterable(c)
  PROVE  c \in HuntRow
<1>1. c.field = f /\ c.op = o /\ c.many = FALSE /\ c.value = <<v>>
  OBVIOUS
<1>2. v \in HuntValues
  BY <1>1, ValuesHeld
<1>3. o \in HuntOps
  BY OpsAllowed
<1>4. <<v>> \in Seq(HuntValues)
  BY <1>2
<1>5. c \in [field : HuntFields, op : HuntOps, many : BOOLEAN, value : Seq(HuntValues)]
  BY <1>3, <1>4
<1>6. RowMade(c)
  BY <1>1, SingleValue DEF RowMade
<1>. QED
  BY <1>5, <1>6 DEF HuntRow

LEMMA ListRow ==
  ASSUME NEW f \in Enums, NEW s \in Seq(OptionSet(f)), NEW c,
         c = [field |-> f, op |-> "in", many |-> TRUE, value |-> s]
  PROVE  c \in HuntRow
<1>1. c.field = f /\ c.op = "in" /\ c.many = TRUE /\ c.value = s
  OBVIOUS
<1>2. f \in HuntFields /\ "in" \in Ops(f) /\ "in" \in HuntOps
  BY FieldNames, OpsAllowed
<1>3. OptionSet(f) \subseteq HuntValues
  BY <1>2, ValuesHeld
<1>4. s \in Seq(HuntValues)
  BY <1>3
<1>5. c \in [field : HuntFields, op : HuntOps, many : BOOLEAN, value : Seq(HuntValues)]
  BY <1>2, <1>4
<1>6. \A k \in 1 .. Len(s) : s[k] \in OptionSet(f)
  OBVIOUS
<1>7. RowMade(c)
  BY <1>1, <1>2, <1>6 DEF RowMade
<1>. QED
  BY <1>5, <1>7 DEF HuntRow

\* What is known of a row.
LEMMA RowFacts ==
  ASSUME NEW c \in HuntRow
  PROVE  /\ c.field \in HuntFields /\ c.op \in Ops(c.field) /\ c.many \in BOOLEAN
         /\ c = [field |-> c.field, op |-> c.op, many |-> c.many, value |-> c.value]
         /\ c.many <=> c.op = "in"
         /\ c.many => c.field \in Enums /\ c.value \in Seq(OptionSet(c.field))
         /\ ~c.many => c.value[1] \in Enterable(c) /\ c.value = <<c.value[1]>>
<1>1. /\ c.field \in HuntFields /\ c.op \in Ops(c.field) /\ c.many \in BOOLEAN
      /\ c = [field |-> c.field, op |-> c.op, many |-> c.many, value |-> c.value]
      /\ c.many <=> c.op = "in"
  BY DEF HuntRow, RowMade
<1>2. c.value \in Seq(HuntValues)
  BY DEF HuntRow
<1>3. ASSUME c.many PROVE c.field \in Enums /\ c.value \in Seq(OptionSet(c.field))
  <2>1. \A k \in 1 .. Len(c.value) : c.value[k] \in OptionSet(c.field)
    BY <1>3 DEF HuntRow, RowMade
  <2>. QED
    BY <1>1, <1>2, <1>3, <2>1, OpsAllowed
<1>4. ASSUME ~c.many PROVE c.value[1] \in Enterable(c) /\ c.value = <<c.value[1]>>
  <2>1. Len(c.value) = 1 /\ c.value[1] \in Enterable(c)
    BY <1>4 DEF HuntRow, RowMade
  <2>. QED
    BY <1>2, <2>1
<1>. QED
  BY <1>1, <1>3, <1>4

LEMMA DefaultRow ==
  ASSUME NEW f \in HuntFields, NEW o \in Ops(f)
  PROVE  RowOf(f, o) \in HuntRow
<1>. PICK c : c = RowOf(f, o)
  OBVIOUS
<1>1. CASE o = "in"
  <2>1. f \in Enums
    BY <1>1, OpsAllowed
  <2>2. <<>> \in Seq(OptionSet(f))
    OBVIOUS
  <2>3. c = [field |-> f, op |-> "in", many |-> TRUE, value |-> <<>>]
    BY <1>1 DEF RowOf, DefaultValue
  <2>. QED
    BY <2>1, <2>2, <2>3, ListRow
<1>2. CASE o # "in" /\ f \in Enums
  <2>. PICK v : v = Options(f)[1]
    OBVIOUS
  <2>1. c = [field |-> f, op |-> o, many |-> FALSE, value |-> <<v>>]
    BY <1>2, OpsAllowed DEF RowOf, DefaultValue
  <2>2. v \in OptionSet(f) /\ FieldDef[f].is = "enum"
    BY <1>2, EnumValues, OpsAllowed
  <2>3. c.field = f
    BY <2>1
  <2>4. v \in Enterable(c)
    BY <2>2, <2>3 DEF Enterable
  <2>. QED
    BY <1>2, <2>1, <2>4, SingleRow
<1>3. CASE o # "in" /\ f \notin Enums
  <2>. PICK v : v = ""
    OBVIOUS
  <2>1. FieldDef[f].is # "enum"
    BY <1>3, OpsAllowed
  <2>2. c = [field |-> f, op |-> o, many |-> FALSE, value |-> <<v>>]
    BY <1>3, <2>1 DEF RowOf, DefaultValue
  <2>3. c.field = f
    BY DEF RowOf
  <2>4. "" \in Texts /\ "" \in Numbers /\ "" \in Days \cup {""} /\ "" \in {"", "feed"}
    BY DEF Texts, Numbers
  <2>5. v \in Enterable(c)
    BY <2>1, <2>3, <2>4 DEF Enterable
  <2>. QED
    BY <1>3, <2>2, <2>5, SingleRow
<1>. QED
  BY <1>1, <1>2, <1>3
-----------------------------------------------------------------------------
(* The rows of a draft.                                                    *)

LEMMA WithoutTyped ==
  ASSUME NEW S, NEW s \in Seq(S), NEW k \in 1 .. Len(s)
  PROVE  Without(s, k) \in Seq(S) /\ Len(Without(s, k)) = Len(s) - 1
<1>. PICK n \in Nat : n = Len(s)
  OBVIOUS
<1>. PICK front, rear : front = SubSeq(s, 1, k - 1) /\ rear = SubSeq(s, k + 1, Len(s))
  OBVIOUS
<1>1. front \in Seq(S) /\ Len(front) = k - 1
  OBVIOUS
<1>2. rear \in Seq(S) /\ Len(rear) = n - k
  OBVIOUS
<1>3. Without(s, k) = front \o rear
  BY DEF Without
<1>4. front \o rear \in Seq(S) /\ Len(front \o rear) = Len(front) + Len(rear)
  BY <1>1, <1>2
<1>5. k \in Int /\ (k - 1) + (n - k) = n - 1
  OBVIOUS
<1>6. Len(front) + Len(rear) = n - 1
  BY <1>1, <1>2, <1>5
<1>. QED
  BY <1>3, <1>4, <1>6

\* A draft gets other rows.
LEMMA DraftRewritten ==
  ASSUME draft \in HuntAst, NEW rows \in Seq(HuntRow), rows # <<>>, NEW d,
         d = [draft EXCEPT !.rows = rows]
  PROVE  d \in HuntAst /\ d.rows # <<>>
BY DEF HuntAst

\* A row of a draft becomes another row.
LEMMA RowPut ==
  ASSUME draft \in HuntAst, NEW k \in 1 .. Len(draft.rows), NEW c \in HuntRow, NEW d,
         d = [draft EXCEPT !.rows = [draft.rows EXCEPT ![k] = c]]
  PROVE  d \in HuntAst /\ d.rows # <<>>
<1>. PICK s \in Seq(HuntRow) : s = draft.rows
  BY DEF HuntAst
<1>. PICK t : t = [s EXCEPT ![k] = c]
  OBVIOUS
<1>1. t \in Seq(HuntRow) /\ Len(t) = Len(s)
  OBVIOUS
<1>2. Len(s) \in Nat /\ Len(s) >= 1
  OBVIOUS
<1>3. t # <<>>
  BY <1>1, <1>2
<1>. QED
  BY <1>1, <1>3, DraftRewritten

LEMMA BuilderRows ==
  ASSUME BuilderSafe, NEW k \in 1 .. Len(draft.rows)
  PROVE  /\ draft \in HuntAst /\ draft.rows \in Seq(HuntRow) /\ draft.rows[k] \in HuntRow
         /\ draft # Closed
<1>1. draft # Closed
  BY DEF Closed
<1>2. draft \in HuntAst
  BY <1>1 DEF BuilderSafe
<1>. QED
  BY <1>1, <1>2 DEF HuntAst

LEMMA BlankDraft == Opened(None) \in HuntAst /\ Opened(None).rows # <<>> /\ BlankRow \in HuntRow
<1>1. BlankRow \in HuntRow
  BY DefaultRow, FieldOps, FieldNames DEF BlankRow, Enums
<1>2. <<BlankRow>> \in Seq(HuntRow) /\ <<BlankRow>> # <<>>
  BY <1>1
<1>. QED
  BY <1>1, <1>2 DEF Opened, HuntAst

LEMMA DraftKept ==
  ASSUME BuilderSafe, draft' = Closed \/ (draft' \in HuntAst /\ draft'.rows # <<>>),
         UNCHANGED savedHunt
  PROVE  BuilderSafe'
BY DEF BuilderSafe, Valid, Validated

LEMMA PutKeeps ==
  ASSUME BuilderSafe, NEW k \in 1 .. Len(draft.rows), NEW c \in HuntRow,
         Rewritten([draft.rows EXCEPT ![k] = c])
  PROVE  BuilderSafe'
<1>1. draft \in HuntAst
  BY BuilderRows
<1>. PICK d : d = draft'
  OBVIOUS
<1>2. d = [draft EXCEPT !.rows = [draft.rows EXCEPT ![k] = c]] /\ UNCHANGED savedHunt
  BY DEF Rewritten
<1>3. d \in HuntAst /\ d.rows # <<>>
  BY <1>1, <1>2, RowPut
<1>. QED
  BY <1>2, <1>3, DraftKept

LEMMA EnterKeeps ==
  ASSUME BuilderSafe, NEW k \in 1 .. Len(draft.rows), NEW v, EnterValue(k, v)
  PROVE  BuilderSafe'
<1>. PICK c : c = draft.rows[k]
  OBVIOUS
<1>. PICK rows : rows = draft.rows
  OBVIOUS
<1>1. c \in HuntRow /\ rows \in Seq(HuntRow)
  BY BuilderRows
<1>. PICK e : e = [field |-> c.field, op |-> c.op, many |-> FALSE, value |-> <<v>>]
  OBVIOUS
<1>2. ~c.many /\ v \in Enterable(c) /\ Rewritten([rows EXCEPT ![k].value = <<v>>])
  BY DEF EnterValue
<1>3. /\ c.field \in HuntFields /\ c.op \in Ops(c.field) /\ c.op # "in" /\ c.many = FALSE
      /\ c = [field |-> c.field, op |-> c.op, many |-> c.many, value |-> c.value]
  BY <1>1, <1>2, RowFacts
<1>4. e.field = c.field
  OBVIOUS
<1>5. v \in Enterable(e)
  BY <1>2, <1>4 DEF Enterable
<1>6. e \in HuntRow
  BY <1>3, <1>5, SingleRow
<1>. PICK f, o, m, old, new :
           f = c.field /\ o = c.op /\ m = FALSE /\ old = c.value /\ new = <<v>>
  OBVIOUS
<1>7. [c EXCEPT !.value = new] = e
  <2>1. c = [field |-> f, op |-> o, many |-> m, value |-> old]
    BY <1>3
  <2>2. [c EXCEPT !.value = new] = [field |-> f, op |-> o, many |-> m, value |-> new]
    BY <2>1, ValuePut
  <2>. QED
    BY <2>2
<1>8. [rows EXCEPT ![k].value = <<v>>] = [rows EXCEPT ![k] = e]
  BY <1>1, <1>7
<1>. QED
  BY <1>2, <1>6, <1>8, PutKeeps

LEMMA ToggleOption ==
  ASSUME BuilderSafe, NEW k \in 1 .. Len(draft.rows), NEW v, Toggle(k, v)
  PROVE  BuilderSafe'
<1>. PICK c : c = draft.rows[k]
  OBVIOUS
<1>. PICK rows : rows = draft.rows
  OBVIOUS
<1>1. c \in HuntRow /\ rows \in Seq(HuntRow)
  BY BuilderRows
<1>. PICK on : on = c.value
  OBVIOUS
<1>. PICK at : at = {j \in 1 .. Len(on) : on[j] = v}
  OBVIOUS
<1>. PICK new : new = IF at = {} THEN Append(on, v) ELSE Without(on, CHOOSE j \in at : TRUE)
  OBVIOUS
<1>2. c.many /\ v \in OptionSet(c.field) /\ Rewritten([rows EXCEPT ![k].value = new])
  BY DEF Toggle
<1>3. /\ c.field \in Enums /\ on \in Seq(OptionSet(c.field)) /\ c.op = "in" /\ c.many = TRUE
      /\ c = [field |-> c.field, op |-> c.op, many |-> c.many, value |-> c.value]
  BY <1>1, <1>2, RowFacts
<1>4. new \in Seq(OptionSet(c.field))
  <2>1. CASE at = {}
    <3>. PICK S : S = OptionSet(c.field)
      OBVIOUS
    <3>1. new = Append(on, v) /\ on \in Seq(S) /\ v \in S
      BY <1>2, <1>3, <2>1
    <3>2. Append(on, v) \in Seq(S)
      BY <3>1
    <3>. QED
      BY <3>1, <3>2
  <2>2. CASE at # {}
    <3>. PICK j : j = CHOOSE n \in at : TRUE
      OBVIOUS
    <3>1. j \in at
      BY <2>2
    <3>2. j \in 1 .. Len(on) /\ new = Without(on, j)
      BY <2>2, <3>1
    <3>. QED
      BY <1>3, <3>2, WithoutTyped
  <2>. QED
    BY <2>1, <2>2
<1>. PICK e : e = [field |-> c.field, op |-> "in", many |-> TRUE, value |-> new]
  OBVIOUS
<1>5. e \in HuntRow
  BY <1>3, <1>4, ListRow
<1>. PICK f, o, m, old, w :
           f = c.field /\ o = c.op /\ m = TRUE /\ old = c.value /\ w = new
  OBVIOUS
<1>6. [c EXCEPT !.value = w] = e
  <2>1. c = [field |-> f, op |-> o, many |-> m, value |-> old]
    BY <1>3
  <2>2. [c EXCEPT !.value = w] = [field |-> f, op |-> o, many |-> m, value |-> w]
    BY ONLY <2>1, ValuePut
  <2>. QED
    BY <1>3, <2>2
<1>7. [rows EXCEPT ![k].value = new] = [rows EXCEPT ![k] = e]
  BY <1>1, <1>6
<1>8. Rewritten([rows EXCEPT ![k] = e])
  BY <1>2, <1>7
<1>. QED
  BY <1>5, <1>8, PutKeeps
-----------------------------------------------------------------------------
(* What the server makes of a row.                                         *)

LEMMA TrimFacts ==
  /\ \A v : Trimmed(Trimmed(v)) = Trimmed(v)
  /\ \A c : c.field \in HuntFields =>
       \A v \in Enterable(c) : Trimmed(v) \in Enterable(c)
<1>1. \A v : Trimmed(Trimmed(v)) = Trimmed(v)
  BY DEF Trimmed
<1>2. \A v \in Texts : Trimmed(v) \in Texts
  BY DEF Texts, Trimmed
<1>3. \A v \in Numbers \cup Days \cup {"", "feed"} : Trimmed(v) = v
  BY DEF Numbers, Days, Trimmed
<1>4. \A f \in Enums : \A v \in OptionSet(f) : Trimmed(v) = v
  BY EnumValues DEF Enums, Trimmed
<1>5. ASSUME NEW c, c.field \in HuntFields, NEW v \in Enterable(c)
      PROVE  Trimmed(v) \in Enterable(c)
  <2>1. CASE c.field \in Enums
    BY <1>4, <1>5, <2>1, OpsAllowed DEF Enterable
  <2>2. CASE c.field \notin Enums
    <3>1. FieldDef[c.field].is # "enum"
      BY <1>5, <2>2, OpsAllowed
    <3>2. Enterable(c) = Texts \/ v \in Numbers \cup Days \cup {"", "feed"}
      BY <1>5, <3>1 DEF Enterable
    <3>. QED
      BY <1>2, <1>3, <1>5, <3>2
  <2>. QED
    BY <2>1, <2>2
<1>. QED
  BY <1>1, <1>5

LEMMA NormalizedRow ==
  ASSUME NEW c \in HuntRow
  PROVE  /\ Normalized(c) \in HuntRow /\ Normalized(Normalized(c)) = Normalized(c)
         /\ ~BadCondition(c) => ~BadCondition(Normalized(c))
<1>. PICK n : n = Normalized(c)
  OBVIOUS
<1>1. CASE c.many
  BY <1>1 DEF Normalized
<1>2. CASE ~c.many
  <2>. PICK v : v = Trimmed(c.value[1])
    OBVIOUS
  <2>1. /\ c.field \in HuntFields /\ c.op \in Ops(c.field) /\ c.op # "in" /\ c.many = FALSE
        /\ c = [field |-> c.field, op |-> c.op, many |-> c.many, value |-> c.value]
        /\ c.value[1] \in Enterable(c)
    BY <1>2, RowFacts
  <2>2. n = [c EXCEPT !.value = <<v>>]
    BY <1>2 DEF Normalized
  <2>3. n = [field |-> c.field, op |-> c.op, many |-> FALSE, value |-> <<v>>]
    BY <2>1, <2>2
  <2>4. n.field = c.field /\ n.op = c.op /\ n.many = FALSE /\ n.value = <<v>> /\ n.value[1] = v
    BY <2>3
  <2>5. v \in Enterable(c) /\ Trimmed(v) = v
    BY <2>1, TrimFacts
  <2>6. v \in Enterable(n)
    BY <2>4, <2>5 DEF Enterable
  <2>7. n \in HuntRow
    BY <2>1, <2>3, <2>6, SingleRow
  <2>8. Normalized(n) = [n EXCEPT !.value = <<v>>]
    BY <2>4, <2>5 DEF Normalized
  <2>. PICK f, o, m, w : f = c.field /\ o = c.op /\ m = FALSE /\ w = <<v>>
    OBVIOUS
  <2>9. [n EXCEPT !.value = <<v>>] = n
    <3>1. n = [field |-> f, op |-> o, many |-> m, value |-> w]
      BY <2>3
    <3>2. [n EXCEPT !.value = w] = [field |-> f, op |-> o, many |-> m, value |-> w]
      BY <3>1, ValuePut
    <3>. QED
      BY <3>1, <3>2
  <2>10. BadValue(n) <=> BadValue(c)
    BY <2>1, <2>4, <2>5 DEF BadValue
  <2>11. BadCondition(n) <=> BadCondition(c)
    BY <2>1, <2>4, <2>10 DEF BadCondition
  <2>. QED
    BY <2>7, <2>8, <2>9, <2>11
<1>. QED
  BY <1>1, <1>2

LEMMA ValidatedAgain ==
  ASSUME NEW q \in HuntAst, Valid(q)
  PROVE  /\ Validated(q) \in HuntAst /\ Valid(Validated(q))
         /\ Validated(Validated(q)) = Validated(q)
<1>. PICK p : p = Validated(q)
  OBVIOUS
<1>. PICK rows \in Seq(HuntRow) : rows = q.rows
  BY DEF HuntAst
<1>. PICK n \in Nat : n = Len(rows)
  OBVIOUS
<1>. PICK new : new = [k \in 1 .. n |-> Normalized(rows[k])]
  OBVIOUS
<1>1. \A k \in 1 .. n : rows[k] \in HuntRow
  OBVIOUS
<1>2. \A k \in 1 .. n : Normalized(rows[k]) \in HuntRow
  BY <1>1, NormalizedRow
<1>3. new \in Seq(HuntRow) /\ Len(new) = n
  BY <1>2
<1>4. p = [q EXCEPT !.rows = new]
  BY DEF Validated
<1>5. p.rows = new /\ p \in HuntAst
  BY <1>3, <1>4 DEF HuntAst
<1>6. n # 0
  BY DEF Valid
<1>7. new # <<>>
  BY <1>3, <1>6
<1>8. \A k \in 1 .. n : ~BadCondition(rows[k])
  BY DEF Valid
<1>9. \A k \in 1 .. n : new[k] = Normalized(rows[k])
  OBVIOUS
<1>10. ASSUME NEW k \in 1 .. n PROVE ~BadCondition(new[k]) /\ Normalized(new[k]) = new[k]
  BY <1>1, <1>8, <1>9, NormalizedRow
<1>11. Valid(p)
  BY <1>3, <1>5, <1>7, <1>10 DEF Valid
<1>12. Validated(p) = [p EXCEPT !.rows = [k \in 1 .. n |-> Normalized(new[k])]]
  BY <1>3, <1>5 DEF Validated
<1>13. [k \in 1 .. n |-> Normalized(new[k])] = new
  BY <1>9, <1>10
<1>14. [p EXCEPT !.rows = new] = p
  BY <1>5 DEF HuntAst
<1>. QED
  BY <1>5, <1>11, <1>12, <1>13, <1>14

LEMMA BuilderStep ==
  BuilderSafe /\ [BuilderNext]_builderVars => BuilderSafe'
<1>. SUFFICES ASSUME BuilderSafe, [BuilderNext]_builderVars PROVE BuilderSafe'
  OBVIOUS
<1>1. CASE OpenBuilder
  <2>1. UNCHANGED savedHunt
    BY <1>1 DEF OpenBuilder
  <2>2. CASE Valid(savedHunt)
    <3>1. savedHunt # None
      BY <2>2 DEF Valid, None
    <3>2. draft' = savedHunt /\ savedHunt \in HuntAst /\ savedHunt.rows # <<>>
      BY <1>1, <2>2, <3>1 DEF OpenBuilder, BuilderSafe, Valid
    <3>. QED
      BY <2>1, <3>2, DraftKept
  <2>3. CASE ~Valid(savedHunt)
    <3>1. draft' = Opened(None)
      BY <1>1, <2>3 DEF OpenBuilder
    <3>. QED
      BY <2>1, <3>1, DraftKept, BlankDraft
  <2>. QED
    BY <2>2, <2>3
<1>2. CASE AddRow
  <2>. PICK rows : rows = Append(draft.rows, BlankRow)
    OBVIOUS
  <2>. PICK old, blank : old = draft.rows /\ blank = BlankRow
    OBVIOUS
  <2>1. draft \in HuntAst /\ old \in Seq(HuntRow)
    BY <1>2 DEF AddRow, BuilderSafe, HuntAst
  <2>2. blank \in HuntRow
    BY BlankDraft
  <2>3. rows \in Seq(HuntRow) /\ Len(rows) = Len(old) + 1
    BY <2>1, <2>2
  <2>4. rows # <<>>
    BY <2>1, <2>3
  <2>5. draft' = [draft EXCEPT !.rows = rows] /\ UNCHANGED savedHunt
    BY <1>2 DEF AddRow, Rewritten
  <2>. QED
    BY <2>1, <2>3, <2>4, <2>5, DraftRewritten, DraftKept
<1>3. ASSUME NEW k \in 1 .. Len(draft.rows), RemoveRow(k) PROVE BuilderSafe'
  <2>. PICK rows, old : rows = Without(draft.rows, k) /\ old = draft.rows
    OBVIOUS
  <2>1. draft \in HuntAst /\ old \in Seq(HuntRow)
    BY BuilderRows
  <2>2. rows \in Seq(HuntRow) /\ Len(rows) = Len(old) - 1 /\ Len(old) > 1
    BY <1>3, <2>1, WithoutTyped DEF RemoveRow
  <2>3. rows # <<>>
    BY <2>1, <2>2
  <2>4. draft' = [draft EXCEPT !.rows = rows] /\ UNCHANGED savedHunt
    BY <1>3 DEF RemoveRow, Rewritten
  <2>. QED
    BY <2>1, <2>2, <2>3, <2>4, DraftRewritten, DraftKept
<1>4. ASSUME NEW k \in 1 .. Len(draft.rows), NEW f \in Offered, PickField(k, f)
      PROVE  BuilderSafe'
  <2>. PICK o, c : o = FieldDef[f].ops[1] /\ c = RowOf(f, o)
    OBVIOUS
  <2>1. f \in HuntFields /\ o \in Ops(f)
    BY BuilderAssumption, FieldOps
  <2>2. c \in HuntRow
    BY <2>1, DefaultRow
  <2>3. Rewritten([draft.rows EXCEPT ![k] = c])
    BY <1>4 DEF PickField, Snapped
  <2>. QED
    BY <2>2, <2>3, PutKeeps
<1>5. ASSUME NEW k \in 1 .. Len(draft.rows), NEW o \in HuntOps, PickOp(k, o)
      PROVE  BuilderSafe'
  <2>. PICK f, c : f = draft.rows[k].field /\ c = RowOf(f, o)
    OBVIOUS
  <2>1. f \in HuntFields /\ o \in Ops(f)
    BY <1>5, BuilderRows, RowFacts DEF PickOp
  <2>2. c \in HuntRow
    BY <2>1, DefaultRow
  <2>3. Rewritten([draft.rows EXCEPT ![k] = c])
    BY <1>5 DEF PickOp
  <2>. QED
    BY <2>2, <2>3, PutKeeps
<1>6. ASSUME NEW m \in {"all", "any"}, PickMatch(m) PROVE BuilderSafe'
  <2>. PICK d : d = draft'
    OBVIOUS
  <2>1. draft \in HuntAst /\ draft.rows # <<>> /\ d = [draft EXCEPT !.match = m]
        /\ UNCHANGED savedHunt
    BY <1>6 DEF PickMatch, BuilderSafe
  <2>2. d \in HuntAst /\ d.rows # <<>>
    BY <2>1 DEF HuntAst
  <2>. QED
    BY <2>1, <2>2, DraftKept
<1>7. ASSUME NEW q \in HuntTemplates, ApplyTemplate(q) PROVE BuilderSafe'
  <2>1. q \in HuntAst /\ q.rows # <<>> /\ draft' = q /\ UNCHANGED savedHunt
    BY <1>7, BuilderAssumption DEF ApplyTemplate, HuntAst
  <2>. QED
    BY <2>1, DraftKept
<1>8. CASE SubmitHunt
  <2>. PICK q : q = draft
    OBVIOUS
  <2>1. q \in HuntAst /\ Valid(q) /\ draft' = Closed /\ savedHunt' = Validated(q)
    BY <1>8 DEF SubmitHunt, BuilderSafe
  <2>. PICK s : s = Validated(q)
    OBVIOUS
  <2>2. s \in HuntAst /\ Valid(s) /\ Validated(s) = s
    BY <2>1, ValidatedAgain
  <2>3. savedHunt' = s
    BY <2>1
  <2>. QED
    BY <2>1, <2>2, <2>3 DEF BuilderSafe, Valid, Validated
<1>9. CASE UNCHANGED builderVars
  BY <1>9 DEF builderVars, BuilderSafe, Valid, Validated
<1>. QED
  BY <1>1, <1>2, <1>3, <1>4, <1>5, <1>6, <1>7, <1>8, <1>9, EnterKeeps, ToggleOption
     DEF BuilderNext
-----------------------------------------------------------------------------
(* What a row selects.                                                     *)

\* A row with a value in range is accepted.
LEMMA FilledAccepted ==
  ASSUME NEW c \in HuntRow, Filled(c)
  PROVE  ~BadCondition(c)
<1>1. /\ c.field \in HuntFields /\ c.op \in Ops(c.field) /\ c.many = (c.op = "in")
      /\ c.value # <<>> /\ c.value[1] \notin {"101", "half"}
  BY RowFacts DEF Filled
<1>2. CASE c.many
  <2>1. c.op = "in" /\ c.value \in Seq(OptionSet(c.field))
    BY <1>2, RowFacts
  <2>2. \A k \in 1 .. Len(c.value) : c.value[k] \in OptionSet(c.field)
    BY <2>1
  <2>3. ~BadValue(c)
    BY <1>1, <2>1, <2>2 DEF BadValue
  <2>. QED
    BY <1>1, <2>3 DEF BadCondition
<1>3. CASE ~c.many
  <2>. PICK f, is, v : f = c.field /\ is = FieldDef[c.field].is /\ v = c.value[1]
    OBVIOUS
  <2>1. c.op # "in" /\ v \in Enterable(c) /\ Trimmed(v) # ""
    BY <1>1, <1>3, RowFacts DEF Filled
  <2>2. is = "enum" => Trimmed(v) \in OptionSet(f)
    BY <1>1, <2>1, TrimFacts DEF Enterable
  <2>3. is = "number" => Whole(Trimmed(v)) /\ NumberOf(Trimmed(v)) \in 0 .. 100
    <3>. SUFFICES ASSUME is = "number"
                  PROVE  Whole(Trimmed(v)) /\ NumberOf(Trimmed(v)) \in 0 .. 100
      OBVIOUS
    <3>1. v \in Numbers
      BY <2>1 DEF Enterable
    <3>2. v = "80"
      BY <1>1, <2>1, <3>1 DEF Numbers, Trimmed
    <3>3. Trimmed(v) = "80"
      BY <3>2 DEF Trimmed
    <3>. QED
      BY <3>3 DEF Whole, NumberOf
  <2>4. is = "date" => Trimmed(v) \in Days
    BY <1>1, <2>1 DEF Enterable, Days, Trimmed
  <2>5. ~BadValue(c)
    BY <2>1, <2>2, <2>3, <2>4 DEF BadValue
  <2>. QED
    BY <1>1, <2>5 DEF BadCondition
<1>. QED
  BY <1>2, <1>3

LEMMA SafeDraftsSubmit == BuilderSafe => DraftsSubmit
<1>. SUFFICES ASSUME BuilderSafe, \A k \in 1 .. Len(draft.rows) : Filled(draft.rows[k]),
                     draft # Closed
              PROVE  Valid(draft)
  BY DEF DraftsSubmit
<1>1. draft \in HuntAst /\ draft.rows # <<>>
  BY DEF BuilderSafe
<1>2. \A k \in 1 .. Len(draft.rows) : draft.rows[k] \in HuntRow
  BY BuilderRows
<1>3. \A k \in 1 .. Len(draft.rows) : ~BadCondition(draft.rows[k])
  BY <1>2, FilledAccepted
<1>. QED
  BY <1>1, <1>3 DEF Valid

LEMMA HalfDays ==
  ASSUME NEW t \in Nat, NEW d \in {2, 4}
  PROVE  /\ t < d <=> t \div 2 < d \div 2
         /\ t >= d + 2 <=> t \div 2 > d \div 2
<1>1. PICK h : h = t \div 2
  OBVIOUS
<1>2. h \in Int /\ 2 * h <= t /\ t < 2 * h + 2
  BY <1>1
<1>3. CASE d = 2
  <2>1. d \div 2 = 1
    BY <1>3
  <2>. QED
    BY <1>1, <1>2, <1>3, <2>1
<1>4. CASE d = 4
  <2>1. d \div 2 = 2
    BY <1>4
  <2>. QED
    BY <1>1, <1>2, <1>4, <2>1
<1>. QED
  BY <1>3, <1>4

LEMMA SequenceDomain ==
  ASSUME NEW S, NEW s \in Seq(S)
  PROVE  DOMAIN s = 1 .. Len(s)
OBVIOUS

\* What the where clause of a row selects is what the row says.
LEMMA CompiledReads ==
  ASSUME NEW c \in HuntRow, NEW i \in Catalogue, i.source # ""
  PROVE  Compiled(c, i) <=> Reads(c, i)
<1>. PICK f, o, v, of : f = c.field /\ o = c.op /\ v = c.value[1] /\ of = i[c.field]
  OBVIOUS
<1>1. f \in HuntFields /\ o \in Ops(f)
  BY RowFacts
<1>2. CASE o = "in"
  <2>1. f \in Enums /\ FieldDef[f].is = "enum" /\ c.value \in Seq(OptionSet(f))
    <3>1. c.many
      BY <1>2, RowFacts
    <3>2. f \in Enums /\ c.value \in Seq(OptionSet(f))
      BY <3>1, RowFacts
    <3>. QED
      BY <3>2, FieldOps
  <2>2. Compiled(c, i) <=> \E k \in 1 .. Len(c.value) : of = c.value[k]
    BY <1>2, <2>1 DEF Compiled, Enums
  <2>3. Reads(c, i) <=> of \in ToSet(c.value)
    BY <1>2 DEF Reads
  <2>4. DOMAIN c.value = 1 .. Len(c.value)
    BY <2>1, SequenceDomain
  <2>. QED
    BY <2>2, <2>3, <2>4 DEF ToSet
<1>3. CASE f \in Enums /\ o # "in"
  <2>1. FieldDef[f].is = "enum" /\ Ops(f) = {"eq", "neq", "in"}
    BY <1>3, FieldOps
  <2>2. o = "eq" \/ o = "neq"
    BY <1>1, <1>3, <2>1
  <2>. QED
    BY <1>3, <2>1, <2>2 DEF Compiled, Reads, Enums
<1>4. CASE f = "source"
  <2>1. FieldDef[f].is = "source" /\ (o = "eq" \/ o = "neq") /\ of = i.source
    BY <1>1, <1>4, FieldOps
  <2>. QED
    BY <1>4, <2>1 DEF Compiled, Reads
<1>5. CASE f \in {"confidence", "value", "tag", "attackTechnique", "attackTactic"}
  <2>1. /\ o \notin {"in", "neq", "before", "after"}
        /\ o = "eq" => f \in {"confidence", "attackTechnique"}
    BY <1>1, <1>5, FieldOps
  <2>. QED
    BY <2>1 DEF Reads
<1>6. CASE f \in {"firstSeen", "lastSeen"}
  <2>1. FieldDef[f].is = "date" /\ (o = "before" \/ o = "after") /\ of \in Nat
    BY <1>1, <1>6, FieldOps, BuilderAssumption
  <2>2. StartOf(v) \in {2, 4}
    BY DEF StartOf
  <2>. PICK d : d = StartOf(v)
    OBVIOUS
  <2>3. of < d <=> of \div 2 < d \div 2
    BY <2>1, <2>2, HalfDays
  <2>4. of >= d + 2 <=> of \div 2 > d \div 2
    BY <2>1, <2>2, HalfDays
  <2>5. Compiled(c, i) <=> (o = "before" /\ of < StartOf(v)) \/ (o = "after" /\ of >= StartOf(v) + 2)
    BY <1>6, <2>1 DEF Compiled, AfterDay
  <2>6. Reads(c, i) <=> \/ o = "before" /\ of \div 2 < StartOf(v) \div 2
                        \/ o = "after" /\ of \div 2 > StartOf(v) \div 2
    BY <2>1 DEF Reads
  <2>. QED
    BY <2>3, <2>4, <2>5, <2>6
<1>. QED
  BY <1>1, <1>2, <1>3, <1>4, <1>5, <1>6, FieldNames

\* A detection query of a row finds what the where clause selects.
LEMMA CompiledDetected ==
  ASSUME NEW c \in HuntRow, NEW i \in Catalogue, NEW lang, Compiled(c, i)
  PROVE  Detects(lang, c, i)
<1>. PICK f, v, of : f = c.field /\ v = c.value[1] /\ of = i[c.field]
  OBVIOUS
<1>1. CASE c.op # "after"
  BY <1>1 DEF Detects
<1>2. CASE c.op = "after"
  <2>1. f \in {"firstSeen", "lastSeen"} /\ FieldDef[f].is = "date"
    BY <1>2, RowFacts, FieldOps, FieldNames
  <2>2. of \in Nat /\ StartOf(v) \in {2, 4}
    BY <2>1, BuilderAssumption DEF StartOf
  <2>3. of >= StartOf(v) + 2
    BY <1>2, <2>1 DEF Compiled, AfterDay
  <2>. QED
    BY <1>2, <2>2, <2>3 DEF Detects
<1>. QED
  BY <1>1, <1>2

LEMMA SafeHuntsRun == BuilderSafe => SavedHuntsRun
<1>. SUFFICES ASSUME BuilderSafe, savedHunt # None
              PROVE  /\ Valid(savedHunt) /\ Validated(savedHunt) = savedHunt
                     /\ \A i \in Catalogue : i.source # "" =>
                          ((i \in SelectedBy(savedHunt)) <=>
                             (~i.white /\ Combined(savedHunt,
                                {c \in ToSet(savedHunt.rows) : Reads(c, i)})))
                     /\ \A lang \in {"kql", "spl", "lucene"} :
                          SelectedBy(savedHunt) \subseteq DetectedBy(lang, savedHunt)
  BY DEF SavedHuntsRun
<1>1. savedHunt \in HuntAst /\ Valid(savedHunt) /\ Validated(savedHunt) = savedHunt
  BY DEF BuilderSafe
<1>2. savedHunt.rows # <<>> /\ savedHunt.rows \in Seq(HuntRow)
  BY <1>1 DEF Valid, HuntAst
<1>. PICK rows : rows = ToSet(savedHunt.rows)
  OBVIOUS
<1>3. rows \subseteq HuntRow
  BY <1>2 DEF ToSet
<1>4. ASSUME NEW i \in Catalogue, i.source # ""
      PROVE  (i \in SelectedBy(savedHunt)) <=>
               (~i.white /\ Combined(savedHunt, {c \in rows : Reads(c, i)}))
  <2>1. {c \in rows : Compiled(c, i)} = {c \in rows : Reads(c, i)}
    BY <1>3, <1>4, CompiledReads
  <2>. QED
    BY <1>2, <2>1 DEF SelectedBy
<1>5. ASSUME NEW lang \in {"kql", "spl", "lucene"}, NEW i \in SelectedBy(savedHunt)
      PROVE  i \in DetectedBy(lang, savedHunt)
  <2>. PICK met, found : /\ met = {c \in rows : Compiled(c, i)}
                         /\ found = {c \in rows : Detects(lang, c, i)}
    OBVIOUS
  <2>1. i \in Catalogue /\ ~i.white /\ Combined(savedHunt, met)
    BY <1>5 DEF SelectedBy
  <2>2. met \subseteq found
    BY <1>3, <2>1, CompiledDetected
  <2>3. Combined(savedHunt, found)
    BY <2>1, <2>2 DEF Combined
  <2>. QED
    BY <1>2, <2>1, <2>3 DEF DetectedBy
<1>. QED
  BY <1>1, <1>4, <1>5

\* However fields, operators, options and templates were picked, a filled
\* draft is one saveHunt accepts, and what it stores selects, for every later
\* reader, what its rows say (HuntBuilder, validateHuntQuery, compileWhere).
THEOREM HuntsDoWork == BuilderSpec => []BuiltHuntsWork
<1>1. BuilderInit => BuilderSafe
  BY DEF BuilderInit, BuilderSafe
<1>2. BuilderSafe /\ [BuilderNext]_builderVars => BuilderSafe'
  BY BuilderStep
<1>3. BuilderSafe => BuiltHuntsWork
  BY SafeDraftsSubmit, SafeHuntsRun DEF BuiltHuntsWork
<1>. QED
  BY <1>1, <1>2, <1>3, PTL DEF BuilderSpec
-----------------------------------------------------------------------------
(* Exports.  A stream that nothing stirs has sent the newest rows.         *)

ExportElsewhere == (Calm \/ Upset \/ Pass) /\ UNCHANGED exportVars
ExportSpec ==
  EnvironmentInit /\ ExportInit /\ [][ExportNext \/ ExportElsewhere]_<<environment, exportVars>>

OnShelf(s) == {i \in Shelf : s[i] # Gone}
Newer(s, i) == {j \in OnShelf(s) : s[j] > s[i]}
ShelfApart(s) == \A i, j \in OnShelf(s) : i # j => s[i] # s[j]

\* What was sent stands at the places of its rank.
SentInRank(x) ==
  \A k \in 1 .. Len(x.sent) :
    x.sent[k] \in OnShelf(x.first) /\ Cardinality(Newer(x.first, x.sent[k])) = k - 1

StreamFits(x, stir, s) ==
  /\ x.st \in {"open", "closing", "done"}
  /\ x = [st |-> x.st, f |-> x.f, capped |-> x.capped, skip |-> x.skip, state |-> x.state,
          file |-> x.file, sent |-> x.sent, first |-> x.first]
  /\ x.first \in [Shelf -> Int] /\ x.sent \in Seq(Shelf)
  /\ x.capped = Least(Cardinality(OnShelf(x.first)), ExportCap) /\ x.skip = Len(x.sent)
  /\ ~stir => /\ s = x.first /\ x.skip <= x.capped /\ x.st # "closing"
              /\ x.st = "done" => x.skip = x.capped
              /\ ShelfApart(x.first) => SentInRank(x)

ExportSafe ==
  /\ clock \in Nat /\ shelf \in [Shelf -> Int]
  /\ \/ stream = NoStream \/ stream = [st |-> "broken"]
     \/ StreamFits(stream, stirred, shelf)

LEMMA OnShelfFinite ==
  ASSUME NEW s, NEW i
  PROVE  /\ IsFiniteSet(OnShelf(s)) /\ Cardinality(OnShelf(s)) \in Nat
         /\ IsFiniteSet(Newer(s, i)) /\ Cardinality(Newer(s, i)) \in Nat
<1>1. OnShelf(s) \in SUBSET Shelf /\ Newer(s, i) \in SUBSET Shelf
  BY DEF OnShelf, Newer
<1>2. IsFiniteSet(OnShelf(s)) /\ IsFiniteSet(Newer(s, i))
  BY <1>1, ExportAssumption, FS_Subset
<1>. QED
  BY <1>2, FS_CardinalityType

LEMMA LeastFacts ==
  ASSUME NEW n \in Int, NEW m \in Int
  PROVE  /\ Least(n, m) \in Int /\ Least(n, m) <= n /\ Least(n, m) <= m
         /\ Least(n, m) = n \/ Least(n, m) = m
BY DEF Least

\* Rows seen at different instants have different ranks.
LEMMA RanksApart ==
  ASSUME NEW s \in [Shelf -> Int], ShelfApart(s), NEW i \in OnShelf(s), NEW j \in OnShelf(s),
         Cardinality(Newer(s, i)) = Cardinality(Newer(s, j))
  PROVE  i = j
<1>1. ASSUME NEW a \in OnShelf(s), NEW b \in OnShelf(s), s[a] > s[b],
             Cardinality(Newer(s, a)) = Cardinality(Newer(s, b))
      PROVE  FALSE
  <2>1. s[a] \in Int /\ s[b] \in Int /\ \A c \in OnShelf(s) : s[c] \in Int
    BY DEF OnShelf
  <2>2. Newer(s, a) \in SUBSET Newer(s, b)
    BY <1>1, <2>1 DEF Newer
  <2>3. a \in Newer(s, b) /\ a \notin Newer(s, a)
    BY <1>1, <2>1 DEF Newer
  <2>4. Newer(s, b) = Newer(s, a)
    BY <1>1, <2>2, OnShelfFinite, FS_Subset
  <2>. QED
    BY <2>3, <2>4
<1>2. s[i] \in Int /\ s[j] \in Int
  BY DEF OnShelf
<1>3. s[i] > s[j] \/ s[j] > s[i] \/ s[i] = s[j]
  BY <1>2
<1>. QED
  BY <1>1, <1>3 DEF ShelfApart

LEMMA RangeOfSequence ==
  ASSUME NEW S, NEW n \in Nat, NEW f \in [1 .. n -> S]
  PROVE  f \in Seq(S) /\ Len(f) = n
OBVIOUS

\* The place of a row in any order of the query is its rank.
LEMMA OrdersRank ==
  ASSUME shelf \in [Shelf -> Int], NEW order \in Orders
  PROVE  /\ order \in Seq(Shelf) /\ Len(order) = Cardinality(OnShelf(shelf))
         /\ ShelfApart(shelf) =>
              \A k \in 1 .. Len(order) :
                order[k] \in OnShelf(shelf) /\ Cardinality(Newer(shelf, order[k])) = k - 1
<1>. PICK S : S = OnShelf(shelf)
  OBVIOUS
<1>. PICK n \in Nat : n = Cardinality(S)
  BY OnShelfFinite
<1>1. Selected = S
  BY DEF Selected, OnShelf
<1>2. /\ order \in [1 .. n -> S] /\ \A i, j \in 1 .. n : i # j => order[i] # order[j]
      /\ \A j, k \in 1 .. Len(order) : j < k => shelf[order[j]] >= shelf[order[k]]
  BY <1>1 DEF Orders, SetToSeqs
<1>3. order \in Seq(S) /\ Len(order) = n
  BY <1>2, RangeOfSequence
<1>4. S \subseteq Shelf
  BY DEF OnShelf
<1>5. order \in Seq(Shelf)
  BY <1>3, <1>4
<1>6. order \in Surjection(1 .. n, S)
  <2>1. order \in Injection(1 .. n, S)
    BY <1>2 DEF Injection, IsInjective
  <2>2. IsFiniteSet(S) /\ IsFiniteSet(1 .. n) /\ Cardinality(1 .. n) = n
    <3>1. 1 \in Int /\ n \in Int
      OBVIOUS
    <3>2. IsFiniteSet(1 .. n) /\ Cardinality(1 .. n) = IF 1 > n THEN 0 ELSE n - 1 + 1
      BY <3>1, FS_Interval
    <3>. QED
      BY <3>2, OnShelfFinite
  <2>. QED
    BY <2>1, <2>2, FS_Injection
<1>7. \A a \in S : \E k \in 1 .. n : order[k] = a
  BY <1>6 DEF Surjection
<1>8. ASSUME ShelfApart(shelf), NEW k \in 1 .. n
      PROVE  order[k] \in S /\ Cardinality(Newer(shelf, order[k])) = k - 1
  <2>. PICK g : g = [j \in 1 .. k - 1 |-> order[j]]
    OBVIOUS
  <2>. PICK T : T = Newer(shelf, order[k])
    OBVIOUS
  <2>1. order[k] \in S /\ \A j \in 1 .. n : order[j] \in S /\ shelf[order[j]] \in Int
    BY <1>2, <1>4
  <2>2. \A j \in 1 .. k - 1 : j \in 1 .. n /\ j < k /\ j # k
    OBVIOUS
  <2>3. ASSUME NEW j \in 1 .. k - 1 PROVE order[j] \in T
    <3>1. shelf[order[j]] >= shelf[order[k]] /\ order[j] # order[k] /\ order[j] \in S
      BY <1>2, <1>3, <2>1, <2>2
    <3>2. shelf[order[j]] # shelf[order[k]]
      BY <1>8, <2>1, <3>1 DEF ShelfApart
    <3>. QED
      BY <2>1, <2>2, <3>1, <3>2 DEF Newer
  <2>4. ASSUME NEW a \in T PROVE \E j \in 1 .. k - 1 : order[j] = a
    <3>1. a \in S /\ shelf[a] > shelf[order[k]]
      BY <2>4 DEF Newer
    <3>. PICK j \in 1 .. n : order[j] = a
      BY <1>7, <3>1
    <3>2. ~(k < j)
      BY <1>2, <1>3, <2>1, <3>1
    <3>3. j # k
      BY <2>1, <3>1
    <3>4. j \in 1 .. k - 1
      BY <3>2, <3>3
    <3>. QED
      BY <3>4
  <2>5. g \in [1 .. k - 1 -> T] /\ \A j \in 1 .. k - 1 : g[j] = order[j]
    BY <2>3
  <2>6. g \in Surjection(1 .. k - 1, T)
    BY <2>4, <2>5 DEF Surjection
  <2>7. g \in Injection(1 .. k - 1, T)
    BY <1>2, <2>2, <2>5 DEF Injection, IsInjective
  <2>8. IsFiniteSet(1 .. k - 1) /\ Cardinality(1 .. k - 1) = k - 1
    <3>. PICK m \in Int : m = k - 1
      OBVIOUS
    <3>1. 1 \in Int /\ IsFiniteSet(1 .. m) /\ Cardinality(1 .. m) = IF 1 > m THEN 0 ELSE m - 1 + 1
      BY FS_Interval
    <3>2. m >= 0
      OBVIOUS
    <3>. QED
      BY <3>1, <3>2
  <2>9. Cardinality(T) = Cardinality(1 .. k - 1)
    BY <2>6, <2>7, <2>8, FS_Surjection
  <2>. QED
    BY <2>1, <2>8, <2>9
<1>. QED
  BY <1>3, <1>5, <1>8
LEMMA PlaceIsNatural == ASSUME NEW s \in Seq(Shelf) PROVE Len(s) \in Nat
OBVIOUS

LEMMA SentAsSet ==
  ASSUME NEW s \in Seq(Shelf) PROVE ToSet(s) = {s[k] : k \in 1 .. Len(s)}
<1>1. DOMAIN s = 1 .. Len(s)
  OBVIOUS
<1>. QED
  BY <1>1 DEF ToSet

\* A page of an order starts where what was sent of it ends.
Follows(sent, order, end, rows, all) ==
  /\ rows \in Seq(Shelf) /\ all \in Seq(Shelf) /\ Len(rows) \in Nat
  /\ Len(sent) \in Nat /\ Len(all) = Len(sent) + Len(rows)
  /\ Len(rows) = 0 \/ Len(rows) = end - Len(sent)
  /\ Len(sent) < end => rows # <<>>
  /\ \A k \in 1 .. Len(all) :
       IF k <= Len(sent) THEN k \in 1 .. Len(sent) /\ all[k] = sent[k]
       ELSE k \in 1 .. Len(order) /\ all[k] = order[k]

LEMMA PageFollows ==
  ASSUME NEW sent \in Seq(Shelf), NEW order \in Seq(Shelf), NEW end \in Int,
         end <= Len(order), NEW rows, rows = SubSeq(order, Len(sent) + 1, end),
         NEW all, all = sent \o rows
  PROVE  Follows(sent, order, end, rows, all)
<1>. PICK a, b : a = Len(sent) /\ b = Len(order)
  OBVIOUS
<1>1. a \in Nat /\ b \in Nat
  OBVIOUS
<1>2. \A k \in a + 1 .. end : order[k] \in Shelf
  <2>1. \A k \in 1 .. b : order[k] \in Shelf
    OBVIOUS
  <2>. QED
    BY ONLY <1>1, <2>1, end \in Int, end <= Len(order), b = Len(order)
<1>3. /\ rows \in Seq(Shelf) /\ Len(rows) = IF a + 1 <= end THEN end - (a + 1) + 1 ELSE 0
      /\ \A k \in 1 .. end - (a + 1) + 1 : rows[k] = order[a + 1 + k - 1]
  <2>1. a + 1 \in Int /\ rows = SubSeq(order, a + 1, end)
    BY <1>1
  <2>. QED
    BY ONLY <1>2, <2>1, end \in Int
<1>. PICK c : c = Len(rows)
  OBVIOUS
<1>4. /\ c = IF a + 1 <= end THEN end - (a + 1) + 1 ELSE 0
      /\ c \in Nat /\ (c = 0 \/ c = end - a) /\ (a < end => c # 0)
  <2>1. c = IF a + 1 <= end THEN end - (a + 1) + 1 ELSE 0
    BY <1>3
  <2>. QED
    BY ONLY <1>1, <2>1, end \in Int
<1>5. /\ all \in Seq(Shelf) /\ Len(all) = a + c
      /\ \A k \in 1 .. a + c : all[k] = IF k <= a THEN sent[k] ELSE rows[k - a]
  <2>1. /\ sent \o rows \in Seq(Shelf) /\ Len(sent \o rows) = Len(sent) + Len(rows)
        /\ \A k \in 1 .. Len(sent) + Len(rows) :
             (sent \o rows)[k] = IF k <= Len(sent) THEN sent[k] ELSE rows[k - Len(sent)]
    BY ONLY sent \in Seq(Shelf), <1>3
  <2>. QED
    BY ONLY <2>1, a = Len(sent), c = Len(rows), all = sent \o rows
<1>6. rows = <<>> => c = 0
  OBVIOUS
<1>7. ASSUME NEW k \in 1 .. a + c
      PROVE  IF k <= a THEN k \in 1 .. a /\ all[k] = sent[k]
             ELSE k \in 1 .. b /\ all[k] = order[k]
  <2>1. CASE k <= a
    BY ONLY k \in 1 .. a + c, <1>1, <1>4, <1>5, <2>1
  <2>2. CASE ~(k <= a)
    <3>1. /\ all[k] = rows[k - a] /\ k - a \in 1 .. end - (a + 1) + 1 /\ k \in 1 .. b
          /\ a + 1 + (k - a) - 1 = k
      <4>1. end <= b
        OBVIOUS
      <4>. QED
        BY ONLY k \in 1 .. a + c, end \in Int, <1>1, <1>4, <1>5, <2>2, <4>1
    <3>2. rows[k - a] = order[a + 1 + (k - a) - 1]
      BY ONLY <1>3, <3>1
    <3>3. all[k] = order[k]
      BY ONLY <3>1, <3>2
    <3>. QED
      BY ONLY <2>2, <3>1, <3>3
  <2>. QED
    BY ONLY <2>1, <2>2
<1>8. /\ Len(sent) = a /\ Len(order) = b /\ Len(rows) = c /\ Len(all) = a + c
  BY <1>5
<1>. QED
  BY ONLY <1>1, <1>3, <1>4, <1>5, <1>6, <1>7, <1>8 DEF Follows

\* A batch goes on with the order where the last one stopped.
LEMMA BatchSafe ==
  ASSUME ExportSafe, SendBatch PROVE StreamFits(stream', stirred', shelf')
<1>. PICK x : x = stream
  OBVIOUS
<1>. PICK order, rows, out, end :
       /\ order \in Orders /\ rows = SubSeq(order, x.skip + 1, end)
       /\ end = Least(Len(order), x.skip + TakeOf(x))
       /\ stream' = IF rows = <<>> THEN [x EXCEPT !.st = "closing"]
                    ELSE [x EXCEPT !.skip = @ + Len(rows), !.state = out.state,
                            !.file = @ \o out.text, !.sent = @ \o rows]
  BY DEF SendBatch
<1>. PICK file, all : file = x.file \o out.text /\ all = x.sent \o rows
  OBVIOUS
<1>1. x.st = "open" /\ x.skip < x.capped /\ shelf' = shelf /\ stirred' = stirred
  BY DEF SendBatch
<1>2. StreamFits(x, stirred, shelf)
  BY <1>1 DEF ExportSafe, NoStream
<1>3. /\ x = [st |-> x.st, f |-> x.f, capped |-> x.capped, skip |-> x.skip, state |-> x.state,
              file |-> x.file, sent |-> x.sent, first |-> x.first]
      /\ x.first \in [Shelf -> Int] /\ x.sent \in Seq(Shelf)
      /\ x.capped = Least(Cardinality(OnShelf(x.first)), ExportCap) /\ x.skip = Len(x.sent)
  BY <1>2 DEF StreamFits
<1>. PICK n, skip, capped, take, long :
       /\ n = Cardinality(OnShelf(x.first)) /\ skip = x.skip /\ capped = x.capped
       /\ take = TakeOf(x) /\ long = Len(order)
  OBVIOUS
<1>4. /\ order \in Seq(Shelf) /\ Len(order) = Cardinality(OnShelf(shelf))
      /\ ShelfApart(shelf) =>
           \A k \in 1 .. Len(order) :
             order[k] \in OnShelf(shelf) /\ Cardinality(Newer(shelf, order[k])) = k - 1
  BY OrdersRank DEF ExportSafe
<1>5. n \in Nat /\ skip \in Nat /\ long \in Nat
  BY <1>3, <1>4, OnShelfFinite, PlaceIsNatural
<1>6. capped \in Int /\ capped <= n /\ skip < capped
  <2>1. capped = Least(n, ExportCap) /\ ExportCap \in Int /\ n \in Int
    BY <1>3, <1>5, ExportAssumption
  <2>. QED
    BY <1>1, <2>1, LeastFacts
<1>7. take \in Int /\ take >= 1 /\ take <= capped - skip
  <2>1. take = Least(BatchSize, capped - skip) /\ BatchSize \in Int /\ capped - skip \in Int
    BY <1>5, <1>6, ExportAssumption DEF TakeOf
  <2>2. BatchSize >= 1 /\ capped - skip >= 1
    BY <1>5, <1>6, ExportAssumption
  <2>. QED
    BY ONLY <2>1, <2>2, LeastFacts
<1>8. end \in Int /\ end <= long /\ end <= skip + take /\ (end = long \/ end = skip + take)
  <2>1. end = Least(long, skip + take) /\ long \in Int /\ skip + take \in Int
    BY <1>5, <1>7
  <2>. QED
    BY ONLY <2>1, LeastFacts
<1>9. /\ rows \in Seq(Shelf) /\ all \in Seq(Shelf) /\ Len(rows) \in Nat
      /\ Len(all) = skip + Len(rows)
      /\ Len(rows) = 0 \/ Len(rows) = end - skip
      /\ skip < end => rows # <<>>
      /\ \A k \in 1 .. Len(all) :
           IF k <= Len(x.sent) THEN k \in 1 .. Len(x.sent) /\ all[k] = x.sent[k]
           ELSE k \in 1 .. Len(order) /\ all[k] = order[k]
  <2>1. /\ rows = SubSeq(order, Len(x.sent) + 1, end) /\ end <= Len(order)
        /\ all = x.sent \o rows /\ skip = Len(x.sent)
    BY <1>3, <1>8
  <2>2. /\ x.sent \in Seq(Shelf) /\ order \in Seq(Shelf) /\ end \in Int
    BY <1>3, <1>4, <1>8
  <2>3. Follows(x.sent, order, end, rows, all)
    BY ONLY <2>1, <2>2, PageFollows
  <2>. QED
    BY ONLY <2>1, <2>3 DEF Follows
<1>10. ~stirred => shelf = x.first /\ (ShelfApart(x.first) => SentInRank(x))
  BY <1>2 DEF StreamFits
<1>. PICK z : z = stream'
  OBVIOUS
<1>11. CASE rows = <<>>
  <2>1. z = [st |-> "closing", f |-> x.f, capped |-> x.capped, skip |-> x.skip,
             state |-> x.state, file |-> x.file, sent |-> x.sent, first |-> x.first]
    BY ONLY <1>3, <1>11, z = stream',
       stream' = IF rows = <<>> THEN [x EXCEPT !.st = "closing"]
                 ELSE [x EXCEPT !.skip = @ + Len(rows), !.state = out.state,
                         !.file = @ \o out.text, !.sent = @ \o rows]
  <2>2. stirred
    <3>1. ~(skip < end)
      BY <1>9, <1>11
    <3>2. long < n
      BY ONLY <1>5, <1>6, <1>7, <1>8, <3>1
    <3>3. shelf # x.first
      BY <1>4, <1>5, <3>2
    <3>. QED
      BY <1>10, <3>3
  <2>3. StreamFits(z, stirred, shelf)
    BY ONLY <1>3, <2>1, <2>2 DEF StreamFits
  <2>. QED
    BY <1>1, <2>3
<1>12. CASE rows # <<>>
  <2>1. z = [st |-> x.st, f |-> x.f, capped |-> x.capped, skip |-> x.skip + Len(rows),
             state |-> out.state, file |-> file, sent |-> all, first |-> x.first]
    BY ONLY <1>3, <1>12, z = stream', file = x.file \o out.text, all = x.sent \o rows,
       stream' = IF rows = <<>> THEN [x EXCEPT !.st = "closing"]
                 ELSE [x EXCEPT !.skip = @ + Len(rows), !.state = out.state,
                         !.file = @ \o out.text, !.sent = @ \o rows]
  <2>2. x.skip + Len(rows) <= x.capped
    <3>1. skip + Len(rows) <= capped
      BY ONLY <1>5, <1>6, <1>7, <1>8, <1>9
    <3>. QED
      BY <3>1
  <2>3. ASSUME ~stirred, ShelfApart(x.first) PROVE SentInRank(z)
    <3>1. z.sent = all /\ z.first = x.first
      BY ONLY <2>1
    <3>2. shelf = x.first /\ SentInRank(x)
      BY <1>10, <2>3
    <3>3. ASSUME NEW k \in 1 .. Len(all)
          PROVE  all[k] \in OnShelf(x.first) /\ Cardinality(Newer(x.first, all[k])) = k - 1
      <4>1. CASE k <= Len(x.sent)
        BY ONLY k \in 1 .. Len(all), <1>9, <3>2, <4>1 DEF SentInRank
      <4>2. CASE ~(k <= Len(x.sent))
        BY ONLY k \in 1 .. Len(all), <1>4, <1>9, <2>3, <3>2, <4>2
      <4>. QED
        BY ONLY <4>1, <4>2
    <3>. QED
      BY ONLY <3>1, <3>3 DEF SentInRank
  <2>4. /\ z.st = "open" /\ z.first = x.first /\ z.sent = all /\ z.capped = x.capped
        /\ z.skip = x.skip + Len(rows)
        /\ z = [st |-> z.st, f |-> z.f, capped |-> z.capped, skip |-> z.skip,
                state |-> z.state, file |-> z.file, sent |-> z.sent, first |-> z.first]
    BY ONLY <1>1, <2>1
  <2>5. Len(all) = x.skip + Len(rows)
    BY <1>9
  <2>6. StreamFits(z, stirred, shelf)
    BY ONLY <1>3, <1>9, <1>10, <2>2, <2>3, <2>4, <2>5 DEF StreamFits
  <2>. QED
    BY <1>1, <2>6
<1>. QED
  BY <1>11, <1>12

\* The footer ends a stream that sent all it counted.
LEMMA CloseSafe ==
  ASSUME ExportSafe, CloseStream PROVE StreamFits(stream', stirred', shelf')
<1>. PICK x, file :
       /\ x = stream /\ file = x.file \o Footer(x.f, x.state.snortSkipped)
       /\ stream' = [x EXCEPT !.st = "done", !.file = @ \o Footer(x.f, x.state.snortSkipped)]
  BY DEF CloseStream
<1>1. /\ x.st = "closing" \/ (x.st = "open" /\ x.skip >= x.capped)
      /\ shelf' = shelf /\ stirred' = stirred
  BY DEF CloseStream
<1>2. StreamFits(x, stirred, shelf)
  BY <1>1 DEF ExportSafe, NoStream
<1>. PICK z : z = stream'
  OBVIOUS
<1>3. z = [st |-> "done", f |-> x.f, capped |-> x.capped, skip |-> x.skip,
           state |-> x.state, file |-> file, sent |-> x.sent, first |-> x.first]
  BY <1>2 DEF StreamFits
<1>4. x.capped \in Int /\ x.skip \in Int
  <2>. PICK n \in Nat : n = Cardinality(OnShelf(x.first))
    BY OnShelfFinite
  <2>1. x.capped = Least(n, ExportCap) /\ x.skip = Len(x.sent) /\ x.sent \in Seq(Shelf)
    BY <1>2 DEF StreamFits
  <2>2. n \in Int /\ ExportCap \in Int
    BY ExportAssumption
  <2>. QED
    BY <2>1, <2>2, LeastFacts, PlaceIsNatural
<1>5. ~stirred => x.skip = x.capped /\ shelf = x.first /\ (ShelfApart(x.first) => SentInRank(x))
  BY <1>1, <1>2, <1>4 DEF StreamFits
<1>6. StreamFits(z, stirred, shelf)
  BY ONLY <1>2, <1>3, <1>4, <1>5 DEF StreamFits, SentInRank
<1>. QED
  BY <1>1, <1>6

LEMMA OpenSafe ==
  ASSUME ExportSafe, NEW f, OpenStream(f) PROVE StreamFits(stream', stirred', shelf')
<1>. PICK capped, header, z :
       /\ capped = Least(Cardinality(Selected), ExportCap) /\ header = Header(f, capped)
       /\ z = [st |-> "open", f |-> f, capped |-> capped, skip |-> 0, state |-> ExportState,
               file |-> header, sent |-> <<>>, first |-> shelf]
       /\ stream' = z
  BY DEF OpenStream
<1>1. shelf' = shelf /\ stirred' = FALSE /\ shelf \in [Shelf -> Int]
  BY DEF OpenStream, ExportSafe
<1>2. capped = Least(Cardinality(OnShelf(shelf)), ExportCap)
  BY DEF Selected, OnShelf
<1>3. 0 <= capped
  <2>. PICK n \in Nat : n = Cardinality(OnShelf(shelf))
    BY OnShelfFinite
  <2>. QED
    BY <1>2, ExportAssumption DEF Least
<1>4. /\ <<>> \in Seq(Shelf) /\ Len(<<>>) = 0
  OBVIOUS
<1>5. SentInRank(z)
  BY DEF SentInRank
<1>6. StreamFits(z, stirred', shelf)
  BY <1>1, <1>2, <1>3, <1>4, <1>5 DEF StreamFits
<1>. QED
  BY <1>1, <1>6

LEMMA ExportStepSafe ==
  ASSUME ExportSafe, [ExportNext \/ ExportElsewhere]_<<environment, exportVars>>
  PROVE  ExportSafe'
<1>1. /\ clock \in Nat /\ shelf \in [Shelf -> Int]
  BY DEF ExportSafe
<1>2. ASSUME stream' = stream, stirred' = TRUE, shelf' \in [Shelf -> Int], clock' \in Nat
      PROVE  ExportSafe'
  <2>1. stream = NoStream \/ stream = [st |-> "broken"] \/ StreamFits(stream, stirred, shelf)
    BY DEF ExportSafe
  <2>2. StreamFits(stream, stirred, shelf) => StreamFits(stream, TRUE, shelf')
    BY DEF StreamFits
  <2>. QED
    BY <1>2, <2>1, <2>2 DEF ExportSafe, NoStream
<1>3. CASE UNCHANGED <<environment, exportVars>>
  BY <1>3 DEF ExportSafe, NoStream, environment, exportVars
<1>4. CASE ExportElsewhere
  BY <1>1, <1>4, EnvironmentAssumption
     DEF ExportSafe, NoStream, ExportElsewhere, Calm, Upset, Pass, environment, exportVars
<1>5. ASSUME NEW f \in Formats, OpenStream(f) PROVE ExportSafe'
  <2>1. StreamFits(stream', stirred', shelf')
    BY <1>5, OpenSafe
  <2>. QED
    BY <1>1, <1>5, <2>1 DEF ExportSafe, OpenStream, Calm, environment
<1>6. CASE SendBatch
  <2>1. StreamFits(stream', stirred', shelf')
    BY <1>6, BatchSafe
  <2>. QED
    BY <1>1, <1>6, <2>1 DEF ExportSafe, SendBatch, Calm, environment
<1>7. CASE CloseStream
  <2>1. StreamFits(stream', stirred', shelf')
    BY <1>7, CloseSafe
  <2>. QED
    BY <1>1, <1>7, <2>1 DEF ExportSafe, CloseStream, Calm, environment
<1>8. CASE BreakStream
  BY <1>1, <1>8 DEF ExportSafe, BreakStream, Upset
<1>9. ASSUME NEW i \in Shelf, SeeAgain(i) \/ LeaveShelf(i) PROVE ExportSafe'
  <2>1. shelf' \in [Shelf -> Int] /\ clock' \in Nat
    BY <1>1, <1>9 DEF SeeAgain, LeaveShelf, Gone, Upset
  <2>. QED
    BY <1>2, <1>9, <2>1 DEF SeeAgain, LeaveShelf
<1>. QED
  BY <1>3, <1>4, <1>5, <1>6, <1>7, <1>8, <1>9 DEF ExportNext

\* What stands at the places of its rank is what has a rank to send.
LEMMA SafePagesOnce == ASSUME ExportSafe PROVE PagedOnce
<1>. PICK x : x = stream
  OBVIOUS
<1>. PICK first : first = x.first
  OBVIOUS
<1>1. SUFFICES ASSUME x.st = "done", ~stirred,
                      \A i, j \in OnShelf(first) : i # j => first[i] # first[j]
               PROVE  /\ ToSet(x.sent) =
                           {i \in OnShelf(first) : Cardinality(Newer(first, i)) < ExportCap}
                      /\ \A k \in 1 .. Len(x.sent) :
                           Cardinality(Newer(first, x.sent[k])) = k - 1
  BY DEF PagedOnce, OnShelf, Newer
<1>2. StreamFits(x, stirred, shelf)
  BY <1>1 DEF ExportSafe, NoStream
<1>3. /\ first \in [Shelf -> Int] /\ x.sent \in Seq(Shelf) /\ ShelfApart(first)
      /\ x.skip = Len(x.sent) /\ x.skip = x.capped
      /\ x.capped = Least(Cardinality(OnShelf(first)), ExportCap)
      /\ SentInRank(x)
  BY <1>1, <1>2 DEF StreamFits, ShelfApart
<1>4. \A k \in 1 .. Len(x.sent) :
        x.sent[k] \in OnShelf(first) /\ Cardinality(Newer(first, x.sent[k])) = k - 1
  BY <1>3 DEF SentInRank
<1>. PICK n, length : n = Cardinality(OnShelf(first)) /\ length = Len(x.sent)
  OBVIOUS
<1>5. n \in Nat /\ length \in Nat /\ (length = n \/ length = ExportCap) /\ length <= ExportCap
  <2>1. n \in Nat /\ length \in Nat
    BY <1>3, OnShelfFinite, PlaceIsNatural
  <2>2. length = Least(n, ExportCap) /\ n \in Int /\ ExportCap \in Int
    BY <1>3, <2>1, ExportAssumption
  <2>. QED
    BY <2>1, <2>2, LeastFacts
<1>6. ASSUME NEW k \in 1 .. length
      PROVE  x.sent[k] \in OnShelf(first) /\ Cardinality(Newer(first, x.sent[k])) < ExportCap
  <2>1. Cardinality(Newer(first, x.sent[k])) = k - 1 /\ x.sent[k] \in OnShelf(first)
    BY <1>4
  <2>2. k - 1 < ExportCap
    BY <1>5, ExportAssumption
  <2>. QED
    BY <2>1, <2>2
<1>7. ASSUME NEW i \in OnShelf(first), Cardinality(Newer(first, i)) < ExportCap
      PROVE  \E k \in 1 .. length : x.sent[k] = i
  <2>. PICK rank \in Nat : rank = Cardinality(Newer(first, i))
    BY OnShelfFinite
  <2>1. rank < n
    <3>1. i \in OnShelf(first) /\ i \notin Newer(first, i) /\ Newer(first, i) \subseteq OnShelf(first)
      <4>1. first[i] \in Int
        BY <1>3 DEF OnShelf
      <4>. QED
        BY <4>1 DEF Newer
    <3>2. Newer(first, i) # OnShelf(first)
      BY <3>1
    <3>3. IsFiniteSet(OnShelf(first))
      BY OnShelfFinite
    <3>4. /\ Cardinality(Newer(first, i)) <= Cardinality(OnShelf(first))
          /\ Cardinality(Newer(first, i)) = Cardinality(OnShelf(first))
               => Newer(first, i) = OnShelf(first)
      BY ONLY <3>1, <3>3, FS_Subset
    <3>. QED
      BY <1>5, <3>2, <3>4
  <2>2. rank + 1 \in 1 .. length
    BY <1>5, <1>7, <2>1, ExportAssumption
  <2>3. /\ x.sent[rank + 1] \in OnShelf(first)
        /\ Cardinality(Newer(first, x.sent[rank + 1])) = rank
    BY <1>4, <2>2
  <2>4. x.sent[rank + 1] = i
    BY <1>3, <2>3, RanksApart
  <2>. QED
    BY <2>2, <2>4
<1>8. ToSet(x.sent) = {i \in OnShelf(first) : Cardinality(Newer(first, i)) < ExportCap}
  <2>1. ToSet(x.sent) = {x.sent[k] : k \in 1 .. length}
    BY <1>3, SentAsSet
  <2>. QED
    BY <1>6, <1>7, <2>1
<1>. QED
  BY <1>4, <1>8

-----------------------------------------------------------------------------
(* What a stream has written is what its rows written at once would be.    *)

ExportMarks == {Comma} \cup {Element(f, i, n) : f \in Formats, i \in Shelf, n \in Nat}

\* The rows as they stand in a file, and the state they leave.
Body(f, rows) == IF f \in Json THEN InArray(Written(f, rows)) ELSE Written(f, rows)
StateAfter(f, rows) ==
  [hasEmitted |-> f \in Json /\ Written(f, rows) # <<>>,
   snortSid |-> Len(Written(f, rows)) + 1,
   snortSkipped |-> LeftOut(f, rows)]

LEMMA WrittenTyped ==
  ASSUME NEW f \in Formats, NEW rows \in Seq(Shelf)
  PROVE  /\ Becoming(f, rows) \in SUBSET (1 .. Len(rows))
         /\ DOMAIN rows \ Becoming(f, rows) \in SUBSET (1 .. Len(rows))
         /\ Written(f, rows) \in Seq(ExportMarks) /\ Len(Written(f, rows)) \in Nat
         /\ LeftOut(f, rows) \in Seq(Shelf)
<1>1. DOMAIN rows = 1 .. Len(rows)
  OBVIOUS
<1>2. /\ Becoming(f, rows) \in SUBSET (1 .. Len(rows))
      /\ DOMAIN rows \ Becoming(f, rows) \in SUBSET (1 .. Len(rows))
  BY <1>1 DEF Becoming
<1>. PICK chosen : chosen = Picked(rows, Becoming(f, rows))
  OBVIOUS
<1>3. chosen \in Seq(Shelf)
  BY <1>2, PartFits
<1>. PICK n \in Nat : n = Len(chosen)
  BY <1>3
<1>4. \A k \in 1 .. n : chosen[k] \in Shelf
  BY <1>3
<1>5. Written(f, rows) = [k \in 1 .. n |-> Element(f, chosen[k], k)]
  BY DEF Written
<1>6. ASSUME NEW k \in 1 .. n PROVE Element(f, chosen[k], k) \in ExportMarks
  <2>1. chosen[k] \in Shelf /\ k \in Nat
    BY <1>4
  <2>. QED
    BY <2>1 DEF ExportMarks
<1>. PICK V : V = ExportMarks
  OBVIOUS
<1>. PICK w : w = Written(f, rows)
  OBVIOUS
<1>7. w \in [1 .. n -> V]
  BY <1>5, <1>6
<1>8. w \in Seq(V) /\ Len(w) = n
  BY <1>7
<1>9. LeftOut(f, rows) \in Seq(Shelf)
  BY <1>2, PartFits DEF LeftOut
<1>. QED
  BY <1>2, <1>8, <1>9

\* One row more is one element more, or one more that is left out.
LEMMA WrittenOn ==
  ASSUME NEW f \in Formats, NEW rows \in Seq(Shelf), NEW i \in Shelf
  PROVE  /\ Becomes(f, i) = Omitted =>
              /\ Written(f, Append(rows, i)) = Written(f, rows)
              /\ LeftOut(f, Append(rows, i)) = Append(LeftOut(f, rows), i)
         /\ Becomes(f, i) # Omitted =>
              /\ Written(f, Append(rows, i)) =
                   Append(Written(f, rows), Element(f, i, Len(Written(f, rows)) + 1))
              /\ LeftOut(f, Append(rows, i)) = LeftOut(f, rows)
<1>. PICK more : more = Append(rows, i)
  OBVIOUS
<1>. PICK L \in Nat : L = Len(rows)
  OBVIOUS
<1>. PICK P \in SUBSET (1 .. Len(rows)) : P = Becoming(f, rows)
  BY WrittenTyped
<1>. PICK Q \in SUBSET (1 .. Len(rows)) : Q = DOMAIN rows \ Becoming(f, rows)
  BY WrittenTyped
<1>1. /\ DOMAIN rows = 1 .. L /\ DOMAIN more = 1 .. L + 1 /\ more[L + 1] = i
      /\ \A k \in 1 .. L : more[k] = rows[k]
  OBVIOUS
<1>2. /\ P = {k \in 1 .. L : Becomes(f, rows[k]) # Omitted}
      /\ Q = {k \in 1 .. L : Becomes(f, rows[k]) = Omitted}
  BY <1>1 DEF Becoming
<1>3. Becoming(f, more) = {k \in 1 .. L + 1 : Becomes(f, more[k]) # Omitted}
  BY <1>1 DEF Becoming
<1>4. 1 .. L + 1 = (1 .. L) \cup {L + 1} /\ L + 1 \notin 1 .. L
  OBVIOUS
<1>. PICK chosen : chosen = Picked(rows, P)
  OBVIOUS
<1>5. chosen \in Seq(Shelf)
  BY PartFits
<1>. PICK n \in Nat : n = Len(chosen)
  BY <1>5
<1>. PICK w : w = Written(f, rows)
  OBVIOUS
<1>6. w = [k \in 1 .. n |-> Element(f, chosen[k], k)]
  BY DEF Written
<1>7. w \in Seq(ExportMarks) /\ Len(w) = n
  <2>1. w \in Seq(ExportMarks)
    BY WrittenTyped
  <2>. QED
    BY <1>6, <2>1
<1>8. LeftOut(f, rows) = Picked(rows, Q)
  BY DEF LeftOut
<1>11. PartGoesOn(rows, i, P) /\ PartGoesOn(rows, i, Q)
  BY PartAppended
<1>9. CASE Becomes(f, i) = Omitted
  <2>1. Becoming(f, more) = P
    BY <1>1, <1>2, <1>3, <1>4, <1>9
  <2>2. DOMAIN more \ Becoming(f, more) = Q \cup {L + 1}
    BY <1>1, <1>2, <1>4, <1>9, <2>1
  <2>3. Picked(more, P) = chosen
    BY <1>11 DEF PartGoesOn
  <2>4. Picked(more, Q \cup {Len(rows) + 1}) = Append(Picked(rows, Q), i)
    BY <1>11 DEF PartGoesOn
  <2>5. Written(f, more) = w
    BY <1>6, <2>1, <2>3 DEF Written
  <2>6. LeftOut(f, more) = Append(LeftOut(f, rows), i)
    BY <1>8, <2>2, <2>4 DEF LeftOut
  <2>. QED
    BY <1>9, <2>5, <2>6
<1>10. CASE Becomes(f, i) # Omitted
  <2>1. Becoming(f, more) = P \cup {L + 1}
    BY <1>1, <1>2, <1>3, <1>4, <1>10
  <2>2. DOMAIN more \ Becoming(f, more) = Q
    BY <1>1, <1>2, <1>4, <1>10, <2>1
  <2>. PICK longer : longer = Append(chosen, i)
    OBVIOUS
  <2>3. Picked(more, P \cup {Len(rows) + 1}) = longer
    BY <1>11 DEF PartGoesOn
  <2>4. Picked(more, Q) = Picked(rows, Q)
    BY <1>11 DEF PartGoesOn
  <2>5. /\ Len(longer) = n + 1 /\ longer[n + 1] = i
        /\ \A k \in 1 .. n : longer[k] = chosen[k]
    BY <1>5
  <2>. PICK v : v = Written(f, more)
    OBVIOUS
  <2>6. v = [k \in 1 .. n + 1 |-> Element(f, longer[k], k)]
    BY <2>1, <2>3, <2>5 DEF Written
  <2>. PICK e : e = Element(f, i, n + 1)
    OBVIOUS
  <2>7. /\ \A k \in 1 .. n : k \in 1 .. n + 1 /\ k # n + 1 /\ v[k] = w[k]
        /\ v[n + 1] = e /\ DOMAIN v = 1 .. n + 1
    BY <1>6, <2>5, <2>6
  <2>8. v = Append(w, e)
    <3>1. Append(w, e) = [k \in 1 .. n + 1 |-> IF k = n + 1 THEN e ELSE w[k]]
      BY <1>7
    <3>2. \A k \in 1 .. n + 1 : v[k] = IF k = n + 1 THEN e ELSE w[k]
      BY <1>4, <2>7
    <3>3. v = [k \in 1 .. n + 1 |-> v[k]]
      BY <2>6
    <3>4. v = [k \in 1 .. n + 1 |-> IF k = n + 1 THEN e ELSE w[k]]
      BY ONLY <3>2, <3>3
    <3>. QED
      BY ONLY <3>1, <3>4
  <2>9. LeftOut(f, more) = LeftOut(f, rows)
    BY <1>8, <2>2, <2>4 DEF LeftOut
  <2>. QED
    BY <1>7, <1>10, <2>8, <2>9
<1>. QED
  BY <1>9, <1>10

LEMMA JoinedAt ==
  ASSUME NEW V, NEW a \in Seq(V), NEW b \in Seq(V)
  PROVE  /\ a \o b \in Seq(V) /\ Len(a \o b) = Len(a) + Len(b)
         /\ \A k \in 1 .. Len(a) + Len(b) :
              (a \o b)[k] = IF k <= Len(a) THEN a[k] ELSE b[k - Len(a)]
OBVIOUS

Linked(a, b, c) == (a \o b) \o c = a \o (b \o c)

LEMMA ConcatLinks ==
  ASSUME NEW V, NEW a \in Seq(V), NEW b \in Seq(V), NEW c \in Seq(V)
  PROVE  Linked(a, b, c)
<1>. PICK l, m, n : l = Len(a) /\ m = Len(b) /\ n = Len(c)
  OBVIOUS
<1>1. l \in Nat /\ m \in Nat /\ n \in Nat
  OBVIOUS
<1>. PICK ab, bc : ab = a \o b /\ bc = b \o c
  OBVIOUS
<1>2. /\ ab \in Seq(V) /\ Len(ab) = l + m
      /\ \A k \in 1 .. l + m : ab[k] = IF k <= l THEN a[k] ELSE b[k - l]
  OBVIOUS
<1>3. /\ bc \in Seq(V) /\ Len(bc) = m + n
      /\ \A k \in 1 .. m + n : bc[k] = IF k <= m THEN b[k] ELSE c[k - m]
  OBVIOUS
<1>. PICK u, v : u = ab \o c /\ v = a \o bc
  OBVIOUS
<1>4. /\ u = [k \in 1 .. l + m + n |-> u[k]]
      /\ \A k \in 1 .. l + m + n : u[k] = IF k <= l + m THEN ab[k] ELSE c[k - (l + m)]
  <2>1. ab \in Seq(V) /\ c \in Seq(V) /\ Len(ab) = l + m /\ Len(c) = n
    BY <1>2
  <2>2. /\ u \in Seq(V) /\ Len(u) = Len(ab) + Len(c)
        /\ \A k \in 1 .. Len(ab) + Len(c) :
             u[k] = IF k <= Len(ab) THEN ab[k] ELSE c[k - Len(ab)]
    BY ONLY u = ab \o c, ab \in Seq(V), c \in Seq(V), <2>1, JoinedAt
  <2>3. u = [k \in 1 .. Len(u) |-> u[k]]
    BY ONLY <2>2
  <2>. QED
    BY <2>1, <2>2, <2>3
<1>5. /\ v = [k \in 1 .. l + (m + n) |-> v[k]]
      /\ \A k \in 1 .. l + (m + n) : v[k] = IF k <= l THEN a[k] ELSE bc[k - l]
  <2>1. a \in Seq(V) /\ bc \in Seq(V) /\ Len(bc) = m + n /\ Len(a) = l
    BY <1>3
  <2>2. /\ v \in Seq(V) /\ Len(v) = Len(a) + Len(bc)
        /\ \A k \in 1 .. Len(a) + Len(bc) :
             v[k] = IF k <= Len(a) THEN a[k] ELSE bc[k - Len(a)]
    BY ONLY v = a \o bc, <2>1, JoinedAt
  <2>3. v = [k \in 1 .. Len(v) |-> v[k]]
    BY ONLY <2>2
  <2>. QED
    BY <2>1, <2>2, <2>3
<1>6. ASSUME NEW k \in 1 .. l + m + n
      PROVE  (IF k <= l + m THEN ab[k] ELSE c[k - (l + m)]) = IF k <= l THEN a[k] ELSE bc[k - l]
  <2>1. CASE k <= l
    BY <1>1, <1>2, <2>1
  <2>2. CASE ~(k <= l) /\ k <= l + m
    <3>1. k \in 1 .. l + m /\ k - l \in 1 .. m + n /\ k - l <= m
      BY <1>1, <2>2
    <3>. QED
      BY <1>2, <1>3, <2>2, <3>1
  <2>3. CASE ~(k <= l + m)
    <3>1. k - l \in 1 .. m + n /\ ~(k - l <= m) /\ ~(k <= l) /\ k - l - m = k - (l + m)
      BY <1>1, <2>3
    <3>. QED
      BY <1>3, <2>3, <3>1
  <2>. QED
    BY <2>1, <2>2, <2>3
<1>7. l + m + n = l + (m + n)
  BY <1>1
<1>8. \A k \in 1 .. l + m + n : u[k] = v[k]
  <2>. SUFFICES ASSUME NEW k \in 1 .. l + m + n PROVE u[k] = v[k]
    OBVIOUS
  <2>1. u[k] = IF k <= l + m THEN ab[k] ELSE c[k - (l + m)]
    BY <1>4
  <2>2. v[k] = IF k <= l THEN a[k] ELSE bc[k - l]
    BY <1>5, <1>7
  <2>. QED
    BY <1>6, <2>1, <2>2
<1>9. u = v
  <2>1. v = [k \in 1 .. l + m + n |-> v[k]]
    BY <1>5, <1>7
  <2>2. u = [k \in 1 .. l + m + n |-> u[k]]
    BY <1>4
  <2>. QED
    BY ONLY <1>8, <2>1, <2>2
<1>. QED
  BY <1>9 DEF Linked

LEMMA EmptyLinks ==
  ASSUME NEW V, NEW a \in Seq(V)
  PROVE  a \o <<>> = a /\ <<>> \o a = a
OBVIOUS

Appends(a, e) == Append(a, e) = a \o <<e>>

LEMMA AppendLinks ==
  ASSUME NEW V, NEW a \in Seq(V), NEW e \in V
  PROVE  Appends(a, e) /\ <<e>> \in Seq(V)
BY DEF Appends

\* An array goes on with a comma, if anything is in it.
LEMMA ArrayOn ==
  ASSUME NEW w \in Seq(ExportMarks), NEW e \in ExportMarks
  PROVE  /\ InArray(w) \in Seq(ExportMarks)
         /\ w = <<>> => InArray(Append(w, e)) = <<e>>
         /\ w # <<>> => InArray(Append(w, e)) = InArray(w) \o <<Comma>> \o <<e>>
<1>. PICK V : V = ExportMarks
  OBVIOUS
<1>6. Comma \in V
  BY DEF ExportMarks
<1>. PICK n \in Nat : n = Len(w)
  OBVIOUS
<1>. PICK v : v = Append(w, e)
  OBVIOUS
<1>. PICK comma \in V : comma = Comma
  BY <1>6
<1>. DEFINE array(s, m) == [k \in 1 .. 2 * m - 1 |-> IF k % 2 = 1 THEN s[(k + 1) \div 2] ELSE comma]
<1>1. v \in Seq(V) /\ Len(v) = n + 1 /\ v # <<>> /\ v[n + 1] = e /\ \A k \in 1 .. n : v[k] = w[k]
  OBVIOUS
<1>2. InArray(v) = array(v, n + 1) /\ (w # <<>> => InArray(w) = array(w, n))
  BY <1>1 DEF InArray
<1>3. \A k \in 1 .. 2 * n - 1 : (k + 1) \div 2 \in 1 .. n
  OBVIOUS
<1>4. CASE w = <<>>
  <2>1. n = 0
    BY <1>4
  <2>2. InArray(w) = <<>>
    BY <1>4 DEF InArray
  <2>3. 1 .. 2 * (n + 1) - 1 = 1 .. 1 /\ 1 % 2 = 1 /\ (1 + 1) \div 2 = 1
    BY <2>1
  <2>4. array(v, n + 1) = [k \in 1 .. 1 |-> e]
    BY <1>1, <2>1, <2>3
  <2>5. [k \in 1 .. 1 |-> e] = <<e>>
    OBVIOUS
  <2>. QED
    BY <1>2, <1>4, <2>2, <2>4, <2>5
<1>5. CASE w # <<>>
  <2>1. n >= 1
    BY <1>5
  <2>. PICK a : a = InArray(w)
    OBVIOUS
  <2>2. a = array(w, n)
    BY <1>2, <1>5
  <2>3. \A k \in 1 .. 2 * n - 1 : a[k] \in V
    <3>1. \A k \in 1 .. n : w[k] \in V
      OBVIOUS
    <3>. QED
      BY <1>3, <2>2, <3>1
  <2>4. a \in Seq(V) /\ Len(a) = 2 * n - 1 /\ 2 * n - 1 \in Nat
    <3>1. a \in [1 .. 2 * n - 1 -> V] /\ 2 * n - 1 \in Nat
      BY <2>1, <2>2, <2>3
    <3>2. a \in Seq(V) /\ Len(a) = 2 * n - 1
      BY ONLY <3>1
    <3>. QED
      BY <3>1, <3>2
  <2>. PICK m \in Nat : m = 2 * n - 1
    BY <2>4
  <2>5. a \o <<comma>> \o <<e>> =
          [k \in 1 .. m + 2 |-> IF k = m + 2 THEN e ELSE IF k = m + 1 THEN comma ELSE a[k]]
    <3>. PICK b : b = Append(a, comma)
      OBVIOUS
    <3>1. b \in Seq(V) /\ Len(b) = m + 1 /\ b[m + 1] = comma /\ \A k \in 1 .. m : b[k] = a[k]
      BY <2>4
    <3>2. a \o <<comma>> = b
      BY <2>4, AppendLinks DEF Appends
    <3>3. b \o <<e>> = Append(b, e)
      BY <3>1, AppendLinks DEF Appends
    <3>. PICK u : u = Append(b, e)
      OBVIOUS
    <3>4. u \in Seq(V) /\ Len(u) = m + 2 /\ u[m + 2] = e /\ \A k \in 1 .. m + 1 : u[k] = b[k]
      BY ONLY <3>1, e \in V, m \in Nat, u = Append(b, e)
    <3>5. \A k \in 1 .. m + 2 : u[k] = IF k = m + 2 THEN e ELSE IF k = m + 1 THEN comma ELSE a[k]
      <4>. SUFFICES ASSUME NEW k \in 1 .. m + 2
                    PROVE  u[k] = IF k = m + 2 THEN e ELSE IF k = m + 1 THEN comma ELSE a[k]
        OBVIOUS
      <4>1. /\ k # m + 2 => k \in 1 .. m + 1
            /\ k # m + 2 /\ k # m + 1 => k \in 1 .. m
        BY ONLY k \in 1 .. m + 2, m \in Nat
      <4>. QED
        BY ONLY <3>1, <3>4, <4>1
    <3>6. u = [k \in 1 .. m + 2 |-> u[k]]
      BY ONLY <3>4, m \in Nat
    <3>7. u = [k \in 1 .. m + 2 |-> IF k = m + 2 THEN e ELSE IF k = m + 1 THEN comma ELSE a[k]]
      BY ONLY <3>5, <3>6
    <3>. QED
      BY <3>2, <3>3, <3>7
  <2>6. \A k \in 1 .. m + 2 :
          array(v, n + 1)[k] = IF k = m + 2 THEN e ELSE IF k = m + 1 THEN comma ELSE a[k]
    <3>. SUFFICES ASSUME NEW k \in 1 .. m + 2
                  PROVE  array(v, n + 1)[k] =
                           IF k = m + 2 THEN e ELSE IF k = m + 1 THEN comma ELSE a[k]
      OBVIOUS
    <3>1. array(v, n + 1)[k] = IF k % 2 = 1 THEN v[(k + 1) \div 2] ELSE comma
      <4>1. k \in 1 .. 2 * (n + 1) - 1
        OBVIOUS
      <4>. QED
        BY <4>1
    <3>2. CASE k = m + 2
      <4>1. k = 2 * n + 1
        BY <3>2
      <4>2. k % 2 = 1 /\ (k + 1) \div 2 = n + 1
        BY <4>1
      <4>. QED
        BY <1>1, <3>1, <3>2, <4>2
    <3>3. CASE k = m + 1
      <4>1. k = 2 * n
        BY <3>3
      <4>2. k % 2 = 0
        BY <4>1
      <4>. QED
        BY <3>1, <3>3, <4>2
    <3>4. CASE k # m + 2 /\ k # m + 1
      <4>1. k \in 1 .. 2 * n - 1
        BY <3>4
      <4>2. (k + 1) \div 2 \in 1 .. n
        BY <1>3, <4>1
      <4>3. v[(k + 1) \div 2] = w[(k + 1) \div 2]
        BY <1>1, <4>2
      <4>4. a[k] = IF k % 2 = 1 THEN w[(k + 1) \div 2] ELSE comma
        BY <2>2, <4>1
      <4>. QED
        BY <3>1, <3>4, <4>3, <4>4
    <3>. QED
      BY <3>2, <3>3, <3>4
  <2>7. 2 * (n + 1) - 1 = m + 2
    OBVIOUS
  <2>8. array(v, n + 1) =
          [k \in 1 .. m + 2 |-> IF k = m + 2 THEN e ELSE IF k = m + 1 THEN comma ELSE a[k]]
    BY <2>6, <2>7
  <2>. QED
    BY <1>2, <1>5, <2>4, <2>5, <2>8
<1>. QED
  BY <1>4, <1>5

LEMMA BodyTyped ==
  ASSUME NEW f \in Formats, NEW rows \in Seq(Shelf)
  PROVE  Body(f, rows) \in Seq(ExportMarks)
<1>1. Comma \in ExportMarks
  BY DEF ExportMarks
<1>2. Written(f, rows) \in Seq(ExportMarks)
  BY WrittenTyped
<1>3. InArray(Written(f, rows)) \in Seq(ExportMarks)
  BY <1>1, <1>2, ArrayOn
<1>. QED
  BY <1>2, <1>3 DEF Body

\* What a row adds to the file.
ElementAdded(f, rows, i) ==
  IF Becomes(f, i) = Omitted THEN <<>>
  ELSE (IF f \in Json /\ Written(f, rows) # <<>> THEN <<Comma>> ELSE <<>>)
         \o <<Element(f, i, Len(Written(f, rows)) + 1)>>

LEMMA BodyOn ==
  ASSUME NEW f \in Formats, NEW rows \in Seq(Shelf), NEW i \in Shelf
  PROVE  /\ ElementAdded(f, rows, i) \in Seq(ExportMarks)
         /\ Body(f, Append(rows, i)) = Body(f, rows) \o ElementAdded(f, rows, i)
<1>. PICK V : V = ExportMarks
  OBVIOUS
<1>. PICK w : w = Written(f, rows)
  OBVIOUS
<1>1. w \in Seq(V) /\ Len(w) \in Nat
  BY WrittenTyped
<1>. PICK e : e = Element(f, i, Len(w) + 1)
  OBVIOUS
<1>2. e \in V /\ Comma \in V
  <2>1. Len(w) + 1 \in Nat
    BY <1>1
  <2>. QED
    BY <2>1 DEF ExportMarks
<1>3. Body(f, rows) \in Seq(V)
  BY BodyTyped
<1>4. CASE Becomes(f, i) = Omitted
  <2>1. Body(f, Append(rows, i)) = Body(f, rows)
    BY <1>4, WrittenOn DEF Body
  <2>2. ElementAdded(f, rows, i) = <<>> /\ <<>> \in Seq(V)
    BY <1>4 DEF ElementAdded
  <2>. QED
    BY <1>3, <2>1, <2>2, EmptyLinks
<1>5. CASE Becomes(f, i) # Omitted
  <2>1. Written(f, Append(rows, i)) = Append(w, e)
    BY <1>5, WrittenOn
  <2>2. /\ <<e>> \in Seq(V) /\ <<Comma>> \in Seq(V) /\ <<>> \in Seq(V) /\ Append(w, e) = w \o <<e>>
        /\ <<>> \o <<e>> = <<e>>
    <3>1. Appends(w, e) /\ <<e>> \in Seq(V) /\ <<Comma>> \in Seq(V) /\ <<>> \in Seq(V)
      BY <1>1, <1>2, AppendLinks
    <3>2. <<>> \o <<e>> = <<e>>
      BY <3>1, EmptyLinks
    <3>. QED
      BY <3>1, <3>2 DEF Appends
  <2>3. CASE f \notin Json
    <3>1. ElementAdded(f, rows, i) = <<>> \o <<e>>
      BY <1>5, <2>3 DEF ElementAdded
    <3>2. Body(f, Append(rows, i)) = Append(w, e) /\ Body(f, rows) = w
      BY <2>1, <2>3 DEF Body
    <3>. QED
      BY <2>2, <3>1, <3>2
  <2>4. CASE f \in Json /\ w = <<>>
    <3>1. ElementAdded(f, rows, i) = <<>> \o <<e>>
      BY <1>5, <2>4 DEF ElementAdded
    <3>2. Body(f, Append(rows, i)) = <<e>> /\ Body(f, rows) = <<>>
      <4>1. InArray(Append(w, e)) = <<e>>
        BY <1>1, <1>2, <2>4, ArrayOn
      <4>2. InArray(w) = <<>>
        BY <2>4 DEF InArray
      <4>. QED
        BY <2>1, <2>4, <4>1, <4>2 DEF Body
    <3>. QED
      BY <2>2, <3>1, <3>2
  <2>5. CASE f \in Json /\ w # <<>>
    <3>1. ElementAdded(f, rows, i) = <<Comma>> \o <<e>>
      BY <1>5, <2>5 DEF ElementAdded
    <3>. PICK a : a = InArray(w)
      OBVIOUS
    <3>2. a \in Seq(V) /\ InArray(Append(w, e)) = a \o <<Comma>> \o <<e>>
      BY <1>1, <1>2, <2>5, ArrayOn
    <3>3. Body(f, Append(rows, i)) = a \o <<Comma>> \o <<e>> /\ Body(f, rows) = a
      BY <2>1, <2>5, <3>2 DEF Body
    <3>4. a \o <<Comma>> \o <<e>> = a \o (<<Comma>> \o <<e>>)
      BY <2>2, <3>2, ConcatLinks DEF Linked
    <3>5. <<Comma>> \o <<e>> \in Seq(V)
      BY <2>2, JoinedAt
    <3>. QED
      BY <3>1, <3>3, <3>4, <3>5
  <2>. QED
    BY <2>3, <2>4, <2>5
<1>. QED
  BY <1>4, <1>5

\* The state and the text that rows leave, after a file that holds B.
LeavesOff(f, rows, B, so) ==
  /\ so.state = StateAfter(f, rows) /\ so.text \in Seq(ExportMarks)
  /\ B \o so.text = Body(f, rows)

LEMMA RowThreads ==
  ASSUME NEW f \in Formats, NEW rows \in Seq(Shelf), NEW i \in Shelf, NEW B \in Seq(ExportMarks),
         NEW so, LeavesOff(f, rows, B, so)
  PROVE  LeavesOff(f, Append(rows, i), B, ExportRow(f, so, i))
<1>. PICK V : V = ExportMarks
  OBVIOUS
<1>. PICK w : w = Written(f, rows)
  OBVIOUS
<1>. PICK n \in Nat : n = Len(w)
  BY WrittenTyped
<1>. PICK e : e = Element(f, i, n + 1)
  OBVIOUS
<1>. PICK out : out = ExportRow(f, so, i)
  OBVIOUS
<1>. PICK b, t : b = Body(f, rows) /\ t = so.text
  OBVIOUS
<1>1. /\ w \in Seq(V) /\ b \in Seq(V) /\ t \in Seq(V) /\ B \in Seq(V) /\ B \o t = b
  BY WrittenTyped, BodyTyped DEF LeavesOff
<1>2. /\ so.state.hasEmitted = (f \in Json /\ w # <<>>) /\ so.state.snortSid = n + 1
      /\ so.state.snortSkipped = LeftOut(f, rows)
  BY DEF StateAfter, LeavesOff
<1>3. Comma \in V /\ e \in V /\ <<Comma>> \in Seq(V) /\ <<e>> \in Seq(V) /\ <<>> \in Seq(V)
  <2>1. Comma \in V /\ e \in V
    BY DEF ExportMarks
  <2>. QED
    BY <2>1
<1>4. /\ ElementAdded(f, rows, i) \in Seq(V)
      /\ Body(f, Append(rows, i)) = b \o ElementAdded(f, rows, i)
  BY BodyOn
<1>5. CASE Becomes(f, i) = Omitted
  <2>1. /\ out.state = [hasEmitted |-> so.state.hasEmitted \/ Emits(f, i),
                        snortSid |-> n + 1, snortSkipped |-> Append(LeftOut(f, rows), i)]
        /\ out.text = t \o <<>> \o <<>>
    BY <1>2, <1>5 DEF ExportRow
  <2>2. ~Emits(f, i)
    BY <1>5 DEF Emits
  <2>3. /\ Written(f, Append(rows, i)) = w
        /\ LeftOut(f, Append(rows, i)) = Append(LeftOut(f, rows), i)
    BY <1>5, WrittenOn
  <2>4. out.state = StateAfter(f, Append(rows, i))
    BY <1>2, <2>1, <2>2, <2>3 DEF StateAfter
  <2>5. out.text = t
    BY <1>1, <2>1, EmptyLinks
  <2>6. b \o ElementAdded(f, rows, i) = b
    <3>1. ElementAdded(f, rows, i) = <<>>
      BY <1>5 DEF ElementAdded
    <3>. QED
      BY <1>1, <3>1, EmptyLinks
  <2>. QED
    BY <1>1, <1>4, <2>4, <2>5, <2>6 DEF LeavesOff
<1>6. CASE Becomes(f, i) # Omitted
  <2>. PICK comma \in Seq(V) : comma = IF f \in Json /\ w # <<>> THEN <<Comma>> ELSE <<>>
    BY <1>3
  <2>1. /\ out.state = [hasEmitted |-> so.state.hasEmitted \/ Emits(f, i),
                        snortSid |-> n + 1 + 1, snortSkipped |-> LeftOut(f, rows)]
        /\ out.text = t \o comma \o <<e>>
    BY <1>2, <1>6 DEF ExportRow
  <2>2. Emits(f, i) = (f \in Json)
    BY <1>6 DEF Emits
  <2>3. /\ Written(f, Append(rows, i)) = Append(w, e)
        /\ LeftOut(f, Append(rows, i)) = LeftOut(f, rows)
    BY <1>6, WrittenOn
  <2>4. Append(w, e) # <<>> /\ Len(Append(w, e)) = n + 1
    BY <1>1, <1>3
  <2>5. out.state = StateAfter(f, Append(rows, i))
    BY <1>2, <2>1, <2>2, <2>3, <2>4 DEF StateAfter
  <2>6. ElementAdded(f, rows, i) = comma \o <<e>>
    BY <1>6 DEF ElementAdded
  <2>. PICK one \in Seq(V) : one = <<e>>
    BY <1>3
  <2>. PICK p : p = comma \o one
    OBVIOUS
  <2>7. out.text = t \o p /\ p \in Seq(V)
    <3>1. t \o comma \o one = t \o (comma \o one)
      <4>1. t \in Seq(V) /\ comma \in Seq(V) /\ one \in Seq(V)
        BY <1>1
      <4>2. Linked(t, comma, one)
        BY ONLY <4>1, ConcatLinks
      <4>. QED
        BY <4>2 DEF Linked
    <3>2. comma \o one \in Seq(V)
      BY JoinedAt
    <3>. QED
      BY <2>1, <3>1, <3>2
  <2>8. out.text \in Seq(V)
    BY <1>1, <2>7, JoinedAt
  <2>9. B \o t \o p = B \o (t \o p)
    <3>1. B \in Seq(V) /\ t \in Seq(V) /\ p \in Seq(V)
      BY <1>1, <2>7
    <3>2. Linked(B, t, p)
      BY ONLY <3>1, ConcatLinks
    <3>. QED
      BY <3>2 DEF Linked
  <2>. QED
    BY <1>1, <1>4, <2>5, <2>6, <2>7, <2>8, <2>9 DEF LeavesOff
<1>. QED
  BY <1>5, <1>6

\* g threads the rows from the start, as a batch does.
Threads(g, f, rows, start) ==
  g = [n \in 0 .. Len(rows) |-> IF n = 0 THEN start ELSE ExportRow(f, g[n - 1], rows[n])]

LEMMA ThreadsExist ==
  ASSUME NEW f, NEW rows, Len(rows) \in Nat, NEW start
  PROVE  \E g : Threads(g, f, rows, start)
<1>. PICK L \in Nat : L = Len(rows)
  OBVIOUS
<1>. DEFINE Goes(g, m) ==
              /\ DOMAIN g = 0 .. m /\ g = [n \in 0 .. m |-> g[n]]
              /\ g[0] = start
              /\ \A n \in 1 .. m : g[n] = ExportRow(f, g[n - 1], rows[n])
            Bad == {m \in Nat : m <= L /\ ~\E g : Goes(g, m)}
<1>1. Bad = {}
  <2>. SUFFICES ASSUME Bad # {} PROVE FALSE
    OBVIOUS
  <2>1. PICK m \in Bad : \A n \in Bad : m <= n
    <3>1. Bad \in SUBSET Nat
      OBVIOUS
    <3>. HIDE DEF Bad
    <3>. QED
      BY <3>1, LeastOfNaturals
  <2>2. m \in Nat /\ m <= L /\ ~\E g : Goes(g, m)
    OBVIOUS
  <2>3. m # 0
    <3>. SUFFICES ASSUME m = 0 PROVE FALSE
      OBVIOUS
    <3>. PICK g : g = [n \in 0 .. 0 |-> start]
      OBVIOUS
    <3>1. Goes(g, m)
      OBVIOUS
    <3>. HIDE DEF Goes
    <3>. QED
      BY <2>2, <3>1
  <2>4. m - 1 \in Nat /\ m - 1 <= L /\ ~(m <= m - 1)
    BY <2>2, <2>3
  <2>5. PICK h : Goes(h, m - 1)
    <3>1. m - 1 \notin Bad
      BY <2>1, <2>4
    <3>. HIDE DEF Goes
    <3>. QED
      BY <2>4, <3>1
  <2>. PICK g : g = [n \in 0 .. m |-> IF n = m THEN ExportRow(f, h[m - 1], rows[m]) ELSE h[n]]
    OBVIOUS
  <2>6. /\ 0 \in 0 .. m /\ 0 # m /\ m \in 0 .. m /\ m - 1 \in 0 .. m /\ m - 1 # m
        /\ \A n \in 1 .. m : /\ n # m => n \in 1 .. m - 1 /\ n \in 0 .. m
                             /\ n - 1 \in 0 .. m /\ n - 1 # m
    BY <2>2, <2>3
  <2>7. g[0] = start
    BY <2>5, <2>6
  <2>8. \A n \in 1 .. m : g[n] = ExportRow(f, g[n - 1], rows[n])
    <3>. SUFFICES ASSUME NEW n \in 1 .. m PROVE g[n] = ExportRow(f, g[n - 1], rows[n])
      OBVIOUS
    <3>1. g[n - 1] = h[n - 1]
      BY <2>6
    <3>2. CASE n = m
      <4>1. g[m] = ExportRow(f, h[m - 1], rows[m])
        BY <2>6
      <4>. QED
        BY <3>1, <3>2, <4>1
    <3>3. CASE n # m
      <4>1. g[n] = h[n] /\ n \in 1 .. m - 1
        BY <2>6, <3>3
      <4>2. h[n] = ExportRow(f, h[n - 1], rows[n])
        BY <2>5, <4>1
      <4>. QED
        BY <3>1, <4>1, <4>2
    <3>. QED
      BY <3>2, <3>3
  <2>9. Goes(g, m)
    BY <2>7, <2>8
  <2>. HIDE DEF Goes
  <2>. QED
    BY <2>2, <2>9
<1>2. PICK g : Goes(g, L)
  <2>1. L <= L /\ L \notin Bad
    <3>1. L <= L
      OBVIOUS
    <3>. HIDE DEF Bad
    <3>. QED
      BY <1>1, <3>1
  <2>. HIDE DEF Goes
  <2>. QED
    BY <2>1
<1>3. \A n \in 0 .. L : g[n] = IF n = 0 THEN start ELSE ExportRow(f, g[n - 1], rows[n])
  <2>1. \A n \in 0 .. L : n # 0 => n \in 1 .. L
    OBVIOUS
  <2>. QED
    BY <1>2, <2>1
<1>4. g = [n \in 0 .. L |-> IF n = 0 THEN start ELSE ExportRow(f, g[n - 1], rows[n])]
  <2>1. g = [n \in 0 .. L |-> g[n]]
    BY <1>2
  <2>. QED
    BY <1>3, <2>1
<1>. QED
  BY <1>4 DEF Threads

LEMMA BatchThreads ==
  ASSUME NEW f, NEW rows, Len(rows) \in Nat, NEW state
  PROVE  \E g : /\ Threads(g, f, rows, [state |-> state, text |-> <<>>])
                /\ ExportBatch(f, rows, state) = g[Len(rows)]
<1>. PICK start : start = [state |-> state, text |-> <<>>]
  OBVIOUS
<1>. DEFINE so[n \in 0 .. Len(rows)] ==
              IF n = 0 THEN start ELSE ExportRow(f, so[n - 1], rows[n])
<1>1. so = CHOOSE g : g = [n \in 0 .. Len(rows) |->
                             IF n = 0 THEN start ELSE ExportRow(f, g[n - 1], rows[n])]
  OBVIOUS
<1>2. ExportBatch(f, rows, state) = so[Len(rows)]
  BY DEF ExportBatch
<1>. HIDE DEF so
<1>3. so = CHOOSE g : Threads(g, f, rows, start)
  BY <1>1 DEF Threads
<1>4. \E g : Threads(g, f, rows, start)
  BY ThreadsExist
<1>5. Threads(so, f, rows, start)
  BY <1>3, <1>4
<1>. QED
  BY <1>2, <1>5

\* A batch goes on where the rows before it ended.
LEMMA BatchOn ==
  ASSUME NEW f \in Formats, NEW sent \in Seq(Shelf), NEW rows \in Seq(Shelf),
         NEW all, all = sent \o rows
  PROVE  LeavesOff(f, all, Body(f, sent), ExportBatch(f, rows, StateAfter(f, sent)))
<1>. PICK L \in Nat : L = Len(rows)
  OBVIOUS
<1>. PICK B : B = Body(f, sent)
  OBVIOUS
<1>. PICK start : start = [state |-> StateAfter(f, sent), text |-> <<>>]
  OBVIOUS
<1>1. B \in Seq(ExportMarks)
  BY BodyTyped
<1>2. PICK g : /\ Threads(g, f, rows, start)
               /\ ExportBatch(f, rows, StateAfter(f, sent)) = g[Len(rows)]
  BY BatchThreads
<1>3. /\ g[0] = start /\ \A n \in 1 .. L : g[n] = ExportRow(f, g[n - 1], rows[n])
  <2>1. g = [n \in 0 .. L |-> IF n = 0 THEN start ELSE ExportRow(f, g[n - 1], rows[n])]
    BY <1>2 DEF Threads
  <2>2. \A n \in 1 .. L : n \in 0 .. L /\ n # 0
    OBVIOUS
  <2>3. 0 \in 0 .. L
    OBVIOUS
  <2>4. \A n \in 0 .. L : g[n] = IF n = 0 THEN start ELSE ExportRow(f, g[n - 1], rows[n])
    BY <2>1
  <2>. QED
    BY <2>2, <2>3, <2>4
<1>. DEFINE upto(n) == sent \o SubSeq(rows, 1, n)
            Right(n) == LeavesOff(f, upto(n), B, g[n])
            Bad == {n \in Nat : n <= L /\ ~Right(n)}
<1>4. upto(0) = sent /\ upto(L) = all
  <2>1. SubSeq(rows, 1, 0) = <<>> /\ SubSeq(rows, 1, L) = rows
    OBVIOUS
  <2>2. sent \o <<>> = sent
    BY EmptyLinks
  <2>. QED
    BY <2>1, <2>2
<1>5. ASSUME NEW n \in 1 .. L
      PROVE  /\ upto(n - 1) \in Seq(Shelf) /\ rows[n] \in Shelf
             /\ upto(n) = Append(upto(n - 1), rows[n])
  <2>. PICK a : a = SubSeq(rows, 1, n - 1)
    OBVIOUS
  <2>1. rows[n] \in Shelf
    OBVIOUS
  <2>2. a \in Seq(Shelf) /\ SubSeq(rows, 1, n) = Append(a, rows[n])
    OBVIOUS
  <2>3. Append(a, rows[n]) = a \o <<rows[n]>> /\ <<rows[n]>> \in Seq(Shelf)
    BY <2>1, <2>2, AppendLinks DEF Appends
  <2>4. sent \o a \in Seq(Shelf)
    BY <2>2, JoinedAt
  <2>5. Append(sent \o a, rows[n]) = sent \o a \o <<rows[n]>>
    BY <2>1, <2>4, AppendLinks DEF Appends
  <2>6. sent \o a \o <<rows[n]>> = sent \o (a \o <<rows[n]>>)
    <3>1. sent \in Seq(Shelf) /\ a \in Seq(Shelf) /\ <<rows[n]>> \in Seq(Shelf)
      BY <2>2, <2>3
    <3>2. Linked(sent, a, <<rows[n]>>)
      BY ONLY <3>1, ConcatLinks
    <3>. QED
      BY <3>2 DEF Linked
  <2>. QED
    BY <2>1, <2>2, <2>3, <2>4, <2>5, <2>6
<1>. HIDE DEF upto
<1>6. Right(0)
  <2>1. g[0].state = StateAfter(f, sent) /\ g[0].text = <<>>
    BY <1>3
  <2>2. <<>> \in Seq(ExportMarks) /\ B \o <<>> = B
    BY <1>1, EmptyLinks
  <2>. QED
    BY <1>4, <2>1, <2>2 DEF LeavesOff
<1>7. ASSUME NEW n \in 1 .. L, Right(n - 1) PROVE Right(n)
  <2>. PICK so : so = g[n - 1]
    OBVIOUS
  <2>. PICK before \in Seq(Shelf) : before = upto(n - 1)
    BY <1>5
  <2>. PICK i \in Shelf : i = rows[n]
    BY <1>5
  <2>1. LeavesOff(f, before, B, so)
    BY <1>7
  <2>2. LeavesOff(f, Append(before, i), B, ExportRow(f, so, i))
    BY <1>1, <2>1, RowThreads
  <2>3. g[n] = ExportRow(f, so, i) /\ upto(n) = Append(before, i)
    BY <1>3, <1>5
  <2>. QED
    BY <2>2, <2>3
<1>. HIDE DEF Right
<1>8. Bad = {}
  <2>. SUFFICES ASSUME Bad # {} PROVE FALSE
    OBVIOUS
  <2>1. PICK n \in Bad : \A m \in Bad : n <= m
    <3>1. Bad \in SUBSET Nat
      OBVIOUS
    <3>. HIDE DEF Bad
    <3>. QED
      BY <3>1, LeastOfNaturals
  <2>2. n \in Nat /\ n <= L /\ ~Right(n)
    OBVIOUS
  <2>3. n # 0
    BY <1>6, <2>2
  <2>4. n \in 1 .. L /\ n - 1 \in Nat /\ n - 1 <= L /\ ~(n <= n - 1)
    BY <2>2, <2>3
  <2>5. Right(n - 1)
    BY <2>1, <2>4
  <2>. QED
    BY <1>7, <2>2, <2>4, <2>5
<1>9. Right(L)
  <2>1. L <= L
    OBVIOUS
  <2>. QED
    BY <1>8, <2>1
<1>10. ExportBatch(f, rows, StateAfter(f, sent)) = g[L]
  BY <1>2
<1>. QED
  BY <1>4, <1>9, <1>10 DEF Right

\* The footer closes what the rows left open.
FileSoFar(x) ==
  /\ x.f \in Formats
  /\ IF x.st = "done" THEN x.file = FormatExport(x.f, x.sent, x.capped)
     ELSE /\ x.file = Header(x.f, x.capped) \o Body(x.f, x.sent)
          /\ x.state = StateAfter(x.f, x.sent)

ExportWhole ==
  /\ ExportSafe
  /\ stream = NoStream \/ stream = [st |-> "broken"] \/ FileSoFar(stream)

\* A file with a header is a sequence too.
LEMMA HeaderLinks ==
  ASSUME NEW f, NEW n, NEW b \in Seq(ExportMarks), NEW c \in Seq(ExportMarks)
  PROVE  /\ Linked(Header(f, n), b, c) /\ (Header(f, n) \o b) \o <<>> = Header(f, n) \o b
         /\ Header(f, n) \o <<>> = Header(f, n)
<1>. PICK h : h = [head |-> f, n |-> IF f \in {"csv", "zeek"} THEN 0 ELSE n]
  OBVIOUS
<1>. PICK U, V : U = ExportMarks /\ V = ExportMarks \cup {h}
  OBVIOUS
<1>. PICK header : header = <<h>>
  OBVIOUS
<1>1. header \in Seq(V) /\ b \in Seq(V) /\ c \in Seq(V)
  <2>1. U \subseteq V /\ b \in Seq(U) /\ c \in Seq(U) /\ h \in V
    OBVIOUS
  <2>. QED
    BY ONLY <2>1, header = <<h>>
<1>2. Linked(header, b, c)
  BY <1>1, ConcatLinks
<1>3. header \o <<>> = header /\ header \o b \in Seq(V)
  BY <1>1, EmptyLinks, JoinedAt
<1>4. (header \o b) \o <<>> = header \o b
  BY <1>3, EmptyLinks
<1>5. Header(f, n) = header
  BY DEF Header
<1>. QED
  BY <1>2, <1>3, <1>4, <1>5

LEMMA NothingWritten ==
  ASSUME NEW f \in Formats
  PROVE  Body(f, <<>>) = <<>> /\ StateAfter(f, <<>>) = ExportState
<1>. PICK none : none = <<>>
  OBVIOUS
<1>6. none \in Seq(Shelf) /\ Len(none) = 0
  OBVIOUS
<1>1. 1 .. 0 = {} /\ 1 .. Len(none) = {}
  OBVIOUS
<1>2. Becoming(f, none) = {} /\ DOMAIN none \ Becoming(f, none) = {}
  BY <1>1, <1>6, WrittenTyped
<1>3. Picked(none, {}) = <<>>
  <2>1. Cardinality({}) = 0
    BY FS_EmptySet
  <2>. QED
    BY <1>1, <2>1 DEF Picked
<1>4. Written(f, none) = <<>> /\ LeftOut(f, none) = <<>>
  <2>1. Written(f, none) = [k \in 1 .. 0 |-> Element(f, <<>>[k], k)]
    <3>. PICK chosen : chosen = Picked(none, Becoming(f, none))
      OBVIOUS
    <3>1. chosen = <<>> /\ Len(chosen) = 0
      BY <1>2, <1>3, <1>6
    <3>. QED
      BY <3>1 DEF Written
  <2>. QED
    BY <1>1, <1>2, <1>3, <2>1 DEF LeftOut
<1>5. InArray(<<>>) = <<>>
  BY DEF InArray
<1>7. Written(f, <<>>) = <<>> /\ LeftOut(f, <<>>) = <<>> /\ Len(<<>>) = 0
  BY <1>4, <1>6
<1>8. Body(f, <<>>) = <<>>
  BY <1>5, <1>7 DEF Body
<1>9. StateAfter(f, <<>>) = ExportState
  <2>1. (f \in Json /\ <<>> # <<>>) = FALSE /\ 0 + 1 = 1
    OBVIOUS
  <2>. QED
    BY <1>7, <2>1 DEF StateAfter, ExportState
<1>. QED
  BY <1>8, <1>9

ClosesWhole(f, rows, n) ==
  Header(f, n) \o Body(f, rows) \o Footer(f, LeftOut(f, rows)) = FormatExport(f, rows, n)

\* What a stream writes to its end is what is written at once.
LEMMA ClosedWhole ==
  ASSUME NEW f \in Formats, NEW rows \in Seq(Shelf), NEW n
  PROVE  ClosesWhole(f, rows, n)
<1>. PICK b : b = Body(f, rows)
  OBVIOUS
<1>1. Header(f, n) \o b \o <<>> = Header(f, n) \o b
  BY BodyTyped, HeaderLinks
<1>2. f \in Json => b = InArray(Written(f, rows)) /\ Footer(f, LeftOut(f, rows)) = Footer(f, <<>>)
  BY DEF Body, Footer
<1>3. f \notin Json => b = Written(f, rows)
  BY DEF Body
<1>4. f \in {"csv", "zeek"} => Footer(f, LeftOut(f, rows)) = <<>>
  BY DEF Footer, Json
<1>5. CASE f = "csv"
  <2>1. FormatExport(f, rows, n) = Header(f, n) \o Written(f, rows)
    BY <1>5 DEF FormatExport, ToCsv
  <2>. QED
    BY <1>1, <1>3, <1>4, <1>5, <2>1 DEF Json, ClosesWhole
<1>6. CASE f = "stix"
  <2>1. FormatExport(f, rows, n) = Header(f, n) \o InArray(Written(f, rows)) \o Footer(f, <<>>)
    BY <1>6 DEF FormatExport, ToStixBundle
  <2>. QED
    BY <1>2, <1>6, <2>1 DEF Json, ClosesWhole
<1>7. CASE f = "misp"
  <2>1. FormatExport(f, rows, n) = Header(f, n) \o InArray(Written(f, rows)) \o Footer(f, <<>>)
    BY <1>7 DEF FormatExport, ToMispEvent
  <2>. QED
    BY <1>2, <1>7, <2>1 DEF Json, ClosesWhole
<1>8. CASE f = "snort"
  <2>1. FormatExport(f, rows, n) =
          Header(f, n) \o Written(f, rows) \o Footer(f, LeftOut(f, rows))
    BY <1>8 DEF FormatExport, ToSnortRules
  <2>. QED
    BY <1>3, <1>8, <2>1 DEF Json, ClosesWhole
<1>9. CASE f = "zeek"
  <2>1. FormatExport(f, rows, n) = Header(f, n) \o Written(f, rows)
    BY <1>9 DEF FormatExport, ToZeekIntel
  <2>. QED
    BY <1>1, <1>3, <1>4, <1>9, <2>1 DEF Json, ClosesWhole
<1>. QED
  BY <1>5, <1>6, <1>7, <1>8, <1>9 DEF Formats

LEMMA OpenWhole ==
  ASSUME NEW f \in Formats, OpenStream(f)
  PROVE  FileSoFar(stream')
<1>. PICK n, header : n = Least(Cardinality(Selected), ExportCap) /\ header = Header(f, n)
  OBVIOUS
<1>. PICK x : x = stream'
  OBVIOUS
<1>1. /\ x.st = "open" /\ x.f = f /\ x.capped = n /\ x.state = ExportState /\ x.file = header
      /\ x.sent = <<>>
  BY DEF OpenStream
<1>2. header \o <<>> = header
  <2>1. <<>> \in Seq(ExportMarks)
    OBVIOUS
  <2>. QED
    BY <2>1, HeaderLinks
<1>. QED
  BY <1>1, <1>2, NothingWritten DEF FileSoFar

LEMMA BatchWhole ==
  ASSUME ExportWhole, SendBatch
  PROVE  FileSoFar(stream')
<1>. PICK x : x = stream
  OBVIOUS
<1>1. x.st = "open" /\ FileSoFar(x) /\ ExportSafe
  BY DEF SendBatch, ExportWhole, NoStream
<1>2. StreamFits(x, stirred, shelf)
  BY <1>1 DEF ExportSafe, NoStream
<1>3. /\ x = [st |-> x.st, f |-> x.f, capped |-> x.capped, skip |-> x.skip, state |-> x.state,
              file |-> x.file, sent |-> x.sent, first |-> x.first]
      /\ x.sent \in Seq(Shelf) /\ x.capped \in Int
  <2>. PICK n \in Nat : n = Cardinality(OnShelf(x.first))
    BY OnShelfFinite
  <2>1. x.capped = Least(n, ExportCap) /\ n \in Int /\ ExportCap \in Int
    BY <1>2, ExportAssumption DEF StreamFits
  <2>. QED
    BY <1>2, <2>1, LeastFacts DEF StreamFits
<1>. PICK order, rows, out, end :
       /\ order \in Orders /\ rows = SubSeq(order, x.skip + 1, end)
       /\ end = Least(Len(order), x.skip + TakeOf(x))
       /\ out = ExportBatch(x.f, rows, x.state)
       /\ stream' = IF rows = <<>> THEN [x EXCEPT !.st = "closing"]
                    ELSE [x EXCEPT !.skip = @ + Len(rows), !.state = out.state,
                            !.file = @ \o out.text, !.sent = @ \o rows]
  BY DEF SendBatch
<1>. PICK z : z = stream'
  OBVIOUS
<1>4. CASE rows = <<>>
  <2>1. z = [st |-> "closing", f |-> x.f, capped |-> x.capped, skip |-> x.skip,
             state |-> x.state, file |-> x.file, sent |-> x.sent, first |-> x.first]
    BY ONLY <1>3, <1>4, z = stream',
       stream' = IF rows = <<>> THEN [x EXCEPT !.st = "closing"]
                 ELSE [x EXCEPT !.skip = @ + Len(rows), !.state = out.state,
                         !.file = @ \o out.text, !.sent = @ \o rows]
  <2>2. FileSoFar(z)
    BY ONLY <1>1, <2>1 DEF FileSoFar
  <2>. QED
    BY <2>2
<1>5. CASE rows # <<>>
  <2>. PICK file, all : file = x.file \o out.text /\ all = x.sent \o rows
    OBVIOUS
  <2>1. z = [st |-> x.st, f |-> x.f, capped |-> x.capped, skip |-> x.skip + Len(rows),
             state |-> out.state, file |-> file, sent |-> all, first |-> x.first]
    BY ONLY <1>3, <1>5, z = stream', file = x.file \o out.text, all = x.sent \o rows,
       stream' = IF rows = <<>> THEN [x EXCEPT !.st = "closing"]
                 ELSE [x EXCEPT !.skip = @ + Len(rows), !.state = out.state,
                         !.file = @ \o out.text, !.sent = @ \o rows]
  <2>2. order \in Seq(Shelf)
    BY <1>1, OrdersRank DEF ExportSafe
  <2>3. rows \in Seq(Shelf)
    <3>1. end \in Int /\ end <= Len(order) /\ x.skip = Len(x.sent)
      <4>1. x.skip = Len(x.sent)
        BY <1>2 DEF StreamFits
      <4>2. x.skip \in Nat /\ Len(order) \in Nat
        BY <1>3, <2>2, <4>1, PlaceIsNatural
      <4>3. x.skip + TakeOf(x) \in Int
        <5>1. TakeOf(x) = Least(BatchSize, x.capped - x.skip) /\ BatchSize \in Int
          BY ExportAssumption DEF TakeOf
        <5>2. x.capped - x.skip \in Int
          BY <1>3, <4>2
        <5>3. TakeOf(x) \in Int
          BY <5>1, <5>2, LeastFacts
        <5>. QED
          BY <4>2, <5>3
      <4>4. Len(order) \in Int
        BY <4>2
      <4>. QED
        BY <4>1, <4>3, <4>4, LeastFacts
    <3>2. Follows(x.sent, order, end, rows, all)
      BY <1>3, <2>2, <3>1, PageFollows
    <3>. QED
      BY <3>2 DEF Follows
  <2>. PICK f \in Formats : f = x.f
    BY <1>1 DEF FileSoFar
  <2>4. x.state = StateAfter(f, x.sent) /\ x.file = Header(f, x.capped) \o Body(f, x.sent)
    BY <1>1 DEF FileSoFar
  <2>5. LeavesOff(f, all, Body(f, x.sent), out)
    <3>1. LeavesOff(f, all, Body(f, x.sent), ExportBatch(f, rows, StateAfter(f, x.sent)))
      BY <1>3, <2>3, BatchOn
    <3>. QED
      BY <2>4, <3>1
  <2>6. /\ out.state = StateAfter(f, all) /\ out.text \in Seq(ExportMarks)
        /\ Body(f, x.sent) \o out.text = Body(f, all)
    BY <2>5 DEF LeavesOff
  <2>7. Linked(Header(f, x.capped), Body(f, x.sent), out.text)
    BY <1>3, <2>6, BodyTyped, HeaderLinks
  <2>8. file = Header(f, x.capped) \o Body(f, all)
    BY <2>4, <2>6, <2>7 DEF Linked
  <2>9. FileSoFar(z)
    BY ONLY <1>1, <2>1, <2>6, <2>8, f \in Formats, f = x.f DEF FileSoFar
  <2>. QED
    BY <2>9
<1>. QED
  BY <1>4, <1>5

LEMMA CloseWhole ==
  ASSUME ExportWhole, CloseStream
  PROVE  FileSoFar(stream')
<1>. PICK x, footer, file, z :
       /\ x = stream /\ footer = Footer(x.f, x.state.snortSkipped) /\ file = x.file \o footer
       /\ z = [x EXCEPT !.st = "done", !.file = @ \o footer] /\ stream' = z
  BY DEF CloseStream
<1>1. x.st \in {"closing", "open"} /\ FileSoFar(x) /\ ExportSafe
  BY DEF CloseStream, ExportWhole, NoStream
<1>2. StreamFits(x, stirred, shelf)
  BY <1>1 DEF ExportSafe, NoStream
<1>3. /\ z = [st |-> "done", f |-> x.f, capped |-> x.capped, skip |-> x.skip,
              state |-> x.state, file |-> file, sent |-> x.sent, first |-> x.first]
      /\ x.sent \in Seq(Shelf)
  BY <1>2 DEF StreamFits
<1>. PICK f \in Formats : f = x.f
  BY <1>1 DEF FileSoFar
<1>4. x.state = StateAfter(f, x.sent) /\ x.file = Header(f, x.capped) \o Body(f, x.sent)
  BY <1>1 DEF FileSoFar
<1>5. footer = Footer(f, LeftOut(f, x.sent))
  BY <1>4 DEF StateAfter
<1>6. file = FormatExport(f, x.sent, x.capped)
  <2>1. ClosesWhole(f, x.sent, x.capped)
    BY <1>3, ClosedWhole
  <2>. QED
    BY <1>4, <1>5, <2>1 DEF ClosesWhole
<1>7. FileSoFar(z)
  BY ONLY <1>3, <1>6, f \in Formats, f = x.f DEF FileSoFar
<1>. QED
  BY <1>7

LEMMA ExportStepWhole ==
  ASSUME ExportWhole, [ExportNext \/ ExportElsewhere]_<<environment, exportVars>>
  PROVE  ExportWhole'
<1>1. ExportSafe'
  BY ExportStepSafe DEF ExportWhole
<1>2. CASE UNCHANGED stream
  BY <1>1, <1>2 DEF ExportWhole, NoStream
<1>3. ASSUME NEW f \in Formats, OpenStream(f) PROVE ExportWhole'
  BY <1>1, <1>3, OpenWhole DEF ExportWhole
<1>4. CASE SendBatch
  BY <1>1, <1>4, BatchWhole DEF ExportWhole
<1>5. CASE CloseStream
  BY <1>1, <1>5, CloseWhole DEF ExportWhole
<1>6. CASE BreakStream
  BY <1>1, <1>6 DEF ExportWhole, BreakStream
<1>7. CASE UNCHANGED <<environment, exportVars>> \/ ExportElsewhere
  BY <1>2, <1>7 DEF exportVars, ExportElsewhere
<1>8. ASSUME NEW i \in Shelf, SeeAgain(i) \/ LeaveShelf(i) PROVE ExportWhole'
  BY <1>2, <1>8 DEF SeeAgain, LeaveShelf
<1>. QED
  BY <1>3, <1>4, <1>5, <1>6, <1>7, <1>8 DEF ExportNext

\* A streamed export is the file its rows would make at once, in any batches
\* and whatever comes in between, and one that nothing stirs pages by offset
\* through each of the newest rows once, in their order and up to the cap
\* (src/lib/export/formats.ts, streamExport of src/app/api/v1/indicators/route.ts).
THEOREM ExportsDoHold == ExportSpec => []ExportsHold
<1>1. EnvironmentInit /\ ExportInit => ExportWhole
  <2>1. EnvironmentInit /\ ExportInit => ExportSafe
    BY ExportAssumption DEF EnvironmentInit, ExportInit, ExportSafe
  <2>. QED
    BY <2>1 DEF ExportInit, ExportWhole
<1>2. ExportWhole /\ [ExportNext \/ ExportElsewhere]_<<environment, exportVars>> => ExportWhole'
  BY ExportStepWhole
<1>3. ExportWhole => ExportsHold
  <2>1. ExportWhole => StreamedAsWhole
    BY DEF ExportWhole, FileSoFar, StreamedAsWhole, NoStream
  <2>2. ExportWhole => PagedOnce
    BY SafePagesOnce DEF ExportWhole
  <2>. QED
    BY <2>1, <2>2 DEF ExportsHold
<1>. QED
  BY <1>1, <1>2, <1>3, PTL DEF ExportSpec
-----------------------------------------------------------------------------
(* Releases.  Each pass leaves what it wrote, and each only once.          *)

ReleasesSpec == ReleasesInit /\ [][ReleasesNext]_releaseVars

ReleaseNumbers == 1 .. Len(Bundles)
ColumnsOf(n) == 1 .. Len(TacticOrder(Bundles[n]))
ColumnRow(n, k) == [short |-> TacticOrder(Bundles[n])[k], order |-> k - 1, ver |-> n]

\* A technique has the one row that release n gives it, under its parent.
SavedAs(n, p, ledger) ==
  \E t \in ledger :
    /\ {s \in ledger : s.number = p.number} = {t}
    /\ t.ver = n /\ t.phases = p.phases /\ t.deprecated = p.deprecated
    /\ t.guidance = Guidance(Bundles[n], p.id)
BelowParent(n, p, ledger) ==
  \A r \in ParentLinks(Bundles[n]), q \in ParsedTechniques(Bundles[n]) :
    r.from = p.id /\ r.to = q.id =>
      \A t \in ledger : t.number = p.number => t.parent = q.number
MappingsIn(n, targets, maps) ==
  \A m \in MappingsTo(Bundles[n], targets) : m[1] \in Followed => m \in maps

\* What the passes before a stage have left.
Columned(n) == \A k \in ColumnsOf(n) : ColumnRow(n, k) \in atlas.tactics
AllSaved(n) == \A p \in ParsedTechniques(Bundles[n]) : SavedAs(n, p, atlas.techs)
AllBelow(n) == \A p \in ParsedTechniques(Bundles[n]) : BelowParent(n, p, atlas.techs)

StageHolds(y) ==
  \/ /\ y.st = "tactics" /\ y.todo \subseteq ColumnsOf(y.of)
     /\ \A k \in ColumnsOf(y.of) \ y.todo : ColumnRow(y.of, k) \in atlas.tactics
  \/ /\ y.st = "techniques" /\ Columned(y.of)
     /\ y.todo \subseteq ParsedTechniques(Bundles[y.of])
     /\ \A p \in ParsedTechniques(Bundles[y.of]) \ y.todo : SavedAs(y.of, p, atlas.techs)
  \/ y.st = "parents" /\ Columned(y.of) /\ AllSaved(y.of)
  \/ y.st = "maps" /\ Columned(y.of) /\ AllSaved(y.of) /\ AllBelow(y.of)
  \/ /\ y.st = "software" /\ Columned(y.of) /\ AllSaved(y.of) /\ AllBelow(y.of)
     /\ MappingsIn(y.of, ParsedTechniques(Bundles[y.of]), atlas.maps)

ReleaseWhole(n) ==
  /\ Columned(n) /\ AllSaved(n) /\ AllBelow(n)
  /\ MappingsIn(n, ParsedTechniques(Bundles[n]), atlas.maps)
  /\ MappingsIn(n, ParsedSoftware(Bundles[n]), atlas.maps)

AtlasFits ==
  /\ atlas = [tactics |-> atlas.tactics, techs |-> atlas.techs, wares |-> atlas.wares,
              maps |-> atlas.maps]
  /\ \A t \in atlas.tactics : /\ t.ver \in ReleaseNumbers
                              /\ \E k \in ColumnsOf(t.ver) : t = ColumnRow(t.ver, k)
  /\ \A t \in atlas.techs :
       t = [number |-> t.number, phases |-> t.phases, deprecated |-> t.deprecated,
            guidance |-> t.guidance, ver |-> t.ver, parent |-> t.parent]

ReleasesSafe ==
  /\ pinned \in ReleaseNumbers /\ AtlasFits
  /\ syncing # NoSync =>
       /\ syncing = [st |-> syncing.st, of |-> syncing.of, todo |-> syncing.todo]
       /\ syncing.of \in ReleaseNumbers /\ landed = 0 /\ StageHolds(syncing)
  /\ landed # 0 => landed \in ReleaseNumbers /\ ReleaseWhole(landed)

\* What the assumption says of one release.
LEMMA ReleaseFits ==
  ASSUME NEW n \in ReleaseNumbers, NEW b, b = Bundles[n]
  PROVE  /\ b.matrices \in Seq(ToSet(b.matrices))
         /\ \A m \in ToSet(b.matrices) : m \in Seq(ToSet(m))
         /\ \A t, u \in b.tactics : t.id = u.id => t = u
         /\ \A p, q \in b.patterns : p.id = q.id => p = q
         /\ \A p, q \in ParsedTechniques(b) : p.number = q.number => p = q
         /\ \A r, u \in ParentLinks(b) : r.from = u.from => r.to = u.to
<1>1. b \in ToSet(Bundles)
  BY BundlesAssumption DEF ReleaseNumbers, ToSet
<1>. QED
  BY <1>1, BundlesAssumption

\* What stands before a place when the larger come first, and equal ones stay.
Ahead(L, size, j) == {k \in 1 .. L : size[k] > size[j] \/ (size[k] = size[j] /\ k < j)}

\* No two have equally many before them: the one ahead has fewer.
LEMMA SizesPlace ==
  ASSUME NEW L \in Nat, NEW size \in [1 .. L -> Nat]
  PROVE  /\ \A j \in 1 .. L : Cardinality(Ahead(L, size, j)) + 1 \in 1 .. L
         /\ \A j \in 1 .. L : Cardinality(Ahead(L, size, j)) \in Nat
         /\ \A i, j \in 1 .. L :
              Cardinality(Ahead(L, size, i)) = Cardinality(Ahead(L, size, j)) => i = j
<1>1. \A j \in 1 .. L : size[j] \in Nat /\ j \in Nat
  OBVIOUS
<1>2. \A j : Ahead(L, size, j) \in SUBSET (1 .. L)
  BY DEF Ahead
<1>3. IsFiniteSet(1 .. L) /\ Cardinality(1 .. L) = L
  <2>1. /\ IsFiniteSet(1 .. L)
        /\ Cardinality(1 .. L) = IF 1 > L THEN 0 ELSE L - 1 + 1
    BY 1 \in Int, L \in Int, FS_Interval
  <2>. QED
    BY <2>1
<1>4. ASSUME NEW j \in 1 .. L
      PROVE  /\ Cardinality(Ahead(L, size, j)) + 1 \in 1 .. L
             /\ Cardinality(Ahead(L, size, j)) \in Nat
  <2>. PICK A \in SUBSET (1 .. L) : A = Ahead(L, size, j)
    BY <1>2
  <2>1. j \notin A
    <3>1. ~(size[j] > size[j]) /\ ~(j < j)
      BY <1>1
    <3>. QED
      BY <3>1 DEF Ahead
  <2>2. IsFiniteSet(A) /\ Cardinality(A) \in Nat
    BY <1>3, FS_Subset, FS_CardinalityType
  <2>. PICK B \in SUBSET (1 .. L) : B = A \cup {j}
    OBVIOUS
  <2>3. Cardinality(B) = Cardinality(A) + 1
    BY <2>1, <2>2, FS_AddElement
  <2>4. Cardinality(B) <= L
    BY <1>3, FS_Subset
  <2>. QED
    BY <2>2, <2>3, <2>4
<1>5. ASSUME NEW i \in 1 .. L, NEW j \in 1 .. L, i \in Ahead(L, size, j),
             Cardinality(Ahead(L, size, i)) = Cardinality(Ahead(L, size, j))
      PROVE  FALSE
  <2>. PICK A \in SUBSET (1 .. L) : A = Ahead(L, size, i)
    BY <1>2
  <2>. PICK B \in SUBSET (1 .. L) : B = Ahead(L, size, j)
    BY <1>2
  <2>1. i \in B /\ i \notin A
    <3>1. ~(size[i] > size[i]) /\ ~(i < i)
      BY <1>1
    <3>. QED
      BY <1>5, <3>1 DEF Ahead
  <2>2. size[i] > size[j] \/ (size[i] = size[j] /\ i < j)
    BY <1>5 DEF Ahead
  <2>3. A \subseteq B
    <3>. SUFFICES ASSUME NEW k \in A PROVE k \in B
      OBVIOUS
    <3>1. k \in 1 .. L /\ (size[k] > size[i] \/ (size[k] = size[i] /\ k < i))
      BY DEF Ahead
    <3>2. size[k] > size[j] \/ (size[k] = size[j] /\ k < j)
      BY <1>1, <2>2, <3>1
    <3>. QED
      BY <3>1, <3>2 DEF Ahead
  <2>4. A = B
    BY <1>3, <1>5, <2>3, FS_Subset
  <2>. QED
    BY <2>1, <2>4
<1>6. ASSUME NEW i \in 1 .. L, NEW j \in 1 .. L, i # j
      PROVE  i \in Ahead(L, size, j) \/ j \in Ahead(L, size, i)
  <2>1. size[i] > size[j] \/ size[j] > size[i] \/ (size[i] = size[j] /\ (i < j \/ j < i))
    BY <1>1, <1>6
  <2>. QED
    BY <2>1 DEF Ahead
<1>. QED
  BY <1>4, <1>5, <1>6

\* A matrix listed has one place when the matrices are sorted by their sizes.
LEMMA MatrixPlaces ==
  ASSUME NEW n \in ReleaseNumbers, NEW b, b = Bundles[n]
  PROVE  /\ Len(b.matrices) \in Nat
         /\ \A j \in 1 .. Len(b.matrices) :
              /\ Cardinality(AheadOf(b, j)) + 1 \in 1 .. Len(b.matrices)
              /\ Cardinality(AheadOf(b, j)) \in Nat
         /\ \A i, j \in 1 .. Len(b.matrices) :
              Cardinality(AheadOf(b, i)) = Cardinality(AheadOf(b, j)) => i = j
<1>. PICK T : T = ToSet(b.matrices)
  OBVIOUS
<1>1. b.matrices \in Seq(T)
  BY ReleaseFits
<1>. PICK L \in Nat : L = Len(b.matrices)
  BY <1>1
<1>. PICK size : size = [j \in 1 .. L |-> Len(b.matrices[j])]
  OBVIOUS
<1>2. size \in [1 .. L -> Nat]
  <2>1. \A j \in 1 .. L : b.matrices[j] \in T
    BY <1>1
  <2>2. \A m \in T : m \in Seq(ToSet(m))
    BY ReleaseFits
  <2>3. \A m \in T : Len(m) \in Nat
    BY <2>2
  <2>. QED
    BY <2>1, <2>3
<1>3. \A j \in 1 .. L : AheadOf(b, j) = Ahead(L, size, j)
  BY DEF AheadOf, Larger, Ahead
<1>4. /\ \A j \in 1 .. L : /\ Cardinality(Ahead(L, size, j)) + 1 \in 1 .. L
                             /\ Cardinality(Ahead(L, size, j)) \in Nat
      /\ \A i, j \in 1 .. L :
           Cardinality(Ahead(L, size, i)) = Cardinality(Ahead(L, size, j)) => i = j
  BY ONLY <1>2, L \in Nat, SizesPlace
<1>5. /\ \A j \in 1 .. L : /\ Cardinality(AheadOf(b, j)) + 1 \in 1 .. L
                             /\ Cardinality(AheadOf(b, j)) \in Nat
      /\ \A i, j \in 1 .. L : Cardinality(AheadOf(b, i)) = Cardinality(AheadOf(b, j)) => i = j
  BY ONLY <1>3, <1>4
<1>. QED
  BY ONLY <1>5, L \in Nat, L = Len(b.matrices)

\* What the sort takes as the k-th.
Sorting(b) == [k \in 1 .. Len(b.matrices) |->
  CHOOSE j \in 1 .. Len(b.matrices) : Cardinality(AheadOf(b, j)) = k - 1]

SortingFits(b) ==
  /\ Sorting(b) \in [1 .. Len(b.matrices) -> 1 .. Len(b.matrices)]
  /\ \A j \in 1 .. Len(b.matrices) : \E k \in 1 .. Len(b.matrices) : Sorting(b)[k] = j

\* Sorting loses no matrix and makes none up.
LEMMA MatricesSorted ==
  ASSUME NEW n \in ReleaseNumbers, NEW b, b = Bundles[n]
  PROVE  SortingFits(b)
<1>. PICK L \in Nat : L = Len(b.matrices)
  BY MatrixPlaces
<1>. PICK place : place = [j \in 1 .. L |-> Cardinality(AheadOf(b, j)) + 1]
  OBVIOUS
<1>. PICK nth : nth = Sorting(b)
  OBVIOUS
<1>0. \A j \in 1 .. L : Cardinality(AheadOf(b, j)) \in Nat
  BY MatrixPlaces
<1>1. \A j \in 1 .. L : place[j] = Cardinality(AheadOf(b, j)) + 1 /\ place[j] \in 1 .. L
  BY MatrixPlaces
<1>2. place \in [1 .. L -> 1 .. L]
  BY <1>1
<1>3. \A i, j \in 1 .. L : place[i] = place[j] => i = j
  <2>1. \A i, j \in 1 .. L : place[i] = place[j] =>
          Cardinality(AheadOf(b, i)) = Cardinality(AheadOf(b, j))
    BY <1>0, <1>1
  <2>. QED
    BY <2>1, MatrixPlaces
<1>4. place \in Surjection(1 .. L, 1 .. L)
  <2>1. place \in Injection(1 .. L, 1 .. L)
    BY ONLY <1>2, <1>3 DEF Injection, IsInjective
  <2>2. IsFiniteSet(1 .. L)
    BY 1 \in Int, L \in Int, FS_Interval
  <2>. QED
    BY <2>1, <2>2, FS_Injection
<1>5. \A k \in 1 .. L : \E j \in 1 .. L : place[j] = k
  BY <1>4 DEF Surjection
<1>6. ASSUME NEW k \in 1 .. L PROVE nth[k] \in 1 .. L /\ place[nth[k]] = k
  <2>1. PICK j \in 1 .. L : place[j] = k
    BY <1>5
  <2>2. Cardinality(AheadOf(b, j)) = k - 1
    BY <1>0, <1>1, <2>1
  <2>3. nth[k] = CHOOSE i \in 1 .. L : Cardinality(AheadOf(b, i)) = k - 1
    BY DEF Sorting
  <2>4. nth[k] \in 1 .. L /\ Cardinality(AheadOf(b, nth[k])) = k - 1
    BY <2>2, <2>3
  <2>. QED
    BY <1>1, <2>4
<1>7. nth \in [1 .. L -> 1 .. L]
  <2>1. nth = [k \in 1 .. L |-> nth[k]]
    BY DEF Sorting
  <2>. QED
    BY <1>6, <2>1
<1>8. \A j \in 1 .. L : nth[place[j]] = j
  <2>. SUFFICES ASSUME NEW j \in 1 .. L PROVE nth[place[j]] = j
    OBVIOUS
  <2>. PICK k \in 1 .. L : k = place[j]
    BY <1>1
  <2>. PICK i \in 1 .. L : i = nth[k] /\ place[i] = k
    BY <1>6
  <2>. QED
    BY <1>3
<1>9. \A j \in 1 .. L : \E k \in 1 .. L : nth[k] = j
  BY <1>1, <1>8
<1>. QED
  BY ONLY <1>7, <1>9, nth = Sorting(b), L = Len(b.matrices) DEF SortingFits

\* The tactics of all matrices, each matrix as a whole.
LEMMA MatricesRead ==
  ASSUME NEW n \in ReleaseNumbers, NEW b, b = Bundles[n]
  PROVE  /\ InMatrices(b) \in Seq(ToSet(InMatrices(b))) /\ Len(InMatrices(b)) \in Nat
         /\ ToSet(InMatrices(b)) = UNION {ToSet(b.matrices[k]) : k \in 1 .. Len(b.matrices)}
<1>. PICK L \in Nat : L = Len(b.matrices)
  BY MatrixPlaces
<1>. PICK nth : nth = Sorting(b)
  OBVIOUS
<1>1. /\ nth \in [1 .. L -> 1 .. L]
      /\ \A j \in 1 .. L : \E k \in 1 .. L : nth[k] = j
  <2>1. SortingFits(b)
    BY MatricesSorted
  <2>. QED
    BY ONLY <2>1, nth = Sorting(b), L = Len(b.matrices) DEF SortingFits
<1>. PICK V : V = UNION {ToSet(b.matrices[k]) : k \in 1 .. L}
  OBVIOUS
<1>. PICK seqs : seqs = [k \in 1 .. L |-> b.matrices[nth[k]]]
  OBVIOUS
<1>2. \A j \in 1 .. L : b.matrices[j] \in Seq(V) /\ ToSet(b.matrices[j]) \subseteq V
  <2>. SUFFICES ASSUME NEW j \in 1 .. L
                PROVE  b.matrices[j] \in Seq(V) /\ ToSet(b.matrices[j]) \subseteq V
    OBVIOUS
  <2>. PICK m, T : m = b.matrices[j] /\ T = ToSet(m)
    OBVIOUS
  <2>1. m \in ToSet(b.matrices)
    BY ReleaseFits DEF ToSet
  <2>2. m \in Seq(T)
    BY <2>1, ReleaseFits
  <2>3. T \subseteq V
    OBVIOUS
  <2>. QED
    BY <2>2, <2>3
<1>3. seqs \in Seq(Seq(V)) /\ Len(seqs) = L
  <2>1. \A k \in 1 .. L : b.matrices[nth[k]] \in Seq(V)
    BY <1>1, <1>2
  <2>. PICK W : W = Seq(V)
    OBVIOUS
  <2>2. seqs \in [1 .. L -> W]
    BY <2>1
  <2>3. seqs \in Seq(W) /\ Len(seqs) = L
    BY ONLY <2>2, L \in Nat, RangeOfSequence
  <2>. QED
    BY <2>3
<1>4. InMatrices(b) = FlattenSeq(seqs)
  <2>1. \A k \in 1 .. Len(b.matrices) :
          nth[k] = CHOOSE j \in 1 .. Len(b.matrices) : Cardinality(AheadOf(b, j)) = k - 1
    BY DEF Sorting
  <2>2. seqs = [k \in 1 .. Len(b.matrices) |->
                  b.matrices[CHOOSE j \in 1 .. Len(b.matrices) :
                               Cardinality(AheadOf(b, j)) = k - 1]]
    BY <2>1
  <2>. QED
    BY <2>2, Zenon DEF InMatrices
<1>5. /\ FlattenSeq(seqs) \in Seq(V)
      /\ ToSet(FlattenSeq(seqs)) = UNION {ToSet(seqs[k]) : k \in 1 .. Len(seqs)}
  <2>1. seqs \in Seq(Seq(V))
    BY <1>3
  <2>. QED
    BY ONLY <2>1, FlattenFits
<1>6. UNION {ToSet(seqs[k]) : k \in 1 .. L} = V
  <2>. PICK U : U = UNION {ToSet(seqs[k]) : k \in 1 .. L}
    OBVIOUS
  <2>1. U \subseteq V
    <3>. SUFFICES ASSUME NEW u \in U PROVE u \in V
      OBVIOUS
    <3>. PICK k \in 1 .. L : u \in ToSet(seqs[k])
      OBVIOUS
    <3>1. nth[k] \in 1 .. L /\ seqs[k] = b.matrices[nth[k]]
      BY <1>1
    <3>. QED
      BY <1>2, <3>1
  <2>2. V \subseteq U
    <3>. SUFFICES ASSUME NEW v \in V PROVE v \in U
      OBVIOUS
    <3>1. PICK j \in 1 .. L : v \in ToSet(b.matrices[j])
      OBVIOUS
    <3>2. PICK k \in 1 .. L : nth[k] = j
      BY <1>1
    <3>3. seqs[k] = b.matrices[j]
      BY <3>2
    <3>. QED
      BY <3>1, <3>3
  <2>. QED
    BY <2>1, <2>2
<1>. PICK ids : ids = FlattenSeq(seqs)
  OBVIOUS
<1>7. ids \in Seq(V) /\ ToSet(ids) = V
  BY <1>3, <1>5, <1>6
<1>8. Len(ids) \in Nat
  BY <1>7
<1>. QED
  BY <1>4, <1>7, <1>8

\* Each tactic that a matrix lists gives its short name.
LEMMA ShortNamesRead ==
  ASSUME NEW n \in ReleaseNumbers, NEW b, b = Bundles[n]
  PROVE  /\ ShortNames(b) \in Seq(ToSet(ShortNames(b))) /\ Len(ShortNames(b)) \in Nat
         /\ \A t \in Titled(b) :
              (\E k \in 1 .. Len(b.matrices) : t.id \in ToSet(b.matrices[k]))
              => t.short \in ToSet(ShortNames(b))
<1>. PICK ids, V : ids = InMatrices(b) /\ V = ToSet(ids)
  OBVIOUS
<1>1. ids \in Seq(V) /\ Len(ids) \in Nat
  BY MatricesRead
<1>0. DOMAIN ids = 1 .. Len(ids)
  BY <1>1
<1>. PICK P : P = {k \in DOMAIN ids : \E t \in Titled(b) : t.id = ids[k]}
  OBVIOUS
<1>9. P \in SUBSET (1 .. Len(ids))
  BY <1>0
<1>. PICK named : named = Picked(ids, P)
  OBVIOUS
<1>2. named \in Seq(V) /\ Elements(named) = PartOf(ids, P)
  BY <1>1, <1>9, PartFits
<1>. PICK c \in Nat : c = Len(named)
  BY ONLY <1>2
<1>. PICK short : short = [k \in 1 .. c |-> (CHOOSE t \in b.tactics : t.id = named[k]).short]
  OBVIOUS
<1>3. ShortNames(b) = short
  BY DEF ShortNames
<1>4. ToSet(short) = {short[k] : k \in 1 .. c}
  BY DEF ToSet
<1>5. short \in Seq(ToSet(short)) /\ Len(short) = c
  <2>. PICK T : T = ToSet(short)
    OBVIOUS
  <2>1. \A k \in 1 .. c : short[k] \in T
    BY ONLY <1>4, T = ToSet(short)
  <2>2. short \in [1 .. c -> T]
    BY <2>1
  <2>3. short \in Seq(T) /\ Len(short) = c
    BY ONLY <2>2, c \in Nat, RangeOfSequence
  <2>. QED
    BY <2>3
<1>6. ASSUME NEW t \in Titled(b), NEW k \in 1 .. Len(b.matrices),
             t.id \in ToSet(b.matrices[k])
      PROVE  t.short \in ToSet(short)
  <2>1. t.id \in V
    <3>1. V = UNION {ToSet(b.matrices[i]) : i \in 1 .. Len(b.matrices)}
      BY MatricesRead
    <3>. QED
      BY <1>6, <3>1
  <2>2. PICK i \in 1 .. Len(ids) : ids[i] = t.id
    <3>1. V = {ids[i] : i \in 1 .. Len(ids)}
      BY <1>0 DEF ToSet
    <3>. QED
      BY ONLY <2>1, <3>1
  <2>3. i \in P
    BY <1>0, <2>2
  <2>4. t.id \in Elements(named)
    BY <1>2, <2>2, <2>3 DEF PartOf
  <2>5. PICK j \in 1 .. c : named[j] = t.id
    <3>1. DOMAIN named = 1 .. c
      BY <1>2
    <3>. QED
      BY <2>4, <3>1 DEF Elements, ToSet
  <2>6. t \in b.tactics
    BY DEF Titled, Numbered
  <2>7. (CHOOSE u \in b.tactics : u.id = named[j]) = t
    BY <2>5, <2>6, ReleaseFits
  <2>8. short[j] = t.short
    BY <2>7
  <2>. QED
    BY <1>4, <2>8
<1>. QED
  BY <1>3, <1>5, <1>6

\* The places where something is for the first time.
Firsts(s) == {k \in DOMAIN s : \A j \in 1 .. k - 1 : s[j] # s[k]}

LEMMA FirstsFit ==
  ASSUME NEW V, NEW s \in Seq(V)
  PROVE  /\ Firsts(s) \in SUBSET (1 .. Len(s))
         /\ \A k, l \in Firsts(s) : s[k] = s[l] => k = l
         /\ \A k \in 1 .. Len(s) : \E l \in Firsts(s) : s[l] = s[k]
<1>. PICK L \in Nat : L = Len(s)
  OBVIOUS
<1>0. DOMAIN s = 1 .. L
  OBVIOUS
<1>1. Firsts(s) \in SUBSET (1 .. L)
  BY <1>0 DEF Firsts
<1>2. ASSUME NEW k \in Firsts(s), NEW l \in Firsts(s), k < l PROVE s[k] # s[l]
  <2>1. k \in 1 .. l - 1
    BY <1>1, <1>2
  <2>. QED
    BY <2>1 DEF Firsts
<1>3. ASSUME NEW k \in 1 .. L PROVE \E l \in Firsts(s) : s[l] = s[k]
  <2>. DEFINE Same == {j \in 1 .. L : s[j] = s[k]}
  <2>1. Same \in SUBSET Nat /\ Same # {}
    OBVIOUS
  <2>2. PICK l \in Same : \A j \in Same : l <= j
    <3>. HIDE DEF Same
    <3>. QED
      BY <2>1, LeastOfNaturals
  <2>3. l \in 1 .. L /\ s[l] = s[k]
    OBVIOUS
  <2>4. ASSUME NEW j \in 1 .. l - 1 PROVE s[j] # s[l]
    <3>1. j \in 1 .. L /\ ~(l <= j)
      BY <2>3
    <3>. QED
      BY <2>2, <2>3, <3>1
  <2>. QED
    BY <1>0, <2>3, <2>4 DEF Firsts
<1>4. \A k, l \in Firsts(s) : k < l \/ l < k \/ k = l
  BY <1>1
<1>. QED
  BY <1>1, <1>2, <1>3, <1>4

\* A column for every tactic listed, no two of one name.
LEMMA ColumnsFit ==
  ASSUME NEW n \in ReleaseNumbers, NEW b, b = Bundles[n]
  PROVE  /\ Len(TacticOrder(b)) \in Nat
         /\ \A j, k \in 1 .. Len(TacticOrder(b)) :
              TacticOrder(b)[j] = TacticOrder(b)[k] => j = k
         /\ \A t \in Titled(b) :
              (\E k \in 1 .. Len(b.matrices) : t.id \in ToSet(b.matrices[k]))
              => \E k \in 1 .. Len(TacticOrder(b)) : TacticOrder(b)[k] = t.short
<1>. PICK s, V : s = ShortNames(b) /\ V = ToSet(s)
  OBVIOUS
<1>1. s \in Seq(V) /\ Len(s) \in Nat
  BY ShortNamesRead
<1>. PICK P \in SUBSET (1 .. Len(s)) : P = Firsts(s)
  BY <1>1, FirstsFit
<1>. PICK c \in Nat : c = Cardinality(P)
  BY <1>1, PlacesFinite
<1>. PICK order : order = Picked(s, P)
  OBVIOUS
<1>2. TacticOrder(b) = order
  BY DEF TacticOrder, Firsts
<1>3. /\ order \in Seq(V) /\ Len(order) = c /\ Elements(order) = PartOf(s, P)
      /\ \A k \in 1 .. c : Nth(P, k) \in P /\ order[k] = s[Nth(P, k)]
  BY <1>1, PartFits
<1>4. ASSUME NEW j \in 1 .. c, NEW k \in 1 .. c, j < k PROVE order[j] # order[k]
  <2>1. Nth(P, j) < Nth(P, k)
    BY <1>1, <1>4, NthOrder
  <2>2. Nth(P, j) \in P /\ Nth(P, k) \in P
    BY <1>3
  <2>3. Nth(P, j) # Nth(P, k)
    BY <2>1, <2>2
  <2>4. \A k1, l1 \in P : s[k1] = s[l1] => k1 = l1
    BY <1>1, FirstsFit
  <2>. QED
    BY <1>3, <2>2, <2>3, <2>4
<1>5. \A j, k \in 1 .. c : j < k \/ k < j \/ j = k
  OBVIOUS
<1>6. ASSUME NEW t \in Titled(b), NEW m \in 1 .. Len(b.matrices),
             t.id \in ToSet(b.matrices[m])
      PROVE  \E k \in 1 .. c : order[k] = t.short
  <2>1. t.short \in V
    BY <1>6, ShortNamesRead
  <2>2. PICK i \in 1 .. Len(s) : s[i] = t.short
    BY <1>1, <2>1 DEF ToSet
  <2>3. PICK l \in P : s[l] = t.short
    BY <1>1, <2>2, FirstsFit
  <2>4. PICK k \in 1 .. c : Nth(P, k) = l
    <3>. PICK L \in Nat : L = Len(s)
      BY <1>1
    <3>1. P \in SUBSET (1 .. L)
      OBVIOUS
    <3>2. \A j \in P : \E k \in 1 .. Cardinality(P) : Nth(P, k) = j
      BY ONLY <3>1, L \in Nat, NthOrder
    <3>. QED
      BY <3>2
  <2>. QED
    BY <1>3, <2>3, <2>4
<1>7. \A j, k \in 1 .. c : order[j] = order[k] => j = k
  BY <1>4, <1>5
<1>. QED
  BY ONLY <1>2, <1>3, <1>6, <1>7, c \in Nat

LEMMA ReleasesInitSafe == ReleasesInit => ReleasesSafe
<1>. SUFFICES ASSUME ReleasesInit PROVE ReleasesSafe
  OBVIOUS
<1>1. pinned \in ReleaseNumbers
  <2>1. Len(Bundles) \in Nat /\ Len(Bundles) # 0
    BY BundlesAssumption
  <2>. QED
    BY <2>1 DEF ReleasesInit, ReleaseNumbers
<1>2. AtlasFits
  BY DEF ReleasesInit, AtlasFits
<1>. QED
  BY <1>1, <1>2 DEF ReleasesInit, ReleasesSafe

\* What a step in a sync starts from.
LEMMA SyncRead ==
  ASSUME ReleasesSafe, syncing.st # "none"
  PROVE  /\ syncing = [st |-> syncing.st, of |-> syncing.of, todo |-> syncing.todo]
         /\ syncing.of \in ReleaseNumbers /\ landed = 0 /\ StageHolds(syncing)
         /\ AtlasFits /\ pinned \in ReleaseNumbers /\ Bundle = Bundles[syncing.of]
BY DEF ReleasesSafe, NoSync, Bundle

LEMMA BeginSafe == ASSUME ReleasesSafe, BeginRelease PROVE ReleasesSafe'
<1>. PICK y : y = [st |-> "tactics", of |-> pinned, todo |-> ColumnsOf(pinned)]
  OBVIOUS
<1>1. syncing' = y /\ landed' = 0 /\ pinned' = pinned /\ atlas' = atlas
  BY DEF BeginRelease, ColumnsOf
<1>2. pinned \in ReleaseNumbers /\ AtlasFits'
  BY <1>1 DEF ReleasesSafe, AtlasFits
<1>3. StageHolds(y)'
  BY DEF StageHolds
<1>. QED
  BY <1>1, <1>2, <1>3 DEF ReleasesSafe

\* The stage that follows, when the last of a pass is done.
TurnsTo(y, z, st, x, next, todo) ==
  z = IF y.todo = {x} THEN [st |-> next, of |-> y.of, todo |-> todo]
      ELSE [st |-> st, of |-> y.of, todo |-> y.todo \ {x}]

LEMMA TurnsFit ==
  ASSUME ReleasesSafe, syncing.st # "none", NEW st, NEW x, NEW next, NEW todo,
         Turns(st, x, next, todo)
  PROVE  TurnsTo(syncing, syncing', st, x, next, todo)
<1>. PICK y : y = syncing
  OBVIOUS
<1>1. y = [st |-> y.st, of |-> y.of, todo |-> y.todo]
  BY SyncRead
<1>2. CASE y.todo = {x}
  <2>1. syncing' = [y EXCEPT !.st = next, !.todo = todo]
    BY <1>2 DEF Turns, Proceed
  <2>2. syncing' = [st |-> next, of |-> y.of, todo |-> todo]
    BY <1>1, <2>1
  <2>. QED
    BY <1>2, <2>2 DEF TurnsTo
<1>3. CASE y.todo # {x}
  <2>1. syncing' = [y EXCEPT !.st = st, !.todo = y.todo \ {x}]
    BY <1>3 DEF Turns, Proceed
  <2>2. syncing' = [st |-> st, of |-> y.of, todo |-> y.todo \ {x}]
    BY <1>1, <2>1
  <2>. QED
    BY <1>3, <2>2 DEF TurnsTo
<1>. QED
  BY <1>2, <1>3

\* A column written leaves the others, whose names are others.
LEMMA SaveTacticSafe ==
  ASSUME ReleasesSafe, NEW k, SaveTactic(k)
  PROVE  ReleasesSafe'
<1>. PICK y, n, b : y = syncing /\ n = y.of /\ b = Bundles[n]
  OBVIOUS
<1>1. y.st = "tactics" /\ k \in y.todo
  BY DEF SaveTactic
<1>2. n \in ReleaseNumbers /\ landed = 0 /\ StageHolds(y) /\ AtlasFits /\ Bundle = b
  BY <1>1, SyncRead
<1>3. /\ y.todo \subseteq ColumnsOf(n)
      /\ \A j \in ColumnsOf(n) \ y.todo : ColumnRow(n, j) \in atlas.tactics
  BY <1>1, <1>2 DEF StageHolds
<1>. PICK row : row = ColumnRow(n, k)
  OBVIOUS
<1>. PICK old, new : old = atlas.tactics /\ new = {t \in old : t.short # row.short} \cup {row}
  OBVIOUS
<1>4. /\ atlas' = [tactics |-> new, techs |-> atlas.techs, wares |-> atlas.wares,
                   maps |-> atlas.maps]
      /\ landed' = 0 /\ pinned' = pinned
  <2>1. /\ atlas' = [atlas EXCEPT !.tactics = {t \in @ : t.short # row.short} \cup {row}]
        /\ landed' = landed /\ pinned' = pinned
    BY <1>2 DEF SaveTactic, Left, ColumnRow
  <2>2. atlas = [tactics |-> old, techs |-> atlas.techs, wares |-> atlas.wares,
                 maps |-> atlas.maps]
    BY <1>2 DEF AtlasFits
  <2>. QED
    BY <1>2, <2>1, <2>2
<1>5. k \in ColumnsOf(n) /\ row.short = TacticOrder(b)[k] /\ row.ver = n
  BY <1>1, <1>3 DEF ColumnRow
<1>6. AtlasFits'
  <2>1. \A t \in new : /\ t.ver \in ReleaseNumbers
                       /\ \E j \in ColumnsOf(t.ver) : t = ColumnRow(t.ver, j)
    BY <1>2, <1>5 DEF AtlasFits
  <2>. QED
    BY <1>2, <1>4, <2>1 DEF AtlasFits
<1>7. \A j \in ColumnsOf(n) \ (y.todo \ {k}) : ColumnRow(n, j) \in new
  <2>. SUFFICES ASSUME NEW j \in ColumnsOf(n) \ (y.todo \ {k}), j # k
                PROVE  ColumnRow(n, j) \in new
    OBVIOUS
  <2>1. ColumnRow(n, j) \in old
    BY <1>3
  <2>2. TacticOrder(b)[j] # TacticOrder(b)[k]
    BY <1>2, <1>5, ColumnsFit DEF ColumnsOf
  <2>3. ColumnRow(n, j).short # row.short
    BY <1>5, <2>2 DEF ColumnRow
  <2>. QED
    BY <2>1, <2>3
<1>8. TurnsTo(y, syncing', "tactics", k, "techniques", ParsedTechniques(b))
  BY <1>1, <1>2, TurnsFit DEF SaveTactic
<1>. PICK z : z = syncing'
  OBVIOUS
<1>9. z = [st |-> z.st, of |-> n, todo |-> z.todo] /\ StageHolds(z)'
  <2>1. CASE y.todo = {k}
    <3>1. z = [st |-> "techniques", of |-> n, todo |-> ParsedTechniques(b)]
      BY <1>8, <2>1 DEF TurnsTo
    <3>2. \A j \in ColumnsOf(n) : ColumnRow(n, j) \in new
      BY <1>7, <2>1
    <3>3. Columned(n)'
      BY <1>4, <3>2 DEF Columned
    <3>. QED
      BY <3>1, <3>3 DEF StageHolds
  <2>2. CASE y.todo # {k}
    <3>1. z = [st |-> "tactics", of |-> n, todo |-> y.todo \ {k}]
      BY <1>8, <2>2 DEF TurnsTo
    <3>. QED
      BY <1>3, <1>4, <1>7, <3>1 DEF StageHolds
  <2>. QED
    BY <2>1, <2>2
<1>. QED
  BY <1>2, <1>4, <1>6, <1>9 DEF ReleasesSafe

\* A technique saved has its one row, and so have those saved before it.
LEMMA SaveReleaseSafe ==
  ASSUME ReleasesSafe, NEW p, SaveRelease(p)
  PROVE  ReleasesSafe'
<1>. PICK y, n, b : y = syncing /\ n = y.of /\ b = Bundles[n]
  OBVIOUS
<1>1. y.st = "techniques" /\ p \in y.todo
  BY DEF SaveRelease
<1>2. n \in ReleaseNumbers /\ landed = 0 /\ StageHolds(y) /\ AtlasFits /\ Bundle = b
  BY <1>1, SyncRead
<1>3. /\ y.todo \subseteq ParsedTechniques(b) /\ Columned(n)
      /\ \A q \in ParsedTechniques(b) \ y.todo : SavedAs(n, q, atlas.techs)
  BY <1>1, <1>2 DEF StageHolds
<1>. PICK old, before : old = atlas.techs /\ before = {t \in old : t.number = p.number}
  OBVIOUS
<1>. PICK row : row =
       [number |-> p.number, phases |-> p.phases, deprecated |-> p.deprecated,
        guidance |-> Guidance(b, p.id), ver |-> n,
        parent |-> IF before = {} THEN NoNumber ELSE (CHOOSE t \in before : TRUE).parent]
  OBVIOUS
<1>. PICK new : new = (old \ before) \cup {row}
  OBVIOUS
<1>4. /\ atlas' = [tactics |-> atlas.tactics, techs |-> new, wares |-> atlas.wares,
                   maps |-> atlas.maps]
      /\ landed' = 0 /\ pinned' = pinned
  <2>1. /\ atlas' = [atlas EXCEPT !.techs = (@ \ before) \cup {row}]
        /\ landed' = landed /\ pinned' = pinned
    BY <1>2 DEF SaveRelease, Left
  <2>2. atlas = [tactics |-> atlas.tactics, techs |-> old, wares |-> atlas.wares,
                 maps |-> atlas.maps]
    BY <1>2 DEF AtlasFits
  <2>. QED
    BY <1>2, <2>1, <2>2
<1>5. AtlasFits' /\ Columned(n)'
  <2>1. \A t \in new :
          t = [number |-> t.number, phases |-> t.phases, deprecated |-> t.deprecated,
               guidance |-> t.guidance, ver |-> t.ver, parent |-> t.parent]
    BY <1>2 DEF AtlasFits
  <2>. QED
    BY <1>2, <1>3, <1>4, <2>1 DEF AtlasFits, Columned
<1>6. SavedAs(n, p, new)
  <2>1. {s \in new : s.number = p.number} = {row} /\ row \in new
    OBVIOUS
  <2>2. /\ row.ver = n /\ row.phases = p.phases /\ row.deprecated = p.deprecated
        /\ row.guidance = Guidance(Bundles[n], p.id)
    OBVIOUS
  <2>. QED
    BY <2>1, <2>2 DEF SavedAs
<1>7. ASSUME NEW q \in ParsedTechniques(b) \ (y.todo \ {p}) PROVE SavedAs(n, q, new)
  <2>1. CASE q = p
    BY <1>6, <2>1
  <2>2. CASE q # p
    <3>1. SavedAs(n, q, old) /\ q \in ParsedTechniques(b)
      BY <1>3, <2>2
    <3>2. q.number # p.number
      BY <1>1, <1>2, <1>3, <2>2, <3>1, ReleaseFits
    <3>3. {s \in new : s.number = q.number} = {s \in old : s.number = q.number}
      BY <3>2
    <3>4. \A t \in old : {s \in old : s.number = q.number} = {t} => t \in new
      BY <3>3
    <3>. QED
      BY <3>1, <3>3, <3>4 DEF SavedAs
  <2>. QED
    BY <2>1, <2>2
<1>. PICK all : all = {"all"}
  OBVIOUS
<1>8. TurnsTo(y, syncing', "techniques", p, "parents", all)
  BY <1>1, TurnsFit DEF SaveRelease
<1>. PICK z : z = syncing'
  OBVIOUS
<1>9. z = [st |-> z.st, of |-> n, todo |-> z.todo] /\ StageHolds(z)'
  <2>1. CASE y.todo = {p}
    <3>1. z = [st |-> "parents", of |-> n, todo |-> all]
      BY <1>8, <2>1 DEF TurnsTo
    <3>2. AllSaved(n)'
      BY <1>4, <1>7, <2>1 DEF AllSaved
    <3>. QED
      BY <1>5, <3>1, <3>2 DEF StageHolds
  <2>2. CASE y.todo # {p}
    <3>1. z = [st |-> "techniques", of |-> n, todo |-> y.todo \ {p}]
      BY <1>8, <2>2 DEF TurnsTo
    <3>. QED
      BY <1>3, <1>4, <1>5, <1>7, <3>1 DEF StageHolds
  <2>. QED
    BY <2>1, <2>2
<1>. QED
  BY <1>2, <1>4, <1>5, <1>9 DEF ReleasesSafe

\* The parent in the bundle is the parent given.
LEMMA ParentRead ==
  ASSUME ReleasesSafe, syncing.st = "parents", NEW n, n = syncing.of,
         NEW r \in ParentLinks(Bundles[n]), NEW p \in ParsedTechniques(Bundles[n]),
         NEW q \in ParsedTechniques(Bundles[n]), r.from = p.id, r.to = q.id,
         NEW t \in atlas.techs, t.number = p.number
  PROVE  ParentFor(t) = q.number
<1>. PICK b : b = Bundles[n]
  OBVIOUS
<1>1. n \in ReleaseNumbers /\ StageHolds(syncing) /\ Bundle = b
  BY SyncRead
<1>2. AllSaved(n)
  BY <1>1 DEF StageHolds
<1>3. p \in ParsedTechniques(b) /\ q \in ParsedTechniques(b) /\ r \in ParentLinks(b)
  OBVIOUS
<1>. PICK of : of = {u \in ParsedTechniques(b) : u.number = t.number}
  OBVIOUS
<1>4. of = {p}
  BY <1>1, <1>3, ReleaseFits
<1>5. of # {} /\ (CHOOSE u \in of : TRUE) = p
  BY <1>4
<1>6. ParentNumber(b, p.id) = q.number
  <2>. PICK above : above = {u \in Numbered(b.patterns) :
                               \E l \in ParentLinks(b) : l.from = p.id /\ l.to = u.id}
    OBVIOUS
  <2>1. q \in Numbered(b.patterns)
    BY <1>3 DEF ParsedTechniques
  <2>2. \A u \in above : u = q
    <3>. SUFFICES ASSUME NEW u \in above PROVE u = q
      OBVIOUS
    <3>1. PICK l \in ParentLinks(b) : l.from = p.id /\ l.to = u.id
      OBVIOUS
    <3>2. l.to = r.to
      BY <1>1, <1>3, <3>1, ReleaseFits
    <3>3. u \in b.patterns /\ q \in b.patterns /\ u.id = q.id
      BY <2>1, <3>1, <3>2 DEF Numbered
    <3>. QED
      BY <1>1, <3>3, ReleaseFits
  <2>3. above # {} /\ (CHOOSE u \in above : TRUE) = q
    BY <1>3, <2>1, <2>2
  <2>. QED
    BY <2>3 DEF ParentNumber
<1>7. \E s \in atlas.techs : s.number = q.number
  BY <1>2, <1>3 DEF AllSaved, SavedAs
<1>. QED
  BY <1>1, <1>5, <1>6, <1>7 DEF ParentFor

\* A row under another parent.
LEMMA RowMoved ==
  ASSUME NEW g, NEW t,
         t = [number |-> t.number, phases |-> t.phases, deprecated |-> t.deprecated,
              guidance |-> t.guidance, ver |-> t.ver, parent |-> t.parent]
  PROVE  [t EXCEPT !.parent = g] =
           [number |-> t.number, phases |-> t.phases, deprecated |-> t.deprecated,
            guidance |-> t.guidance, ver |-> t.ver, parent |-> g]
<1>1. \A a, b, c, d, e, f :
        [[number |-> a, phases |-> b, deprecated |-> c, guidance |-> d, ver |-> e, parent |-> f]
           EXCEPT !.parent = g] =
        [number |-> a, phases |-> b, deprecated |-> c, guidance |-> d, ver |-> e, parent |-> g]
  OBVIOUS
<1>. PICK a, b, c, d, e, f :
       a = t.number /\ b = t.phases /\ c = t.deprecated /\ d = t.guidance /\ e = t.ver /\ f = t.parent
  OBVIOUS
<1>2. t = [number |-> a, phases |-> b, deprecated |-> c, guidance |-> d, ver |-> e, parent |-> f]
  OBVIOUS
<1>3. [t EXCEPT !.parent = g] =
        [number |-> a, phases |-> b, deprecated |-> c, guidance |-> d, ver |-> e, parent |-> g]
  BY ONLY <1>1, <1>2
<1>. QED
  BY <1>3

LEMMA SaveParentsSafe == ASSUME ReleasesSafe, SaveParents PROVE ReleasesSafe'
<1>. PICK y, n, b : y = syncing /\ n = y.of /\ b = Bundles[n]
  OBVIOUS
<1>1. y.st = "parents"
  BY DEF SaveParents
<1>2. /\ n \in ReleaseNumbers /\ landed = 0 /\ StageHolds(y) /\ AtlasFits
      /\ y = [st |-> y.st, of |-> y.of, todo |-> y.todo]
  BY <1>1, SyncRead
<1>3. Columned(n) /\ AllSaved(n)
  BY <1>1, <1>2 DEF StageHolds
<1>. PICK old : old = atlas.techs
  OBVIOUS
<1>. PICK moved : moved = [t \in old |->
       [number |-> t.number, phases |-> t.phases, deprecated |-> t.deprecated,
        guidance |-> t.guidance, ver |-> t.ver, parent |-> ParentFor(t)]]
  OBVIOUS
<1>. PICK new : new = {moved[t] : t \in old}
  OBVIOUS
<1>4. /\ atlas' = [tactics |-> atlas.tactics, techs |-> new, wares |-> atlas.wares,
                   maps |-> atlas.maps]
      /\ landed' = 0 /\ pinned' = pinned
  <2>1. ASSUME NEW t \in old PROVE [t EXCEPT !.parent = ParentFor(t)] = moved[t]
    <3>1. t = [number |-> t.number, phases |-> t.phases, deprecated |-> t.deprecated,
               guidance |-> t.guidance, ver |-> t.ver, parent |-> t.parent]
      BY <1>2 DEF AtlasFits
    <3>. PICK up : up = ParentFor(t)
      OBVIOUS
    <3>2. [t EXCEPT !.parent = up] =
            [number |-> t.number, phases |-> t.phases, deprecated |-> t.deprecated,
             guidance |-> t.guidance, ver |-> t.ver, parent |-> up]
      BY ONLY <3>1, RowMoved
    <3>. QED
      BY <3>2
  <2>2. {[t EXCEPT !.parent = ParentFor(t)] : t \in old} = new
    <3>1. \A t \in old : [t EXCEPT !.parent = ParentFor(t)] = moved[t]
      BY <2>1
    <3>. QED
      BY ONLY <3>1, new = {moved[t] : t \in old}
  <2>3. /\ atlas' = [atlas EXCEPT !.techs = new]
        /\ landed' = landed /\ pinned' = pinned
    BY <2>2 DEF SaveParents, Left
  <2>4. atlas = [tactics |-> atlas.tactics, techs |-> old, wares |-> atlas.wares,
                 maps |-> atlas.maps]
    BY <1>2 DEF AtlasFits
  <2>. QED
    BY <1>2, <2>3, <2>4
<1>5. \A t \in old : /\ moved[t] \in new /\ moved[t].number = t.number
                     /\ moved[t].ver = t.ver /\ moved[t].phases = t.phases
                     /\ moved[t].deprecated = t.deprecated /\ moved[t].guidance = t.guidance
                     /\ moved[t].parent = ParentFor(t)
  OBVIOUS
<1>6. AtlasFits' /\ Columned(n)'
  <2>1. \A t \in new :
          t = [number |-> t.number, phases |-> t.phases, deprecated |-> t.deprecated,
               guidance |-> t.guidance, ver |-> t.ver, parent |-> t.parent]
    OBVIOUS
  <2>. QED
    BY <1>2, <1>3, <1>4, <2>1 DEF AtlasFits, Columned
<1>7. ASSUME NEW p \in ParsedTechniques(b) PROVE SavedAs(n, p, new)
  <2>1. PICK t \in old :
          /\ {s \in old : s.number = p.number} = {t}
          /\ t.ver = n /\ t.phases = p.phases /\ t.deprecated = p.deprecated
          /\ t.guidance = Guidance(b, p.id)
    BY <1>3 DEF AllSaved, SavedAs
  <2>2. t.number = p.number /\ \A s \in old : s.number = p.number => s = t
    BY <2>1
  <2>3. {s \in new : s.number = p.number} = {moved[t]}
    <3>1. moved[t] \in new /\ moved[t].number = p.number
      BY <1>5, <2>2
    <3>2. ASSUME NEW s \in new, s.number = p.number PROVE s = moved[t]
      <4>. PICK u \in old : s = moved[u]
        OBVIOUS
      <4>1. u.number = p.number
        BY <1>5, <3>2
      <4>. QED
        BY <2>2, <4>1
    <3>. QED
      BY <3>1, <3>2
  <2>. QED
    BY <1>5, <2>1, <2>3 DEF SavedAs
<1>8. ASSUME NEW p \in ParsedTechniques(b) PROVE BelowParent(n, p, new)
  <2>1. ASSUME NEW r \in ParentLinks(Bundles[n]), NEW q \in ParsedTechniques(Bundles[n]),
               r.from = p.id, r.to = q.id, NEW s \in new, s.number = p.number
        PROVE  s.parent = q.number
    <3>. PICK t \in old : s = moved[t]
      OBVIOUS
    <3>1. t.number = p.number /\ s.parent = ParentFor(t)
      BY <1>5, <2>1
    <3>2. ParentFor(t) = q.number
      BY <1>1, <2>1, <3>1, ParentRead
    <3>. QED
      BY <3>1, <3>2
  <2>. QED
    BY ONLY <2>1 DEF BelowParent
<1>. PICK all : all = {"all"}
  OBVIOUS
<1>9. syncing' = [st |-> "maps", of |-> n, todo |-> all]
  <2>1. syncing' = [y EXCEPT !.st = "maps", !.todo = all]
    BY DEF SaveParents, Proceed
  <2>. QED
    BY <1>2, <2>1
<1>10. AllSaved(n)' /\ AllBelow(n)'
  BY <1>4, <1>7, <1>8 DEF AllSaved, AllBelow
<1>. PICK z : z = syncing'
  OBVIOUS
<1>11. StageHolds(z)' /\ z.of = n /\ z = [st |-> z.st, of |-> z.of, todo |-> z.todo]
  BY <1>6, <1>9, <1>10 DEF StageHolds
<1>. QED
  BY <1>2, <1>4, <1>6, <1>9, <1>11 DEF ReleasesSafe

LEMMA SaveMappingsSafe == ASSUME ReleasesSafe, SaveMappings PROVE ReleasesSafe'
<1>. PICK y, n, b : y = syncing /\ n = y.of /\ b = Bundles[n]
  OBVIOUS
<1>1. y.st = "maps"
  BY DEF SaveMappings
<1>2. /\ n \in ReleaseNumbers /\ landed = 0 /\ StageHolds(y) /\ AtlasFits /\ Bundle = b
      /\ y = [st |-> y.st, of |-> y.of, todo |-> y.todo]
  BY <1>1, SyncRead
<1>3. Columned(n) /\ AllSaved(n) /\ AllBelow(n)
  BY <1>1, <1>2 DEF StageHolds
<1>. PICK new : new = atlas.maps \cup
                        {m \in MappingsTo(b, ParsedTechniques(b)) : m[1] \in Followed}
  OBVIOUS
<1>4. /\ atlas' = [tactics |-> atlas.tactics, techs |-> atlas.techs, wares |-> atlas.wares,
                   maps |-> new]
      /\ landed' = 0 /\ pinned' = pinned
  <2>1. /\ atlas' = [atlas EXCEPT !.maps = new]
        /\ landed' = landed /\ pinned' = pinned
    BY <1>2 DEF SaveMappings, Left
  <2>2. atlas = [tactics |-> atlas.tactics, techs |-> atlas.techs, wares |-> atlas.wares,
                 maps |-> atlas.maps]
    BY <1>2 DEF AtlasFits
  <2>. QED
    BY <1>2, <2>1, <2>2
<1>5. AtlasFits' /\ Columned(n)' /\ AllSaved(n)' /\ AllBelow(n)'
  BY <1>2, <1>3, <1>4 DEF AtlasFits, Columned, AllSaved, AllBelow
<1>6. MappingsIn(n, ParsedTechniques(b), new)
  BY DEF MappingsIn
<1>. PICK all : all = {"all"}
  OBVIOUS
<1>7. syncing' = [st |-> "software", of |-> n, todo |-> all]
  <2>1. syncing' = [y EXCEPT !.st = "software", !.todo = all]
    BY DEF SaveMappings, Proceed
  <2>. QED
    BY <1>2, <2>1
<1>. PICK z : z = syncing'
  OBVIOUS
<1>8. StageHolds(z)' /\ z.of = n /\ z = [st |-> z.st, of |-> z.of, todo |-> z.todo]
  BY <1>4, <1>5, <1>6, <1>7 DEF StageHolds
<1>. QED
  BY <1>2, <1>4, <1>5, <1>7, <1>8 DEF ReleasesSafe

LEMMA SaveWaresSafe == ASSUME ReleasesSafe, SaveWares PROVE ReleasesSafe'
<1>. PICK y, n, b : y = syncing /\ n = y.of /\ b = Bundles[n]
  OBVIOUS
<1>1. y.st = "software"
  BY DEF SaveWares
<1>2. n \in ReleaseNumbers /\ StageHolds(y) /\ AtlasFits /\ Bundle = b /\ pinned \in ReleaseNumbers
  BY <1>1, SyncRead
<1>3. /\ Columned(n) /\ AllSaved(n) /\ AllBelow(n)
      /\ MappingsIn(n, ParsedTechniques(b), atlas.maps)
  BY <1>1, <1>2 DEF StageHolds
<1>. PICK new, shipped :
       /\ new = atlas.maps \cup {m \in MappingsTo(b, ParsedSoftware(b)) : m[1] \in Followed}
       /\ shipped = atlas.wares \cup
                      {[kind |-> s.kind, number |-> s.number] : s \in ParsedSoftware(b)}
  OBVIOUS
<1>4. /\ atlas' = [tactics |-> atlas.tactics, techs |-> atlas.techs, wares |-> shipped,
                   maps |-> new]
      /\ landed' = n /\ pinned' = pinned /\ syncing' = NoSync
  <2>1. /\ atlas' = [atlas EXCEPT !.wares = shipped, !.maps = new]
        /\ landed' = n /\ pinned' = pinned /\ syncing' = NoSync
    BY <1>2 DEF SaveWares
  <2>2. atlas = [tactics |-> atlas.tactics, techs |-> atlas.techs, wares |-> atlas.wares,
                 maps |-> atlas.maps]
    BY <1>2 DEF AtlasFits
  <2>. QED
    BY <2>1, <2>2
<1>5. AtlasFits' /\ Columned(n)' /\ AllSaved(n)' /\ AllBelow(n)'
  BY <1>2, <1>3, <1>4 DEF AtlasFits, Columned, AllSaved, AllBelow
<1>6. MappingsIn(n, ParsedTechniques(b), new) /\ MappingsIn(n, ParsedSoftware(b), new)
  BY <1>3 DEF MappingsIn
<1>7. ReleaseWhole(n)'
  BY <1>4, <1>5, <1>6 DEF ReleaseWhole
<1>. QED
  BY <1>2, <1>4, <1>5, <1>7 DEF ReleasesSafe

LEMMA ReleasesStepSafe ==
  ASSUME ReleasesSafe, [ReleasesNext]_releaseVars
  PROVE  ReleasesSafe'
<1>1. CASE UNCHANGED atlas /\ landed' = landed /\ syncing' = NoSync /\ pinned' \in ReleaseNumbers
  <2>1. AtlasFits' /\ \A n : ReleaseWhole(n) => ReleaseWhole(n)'
    BY <1>1 DEF ReleasesSafe, AtlasFits, ReleaseWhole, Columned, AllSaved, AllBelow
  <2>. QED
    BY <1>1, <2>1 DEF ReleasesSafe
<1>2. CASE Upgrade
  <2>1. pinned' \in ReleaseNumbers
    <3>1. pinned \in ReleaseNumbers /\ pinned < Len(Bundles) /\ pinned' = pinned + 1
      BY <1>2 DEF Upgrade, ReleasesSafe
    <3>2. Len(Bundles) \in Nat
      BY BundlesAssumption
    <3>. QED
      BY <3>1, <3>2 DEF ReleaseNumbers
  <2>. QED
    BY <1>1, <1>2, <2>1 DEF Upgrade
<1>3. CASE ReleaseDies
  BY <1>1, <1>3 DEF ReleaseDies, ReleasesSafe
<1>4. CASE UNCHANGED releaseVars
  <2>1. UNCHANGED <<pinned, atlas, syncing, landed>>
    BY <1>4 DEF releaseVars
  <2>2. AtlasFits' /\ (\A n : ReleaseWhole(n) => ReleaseWhole(n)')
    BY <2>1 DEF ReleasesSafe, AtlasFits, ReleaseWhole, Columned, AllSaved, AllBelow
  <2>3. StageHolds(syncing) => StageHolds(syncing)'
    BY <2>1 DEF StageHolds, Columned, AllSaved, AllBelow
  <2>. QED
    BY <2>1, <2>2, <2>3 DEF ReleasesSafe
<1>. QED
  BY <1>2, <1>3, <1>4, BeginSafe, SaveTacticSafe, SaveReleaseSafe, SaveParentsSafe,
     SaveMappingsSafe, SaveWaresSafe DEF ReleasesNext

\* The columns of a release that has landed are its tactics in their order.
LEMMA ColumnsInOrder ==
  ASSUME AtlasFits, NEW n \in ReleaseNumbers, Columned(n),
         NEW columns, columns = {t \in atlas.tactics : t.ver = n}
  PROVE  {c.order : c \in columns} = 0 .. Cardinality(columns) - 1
<1>. PICK b : b = Bundles[n]
  OBVIOUS
<1>. PICK L \in Nat : L = Len(TacticOrder(b))
  BY ColumnsFit
<1>. PICK f : f = [k \in 1 .. L |-> ColumnRow(n, k)]
  OBVIOUS
<1>1. \A k \in 1 .. L : f[k] = ColumnRow(n, k) /\ f[k].order = k - 1 /\ f[k] \in columns
  BY DEF Columned, ColumnsOf, ColumnRow
<1>2. \A c \in columns : \E k \in 1 .. L : f[k] = c
  BY <1>1 DEF AtlasFits, ColumnsOf
<1>3. f \in [1 .. L -> columns]
  BY <1>1
<1>4. f \in Surjection(1 .. L, columns)
  BY <1>2, <1>3 DEF Surjection
<1>5. f \in Injection(1 .. L, columns)
  <2>1. \A j, k \in 1 .. L : f[j] = f[k] => j = k
    BY <1>1
  <2>. QED
    BY <1>3, <2>1 DEF Injection, IsInjective
<1>6. IsFiniteSet(1 .. L) /\ Cardinality(1 .. L) = L
  <2>1. /\ IsFiniteSet(1 .. L)
        /\ Cardinality(1 .. L) = IF 1 > L THEN 0 ELSE L - 1 + 1
    BY 1 \in Int, L \in Int, FS_Interval
  <2>. QED
    BY <2>1
<1>7. Cardinality(columns) = L
  BY <1>4, <1>5, <1>6, FS_Surjection
<1>8. \A i \in 0 .. L - 1 : i + 1 \in 1 .. L /\ f[i + 1].order = i
  BY <1>1
<1>9. {c.order : c \in columns} = 0 .. L - 1
  <2>1. ASSUME NEW c \in columns PROVE c.order \in 0 .. L - 1
    <3>. PICK k \in 1 .. L : f[k] = c
      BY <1>2
    <3>. QED
      BY <1>1
  <2>2. ASSUME NEW i \in 0 .. L - 1 PROVE \E c \in columns : c.order = i
    BY <1>1, <1>8
  <2>. QED
    BY <2>1, <2>2
<1>. QED
  BY <1>7, <1>9

LEMMA SafeReleaseLands == ReleasesSafe => ReleaseLands
<1>. SUFFICES ASSUME ReleasesSafe, landed # 0 PROVE ReleaseLands
  BY DEF ReleaseLands
<1>. DEFINE b == Bundles[landed]
            columns == {t \in atlas.tactics : t.ver = landed}
            listed == UNION {ToSet(b.matrices[k]) : k \in 1 .. Len(b.matrices)}
            row(x) == CHOOSE t \in atlas.techs : t.number = x
<1>. PICK n : n = landed
  OBVIOUS
<1>0. /\ b = Bundles[n] /\ columns = {t \in atlas.tactics : t.ver = n}
      /\ listed = UNION {ToSet(b.matrices[k]) : k \in 1 .. Len(b.matrices)}
      /\ \A x : row(x) = CHOOSE t \in atlas.techs : t.number = x
  OBVIOUS
<1>. HIDE DEF b, columns, listed, row
<1>1. n \in ReleaseNumbers /\ ReleaseWhole(n) /\ AtlasFits
  BY DEF ReleasesSafe
<1>2. /\ Columned(n) /\ AllSaved(n) /\ AllBelow(n)
      /\ MappingsIn(n, ParsedTechniques(b), atlas.maps)
      /\ MappingsIn(n, ParsedSoftware(b), atlas.maps)
  BY <1>0, <1>1 DEF ReleaseWhole
<1>3. ASSUME NEW p \in b.patterns, ~p.revoked, p.number # Unnumbered
      PROVE  /\ Cardinality({t \in atlas.techs : t.number = p.number}) = 1
             /\ row(p.number).ver = n
             /\ row(p.number).phases = p.phases /\ row(p.number).deprecated = p.deprecated
             /\ \A prose \in row(p.number).guidance :
                  \E s \in b.strategies : \E a \in s.analytics :
                    /\ ~s.off /\ ~a.off /\ a.prose = prose
                    /\ \E r \in Related(b, "detects") : r.from = s.id /\ r.to = p.id
             /\ \A r \in ParentLinks(b), q \in ParsedTechniques(b) :
                  r.from = p.id /\ r.to = q.id => row(p.number).parent = q.number
  <2>1. p \in ParsedTechniques(b)
    BY <1>3 DEF ParsedTechniques, Numbered
  <2>2. PICK t \in atlas.techs :
          /\ {s \in atlas.techs : s.number = p.number} = {t}
          /\ t.ver = n /\ t.phases = p.phases /\ t.deprecated = p.deprecated
          /\ t.guidance = Guidance(b, p.id)
    BY <1>0, <1>2, <2>1 DEF AllSaved, SavedAs
  <2>3. t.number = p.number /\ \A s \in atlas.techs : s.number = p.number => s = t
    BY <2>2
  <2>4. row(p.number) = t
    BY <1>0, <2>3
  <2>5. Cardinality({s \in atlas.techs : s.number = p.number}) = 1
    BY <2>2, FS_Singleton
  <2>6. \A prose \in Guidance(b, p.id) :
          \E s \in b.strategies : \E a \in s.analytics : /\ ~s.off /\ ~a.off /\ a.prose = prose
 /\ \E r \in Related(b, "detects") : r.from = s.id /\ r.to = p.id
    BY DEF Guidance
  <2>7. \A r \in ParentLinks(b), q \in ParsedTechniques(b) :
          r.from = p.id /\ r.to = q.id => t.parent = q.number
    BY <1>0, <1>2, <2>1, <2>3 DEF AllBelow, BelowParent
  <2>. QED
    BY <2>2, <2>4, <2>5, <2>6, <2>7
<1>4. ASSUME NEW t \in b.tactics, t.id \in listed, t.number # Unnumbered, t.short # Unnamed
      PROVE  \E c \in columns : c.short = t.short
  <2>1. t \in Titled(b)
    BY <1>4 DEF Titled, Numbered
  <2>2. \E k \in 1 .. Len(b.matrices) : t.id \in ToSet(b.matrices[k])
    BY <1>0, <1>4
  <2>3. PICK k \in 1 .. Len(TacticOrder(b)) : TacticOrder(b)[k] = t.short
    BY <1>0, <1>1, <2>1, <2>2, ColumnsFit
  <2>4. ColumnRow(n, k) \in columns /\ ColumnRow(n, k).short = t.short
    BY <1>0, <1>2, <2>3 DEF Columned, ColumnsOf, ColumnRow
  <2>. QED
    BY <2>4
<1>5. {c.order : c \in columns} = 0 .. Cardinality(columns) - 1
  BY <1>0, <1>1, <1>2, ColumnsInOrder
<1>6. ASSUME NEW r \in Related(b, "uses"), NEW g \in b.groups, NEW t \in b.patterns \cup b.wares,
             r.from = g.id, r.to = t.id, g.number \in Followed,
             ~g.revoked, ~t.revoked, t.number # Unnumbered
      PROVE  <<g.number, t.number>> \in atlas.maps
  <2>. PICK m : m = <<g.number, t.number>>
    OBVIOUS
  <2>1. g \in LiveGroups(b)
    BY <1>6, BundlesAssumption DEF LiveGroups, Numbered
  <2>2. PICK targets : targets \in {ParsedTechniques(b), ParsedSoftware(b)} /\ t \in targets
    BY <1>6 DEF ParsedTechniques, ParsedSoftware, Numbered
  <2>3. m \in MappingsTo(b, targets)
    <3>. PICK u : u = <<g, t>>
      OBVIOUS
    <3>1. u \in LiveGroups(b) \X targets /\ u[1] = g /\ u[2] = t
      BY <2>1, <2>2
    <3>. QED
      BY <1>6, <3>1 DEF MappingsTo
  <2>4. m[1] \in Followed
    BY <1>6
  <2>. QED
    BY <1>0, <1>2, <2>2, <2>3, <2>4 DEF MappingsIn
<1>7. \A p \in b.patterns :
        ~p.revoked /\ p.number # Unnumbered =>
          /\ Cardinality({t \in atlas.techs : t.number = p.number}) = 1
          /\ row(p.number).ver = landed
          /\ row(p.number).phases = p.phases /\ row(p.number).deprecated = p.deprecated
          /\ \A prose \in row(p.number).guidance :
               \E s \in b.strategies : \E a \in s.analytics :
                 /\ ~s.off /\ ~a.off /\ a.prose = prose
                 /\ \E r \in Related(b, "detects") : r.from = s.id /\ r.to = p.id
          /\ \A r \in ParentLinks(b), q \in ParsedTechniques(b) :
               r.from = p.id /\ r.to = q.id => row(p.number).parent = q.number
          /\ \A t \in b.tactics :
               /\ t.short \in p.phases /\ t.id \in listed
               /\ t.number # Unnumbered /\ t.short # Unnamed
               => \E c \in columns : c.short = t.short
  BY <1>3, <1>4
<1>8. \A r \in Related(b, "uses"), g \in b.groups, t \in b.patterns \cup b.wares :
        /\ r.from = g.id /\ r.to = t.id /\ g.number \in Followed
        /\ ~g.revoked /\ ~t.revoked /\ t.number # Unnumbered
        => <<g.number, t.number>> \in atlas.maps
  BY <1>6
<1>. QED
  BY ONLY <1>5, <1>7, <1>8, Zenon DEF ReleaseLands, b, columns, listed, row

\* A release of ATT&CK whose sync ended is there as a whole: techniques, their
\* parents and guidance, a column for every tactic of any matrix, mappings,
\* whatever was synced or cut off before (parseBundle of src/lib/attack/stix.ts,
\* ingestParsedBundle of sync.ts).
THEOREM ReleasesDoLand == ReleasesSpec => []ReleaseLands
<1>1. ReleasesInit => ReleasesSafe
  BY ReleasesInitSafe
<1>2. ReleasesSafe /\ [ReleasesNext]_releaseVars => ReleasesSafe'
  BY ReleasesStepSafe
<1>3. ReleasesSafe => ReleaseLands
  BY SafeReleaseLands
<1>. QED
  BY <1>1, <1>2, <1>3, PTL DEF ReleasesSpec
=============================================================================
