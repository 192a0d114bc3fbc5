------------------------------ MODULE Verdicts ------------------------------
(***************************************************************************)
(* What the providers' answers come to: each client of                     *)
(* src/lib/enrichment/providers turns its answer into a verdict and a      *)
(* score, enrichOne stores both, a card of the indicator's page shows them *)
(* (enrichment-cards.tsx), and /api/v1/indicators/[id]/context sums them   *)
(* up from the scores alone.  Calls, quotas and retries are modules        *)
(* Enrichment's, RateLimiter's and Credentials'.                           *)
(***************************************************************************)
EXTENDS Environment, Sequences, FiniteSetsExt

CONSTANTS
  EngineCounts, \* VirusTotal: [malicious, suspicious, clean] of an answer
  PulseCounts,  \* OTX: pulses of an answer
  CvssLists,    \* Shodan: sets of <<CVE, CVSS * 10>> of a host
  AbuseScores   \* AbuseIPDB: abuseConfidenceScore of an answer

ASSUME AnswersAssumption ==
  /\ \A n \in EngineCounts : {n.malicious, n.suspicious, n.clean} \subseteq Nat
  /\ PulseCounts \subseteq Nat
  /\ \A vulns \in CvssLists : IsFiniteSet(vulns)
  /\ AbuseScores \subseteq 0 .. 100

VARIABLES verdictRows  \* the Enrichment rows of one IPv4 address

verdictVars == <<verdictRows>>

\* PROVIDERS, in their order; the stub stays off.
Registry == <<"otx", "greynoise", "shodan", "abuseipdb", "virustotal">>
Clients == {Registry[k] : k \in 1 .. Len(Registry)}

NoScore == -1
Result(verdict, score) == [verdict |-> verdict, score |-> score]
NoResult == Result("UNKNOWN", NoScore)
NoRow == [result |-> NoResult, error |-> FALSE, shows |-> {"nothing"}]

VerdictFromScore(score) ==
  IF score >= 70 THEN "MALICIOUS" ELSE IF score >= 30 THEN "SUSPICIOUS" ELSE "BENIGN"
ByScore(score) == Result(VerdictFromScore(score), score)
-----------------------------------------------------------------------------
(* The lookups.  A 404 is an answer.                                       *)

\* Half a point for a suspicious engine, in per cent, rounded.
VirusTotalResult(n) ==
  LET total == n.malicious + n.suspicious + n.clean
  IN  IF total = 0 THEN NoResult
      ELSE ByScore((200 * n.malicious + 100 * n.suspicious + total) \div (2 * total))

\* Math.round(20 * Math.log2(pulses + 1)) for the numbers up to 15; from there
\* on it is 80 or more, and capped.  (Uncapped is not.)
Curve(pulses) ==
  IF pulses < 15 THEN <<20, 32, 40, 46, 52, 56, 60, 63, 66, 69, 72, 74, 76, 78>>[pulses]
  ELSE 80
Uncapped(pulses) == Curve(pulses)
OtxScore(pulses) == IF Curve(pulses) < 60 THEN Curve(pulses) ELSE 60
OtxResult(pulses, validated) ==
  IF validated THEN Result("BENIGN", 0)
  ELSE IF pulses = 0 THEN NoResult
  ELSE Result(IF OtxScore(pulses) >= 30 THEN "SUSPICIOUS" ELSE "BENIGN", OtxScore(pulses))

\* RIOT is known-good infrastructure; "benign" is a known mass scanner.
GreyNoiseScore(class, noise, riot) ==
  IF riot THEN 0
  ELSE IF class = "malicious" THEN 85
  ELSE IF class = "benign" THEN 5
  ELSE IF noise THEN 20
  ELSE IF class = "unknown" THEN 15
  ELSE 0
GreyNoiseResult(class, noise, riot) ==
  LET score == GreyNoiseScore(class, noise, riot)
  IN  Result(IF score >= 70 THEN "MALICIOUS"
             ELSE IF score >= 25 THEN "SUSPICIOUS"
             ELSE IF riot \/ class = "benign" THEN "BENIGN"
             ELSE "UNKNOWN", score)

AtMost(cap, score) == IF score < cap THEN score ELSE cap

\* InternetDB counts the CVEs, and half believes a honeypot; the keyed API
\* tells how bad they are.
InternetDbScore(vulns, honeypot) ==
  IF vulns = {} THEN 0
  ELSE AtMost(IF honeypot THEN 30 ELSE 80, 10 + 8 * Cardinality(vulns))
FullHostScore(vulns) ==
  IF vulns = {} THEN 0
  ELSE IF \E v \in vulns : v[2] >= 90 THEN 75
  ELSE IF \E v \in vulns : v[2] >= 70 THEN 55
  ELSE AtMost(40, 10 + 5 * Cardinality(vulns))

AbuseResult(score, whitelisted) == IF whitelisted THEN Result("BENIGN", 0) ELSE ByScore(score)
-----------------------------------------------------------------------------
(* The rows.  A card shows what its kind of answer has: the generic one    *)
(* nothing but an error, GreyNoise's and Shodan's no error.                *)

Store(p, result, shows) ==
  /\ verdictRows' = [verdictRows EXCEPT
       ![p] = [result |-> result, error |-> FALSE, shows |-> shows]]
  /\ Upset

VirusTotalAnswers(n) == Store("virustotal", VirusTotalResult(n), {"no details"})
OtxAnswers(pulses, validated) == Store("otx", OtxResult(pulses, validated), {"no details"})
AbuseAnswers(score, whitelisted) ==
  Store("abuseipdb", AbuseResult(score, whitelisted), {"no details"})

GreyNoiseAnswers(class, noise, riot) ==
  Store("greynoise", GreyNoiseResult(class, noise, riot),
        {IF riot THEN "riot" ELSE IF noise THEN "noise" ELSE "not noise", class})

ShodanAnswers(score, vulns, honeypot) ==
  Store("shodan", ByScore(score),
        (IF vulns = {} THEN {} ELSE {"vulnerabilities"}) \cup (IF honeypot THEN {"tags"} ELSE {}))

NotFound(p) ==
  Store(p, IF p = "greynoise" THEN Result("UNKNOWN", 10)
           ELSE IF p = "shodan" THEN Result("UNKNOWN", 0) ELSE NoResult,
        {IF p = "greynoise" THEN "not in dataset"
         ELSE IF p = "shodan" THEN "not indexed" ELSE "no details"})

\* AbuseIPDB has no 404: it is an error there.  A failure leaves the verdict,
\* the score and the answer there were; a new row has an empty answer.
Fails(p) ==
  /\ verdictRows' = [verdictRows EXCEPT
       ![p] = [result |-> @.result, error |-> TRUE,
               shows |-> IF p \notin {"greynoise", "shodan"} THEN {"error"}
                         ELSE IF @ # NoRow THEN @.shows
                         ELSE IF p = "greynoise" THEN {"not noise"} ELSE {}]]
  /\ Upset

VerdictsInit == verdictRows = [p \in Clients |-> NoRow]

VerdictsNext ==
  \/ \E n \in EngineCounts : VirusTotalAnswers(n)
  \/ \E pulses \in PulseCounts, validated \in BOOLEAN : OtxAnswers(pulses, validated)
  \/ \E score \in AbuseScores, whitelisted \in BOOLEAN : AbuseAnswers(score, whitelisted)
  \/ \E class \in {"malicious", "benign", "unknown", "none"}, noise, riot \in BOOLEAN :
       GreyNoiseAnswers(class, noise, riot)
  \/ \E vulns \in CvssLists :
       \/ \E honeypot \in BOOLEAN :
            ShodanAnswers(InternetDbScore(vulns, honeypot), vulns, honeypot)
       \/ ShodanAnswers(FullHostScore(vulns), vulns, FALSE)
  \/ \E p \in Clients \ {"abuseipdb"} : NotFound(p)
  \/ \E p \in Clients : Fails(p)
-----------------------------------------------------------------------------
(* The context endpoint.                                                   *)

Scored == {p \in Clients : /\ verdictRows[p] # NoRow
                            /\ ~verdictRows[p].error
                            /\ verdictRows[p].result.score # NoScore}

AggregateVerdict ==
  IF Scored = {} THEN "UNKNOWN"
  ELSE VerdictFromScore(Max({verdictRows[p].result.score : p \in Scored}))

Holds(verdict) ==
  \E p \in Clients : ~verdictRows[p].error /\ verdictRows[p].result.verdict = verdict

\* The verdict a playbook reads, taken from scores on five scales, is the
\* worst one on the cards: malicious or suspicious exactly when a provider
\* that last answered says so; and community pulses alone never make an
\* address malicious.
VerdictsAgree ==
  /\ AggregateVerdict = "MALICIOUS" <=> Holds("MALICIOUS")
  /\ AggregateVerdict = "SUSPICIOUS" <=> (Holds("SUSPICIOUS") /\ ~Holds("MALICIOUS"))
  /\ Holds("BENIGN") => AggregateVerdict # "UNKNOWN"
  /\ Scored = {"otx"} => AggregateVerdict # "MALICIOUS"
=============================================================================
