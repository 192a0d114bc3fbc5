----------------------------- MODULE MCEnrichment -----------------------------
(* Instances of Enrichment: OTX (minute-limited, first), AbuseIPDB (daily)    *)
(* and, where lookups are of interest, VirusTotal.                            *)
EXTENDS Enrichment, TLC

CONSTANTS otx, abuse, vt, OneToken

Order == <<otx, abuse, vt>>
MCRank == [p \in Providers |-> CHOOSE n \in 1 .. 3 : Order[n] = p]
MCSupports == [i \in Indicators |-> Providers]
MCLimit == [p \in Providers |-> IF OneToken THEN 1 ELSE 2]
\* The worker's slots are interchangeable.
MCSymmetry == Permutations(Slots)
MCDaily == Providers \ {otx}
=============================================================================
