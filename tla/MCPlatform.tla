----------------------------- MODULE MCPlatform -----------------------------
(* A small platform: two values, two hunts' slots, two schedules of one name, *)
(* a load of the application and one of the worker, and so on; the scenes     *)
(* put together what interacts.                                               *)
EXTENDS Platform

CONSTANTS va, vb, feed, in1, in2, s1, s2, q1, q2, c1, c2, app, worker,
          l1, w1, w2, k1, k2, ak1, r1, r2, r3, tool, sl1, sl2, a1, a2, t1, t2, e1, e2,
          i1, i2, i3, i4, x3, m2

MCHalfLife == [src \in {feed} |-> 1]
MCSightings == {<<feed, {va}>>, <<NoSource, {va}>>, <<NoSource, {va, vb}>>}
MCNameOf == [q \in Schedules |-> "weekly"]
MCKeysIn == [c \in Secrets |-> IF c = c1 THEN 1 ELSE 2]
MCLoadIn == [l \in Loads |-> IF l = l1 THEN app ELSE worker]
MCLookupIn == [k \in Lookups |-> worker]
MCKeyExpires == [k \in ApiKeys |-> 3]
MCRequestKey == [r \in Requests |-> ak1]
MCParentOf == [t \in Techniques |-> IF t = t2 THEN t1 ELSE NoParent]
MCGroupUses == {a1} \X Techniques
MCSoftwareUses == {<<a1, tool>>}
MCKindOf == i1 :> "IPV4" @@ i2 :> "CVE" @@ i3 :> "URL" @@ i4 :> "MD5"
MCFirstSeen == i1 :> -2 @@ i2 :> 0 @@ i3 :> -1 @@ i4 :> -3

\* The console.  Indicators to hunt: one that is whitelisted, one without a
\* source, and days on either side of a boundary.
Indicator(type, severity, conf, text, source, ids, first, white) ==
  [type |-> type, severity |-> severity, tlp |-> "RED", confidence |-> conf,
   words |-> text, tags |-> text, source |-> source, techs |-> ids, tactics |-> {},
   firstSeen |-> first, lastSeen |-> first + 1, white |-> white]
MCCatalogue ==
  {Indicator("DOMAIN", "HIGH", 80, {"x"}, "feed", {"x"}, 3, FALSE),
   Indicator("CVE", "LOW", 50, {}, "", {}, 4, FALSE),
   Indicator("DOMAIN", "LOW", 0, {"x"}, "feed", {"x"}, 2, TRUE),
   Indicator("CVE", "HIGH", 100, {}, "other", {}, 1, FALSE)}
MCHuntTemplates ==
  {[match |-> "all",
    rows |-> <<[field |-> "severity", op |-> "in", many |-> TRUE, value |-> <<"HIGH", "LOW">>],
               [field |-> "lastSeen", op |-> "after", many |-> FALSE, value |-> <<"day1">>]>>]}

\* Pastes: prose, lists with other spellings of the same values, some of which
\* only one reading tells, a long line.
Spelled(type, id, class, host, marks) ==
  [type |-> type, id |-> id, class |-> class, host |-> host, marks |-> marks]
Word == Spelled("WORD", "w", "", "", {})
Hash(marks) == Spelled("MD5", "m", "", "", marks)
Address == Spelled("IPV4", "i", "reserved", "", {"defanged"})
Host(marks) == Spelled("DOMAIN", "d", "", "d", marks)
CoinAddress(marks) == Spelled("BTC_ADDRESS", "b", "", "", marks)
UrlOf(marks) == Spelled("URL", "u", "", "d", marks)
KeyAt(marks) == Spelled("REGISTRY_KEY", "k", "", "", marks)
LongAddress(marks) == Spelled("IPV6", "l", "", "", marks)
TextLine(sep, values) == [comment |-> FALSE, sep |-> sep, values |-> values]
MCPastes ==
  {[long |-> FALSE,
    lines |-> <<TextLine("prose", <<Word, Host({"defanged"}), Address>>),
                TextLine("tab", <<UrlOf({"path", "defanged"})>>)>>],
   [long |-> FALSE,
    lines |-> <<TextLine("tab", <<Host({"case", "dot"}), UrlOf({})>>),
                TextLine("comma", <<UrlOf({"fragment", "slash", "case"}), CoinAddress({"case"})>>),
                [TextLine("prose", <<Hash({})>>) EXCEPT !.comment = TRUE],
                TextLine("semicolon", <<Hash({"case"}), Hash({})>>),
                TextLine("prose", <<Spelled("CVE", "c", "", "", {"dot"})>>),
                TextLine("prose", <<Spelled("MUTEX", "x", "", "", {})>>),
                TextLine("prose", <<Word>>)>>],
   [long |-> FALSE,
    lines |-> <<TextLine("tab", <<Host({}), Address>>), TextLine("tab", <<Hash({})>>),
                TextLine("tab", <<Hash({"case"})>>), TextLine("tab", <<CoinAddress({})>>),
                TextLine("tab", <<KeyAt({}), LongAddress({})>>),
                TextLine("comma", <<Spelled("EMAIL", "e", "", "d", {"defanged", "case"}),
                                    Spelled("CVE", "c", "", "", {})>>)>>],
   [long |-> FALSE,
    lines |-> <<TextLine("tab", <<KeyAt({"unseen"})>>), TextLine("tab", <<KeyAt({"dot"})>>),
                TextLine("comma", <<LongAddress({"form"}), LongAddress({"case"})>>),
                TextLine("tab", <<CoinAddress({"untold"})>>),
                TextLine("tab", <<Spelled("USER_AGENT", "a", "tool", "", {})>>)>>],
   [long |-> TRUE, lines |-> <<TextLine("prose", <<Word, Word>>)>>]}

\* A technique whose number others carry in their name.
Findable(kind, id, number, text, name, alias, similarity) ==
  [kind |-> kind, id |-> id, number |-> number, text |-> text, name |-> name,
   alias |-> alias, deprecated |-> FALSE, rank |-> similarity]
MCEntries ==
  {Findable("actor", 1, "", {"bear"}, {"bear"}, {"bear"}, 2),
   Findable("malware", 2, "", {}, {"bear"}, {}, 1),
   Findable("technique", 3, "T1", {"bear"}, {}, {}, 0),
   Findable("technique", 4, "T10", {}, {"T1"}, {}, 3),
   Findable("technique", 5, "T11", {}, {"T1"}, {}, 4),
   Findable("indicator", 6, "", {"bear"}, {"T1"}, {}, 5)}

\* Lines: two spellings of one value, a known good one, junk, a torn URL.
MCValueOf == "A" :> "a" @@ "a" :> "a" @@ "x;y" :> "u" @@ "?" :> "no" @@ "8" :> "8"
MCInputs == {<<"A", "8", "A", "a", "?">>, <<"x;y">>, <<"a">>}
MCPanels == {<<"vt", "otx">>}
MCSupported == {<<"vt", "a">>, <<"otx", "a">>, <<"vt", "8">>}

\* Answers on either side of the thresholds.
Engines(malicious, suspicious, clean) ==
  [malicious |-> malicious, suspicious |-> suspicious, clean |-> clean]
MCEngineCounts ==
  {Engines(0, 0, 0), Engines(0, 0, 70), Engines(1, 1, 70), Engines(22, 0, 50),
   Engines(49, 1, 20), Engines(0, 60, 0)}
MCCvssLists ==
  {{}, {<<"c1", 50>>}, {<<"c1", 75>>, <<"c2", 40>>}, {<<"c1", 98>>},
   {"c1", "c2", "c3", "c4", "c5", "c6", "c7", "c8"} \X {40}}

\* A technique with two sub-techniques and one in two columns.
Technique(id, parent, columns) == [id |-> id, parent |-> parent, tactics |-> columns]
MCCells ==
  {Technique("T1059", "", {"execution"}), Technique("T1059.001", "T1059", {"execution"}),
   Technique("T1059.003", "T1059", {"execution"}),
   Technique("T1197", "", {"execution", "persistence"})}
Artefact(id, type, conf) == [id |-> id, type |-> type, conf |-> conf]
MCArtefacts ==
  {Artefact("i", "IPV4", 50), Artefact("h", "MD5", 100), Artefact("x", "USER_AGENT", 90),
   Artefact("d", "DOMAIN", 40)}

\* Two feeds; files with a mark, comments, repeats, junk and a value of both.
FeedEntry(name, handler, conf) == [name |-> name, handler |-> handler, conf |-> conf]
MCFeedCatalog == <<FeedEntry("urlhaus", "urlhaus", 80), FeedEntry("pulses", "otx-pulses", 50)>>
FileOf(handler, bom, lines) == [handler |-> handler, bom |-> bom, lines |-> lines]
Is(kind, value) == [is |-> kind, value |-> value]
MCFeedFiles ==
  {FileOf("urlhaus", TRUE,
     <<Is("comment", ""), Is("header", ""), Is("row", "u"), Is("row", "junk"), Is("row", "u")>>),
   FileOf("otx-pulses", FALSE, <<Is("row", "u"), Is("empty", ""), Is("row", "v")>>)}

\* Two releases: in the second the smaller matrix comes first, a technique is
\* replaced, one is withdrawn and one has lost a tactic, a strategy and an
\* analytic are withdrawn, a group and a tool have no number, and a tactic no short name.
TacticOf(id, number, short) == [id |-> id, number |-> number, short |-> short]
PatternOf(id, number, phases) ==
  [id |-> id, number |-> number, phases |-> phases, revoked |-> FALSE, deprecated |-> FALSE]
Strategy(id, gone, analytics) == [id |-> id, off |-> gone, analytics |-> analytics]
Analytic(gone, prose) == [off |-> gone, prose |-> prose]
Relation(from, kind, to) == [from |-> from, kind |-> kind, to |-> to]
GroupOf(id, number) == [id |-> id, number |-> number, revoked |-> FALSE]
Ware(id, number, kind) == [id |-> id, number |-> number, kind |-> kind, revoked |-> FALSE]
MCRelations ==
  {Relation("p2", "subtechnique-of", "p1"), Relation("s1", "detects", "p1"),
   Relation("s2", "detects", "p2"), Relation("g1", "uses", "p1"),
   Relation("g1", "uses", "p2"), Relation("g1", "uses", "w1"),
   Relation("g2", "uses", "w2"), Relation("g1", "uses", "p3")}
MCTactics ==
  {TacticOf("ta", "TA1", "access"), TacticOf("tb", "TA2", "impact"), TacticOf("tc", "", "x"),
   TacticOf("td", "TA4", Unnamed)}
MCBundles ==
  <<[matrices |-> <<<<"ta", "tb">>>>, tactics |-> MCTactics,
     patterns |-> {PatternOf("p1", "T1", {"access", "impact"}), PatternOf("p2", "T1.1", {"access"}),
                   PatternOf("p3", "T3", {"impact"})},
     groups |-> {GroupOf("g1", "G1"), GroupOf("g2", "")},
     wares |-> {Ware("w1", "S1", "malware"), Ware("w2", "", "tool")},
     strategies |-> {Strategy("s1", FALSE, {Analytic(FALSE, "watch")})},
     relations |-> MCRelations],
    [matrices |-> <<<<"tb">>, <<"ta", "tc", "td", "tb">>>>, tactics |-> MCTactics,
     patterns |-> {[PatternOf("p1", "T1", {"access"}) EXCEPT !.deprecated = TRUE],
                   PatternOf("p2", "T1.1", {"impact"}), PatternOf("p4", "T4", {"access"}),
                   [PatternOf("p3", "T3", {"impact"}) EXCEPT !.revoked = TRUE]},
     groups |-> {GroupOf("g1", "G1"), GroupOf("g2", "")},
     wares |-> {[Ware("w1", "S1", "malware") EXCEPT !.revoked = TRUE], Ware("w3", "S3", "tool")},
     strategies |-> {Strategy("s1", TRUE, {Analytic(FALSE, "watch")}),
                     Strategy("s2", FALSE, {Analytic(TRUE, "old"), Analytic(FALSE, "new")})},
     relations |-> MCRelations \cup {Relation("g1", "uses", "w3")}]>>

Scene(acts, last, n, absent) ==
  [acts |-> acts, clock |-> last, upsets |-> n, absent |-> absent,
   writes |-> IF "imports" \in acts THEN 1 ELSE IF last = 1 THEN 2 ELSE MaxWrites]
MCScenes ==
  {Scene({"ingest"}, 3, 1, {}),
   Scene({"ingest", "hunts"}, 2, 1, {in2}),
   Scene({"reports"}, 3, 1, {q2}),
   Scene({"reports"}, 2, 0, {}),
   Scene({"accounts"}, 1, 1, {}),
   Scene({"accounts"}, 2, 1, {x3}),
   Scene({"api"}, 4, 1, {}),
   Scene({"curation"}, 1, 1, {}),
   Scene({"curation"}, 2, 1, {a2}),
   Scene({"curation", "imports"}, 1, 0, {a2, e2, sl2}),
   Scene({"curation", "imports"}, 1, 2, {a2, e2, sl2, m2}),
   Scene({"exports"}, 2, 2, {}),
   Scene({"builder"}, 1, 1, {}),
   Scene({"paste"}, 1, 3, {}),
   Scene({"search"}, 1, 4, {}),
   Scene({"bulk"}, 1, 2, {}),
   Scene({"verdicts"}, 1, 3, {}),
   Scene({"coverage"}, 1, 3, {}),
   Scene({"backups"}, 1, 1, {}),
   Scene({"sources"}, 1, 3, {}),
   Scene({"releases"}, 1, 3, {})}

\* What has to settle; and backups, of which more are asked to stay than there are.
MCQuietScenes ==
  {Scene({"schedules"}, 1, 2, {}),
   Scene({"credentials"}, 1, 2, {k1, k2}),
   Scene({"credentials"}, 1, 1, {w2})}
MCBackupScenes == {Scene({"backups"}, 1, 0, {})}
=============================================================================
