--------------------------- MODULE AnalysisReport ----------------------------
(***************************************************************************)
(* What stages 4 to 6 of the analysis compute from the parsed manifests,   *)
(* the advisories and the source tree: version status, vulnerabilities,    *)
(* the module graph with its cards, and the summary that is written.       *)
(***************************************************************************)
EXTENDS ManifestParsers, PythonImports, PhpImports

CONSTANTS
  Layer(_),            \* the layer of a module, by stage 6c
  TestNames,           \* tests, test, spec, test_*, *_test
  SuffixEntrypoints    \* class names that end in ServiceProvider or Interface

-----------------------------------------------------------------------------
(* Versions. *)

\* SplitN(v, ".", 4): a fifth component makes the fourth unreadable, zero.
versionInt(v, i) ==
  IF i > Len(v) \/ (i = 4 /\ Len(v) > 4) THEN 0 ELSE v[i]

\* Whether a is at least b, component by component.
AtLeast(a, b) ==
  \/ a = b
  \/ \A i \in 1 .. 4 : versionInt(a, i) = versionInt(b, i)
  \/ \E i \in 1 .. 4 : /\ versionInt(a, i) > versionInt(b, i)
                       /\ \A k \in 1 .. i - 1 : versionInt(a, k) = versionInt(b, k)

versionStatus(detected, latest) ==
  IF detected = NoVersion \/ latest = NoVersion THEN "unspecified"
  ELSE IF AtLeast(detected, latest) THEN "current" ELSE "outdated"

\* Stage 4, the index: the last technology of a name; the package of a
\* dependency with a display name leads to that name's technology.
techByName(techs, deps) ==
  LET named == [n \in {techs[i].name : i \in DOMAIN techs} |->
                  SelectLastInSeq(techs, LAMBDA t : t.name = n)]
      alias(f, d) == IF d.display # NoName /\ d.display \in DOMAIN f
                     THEN (d.pkg :> f[d.display]) @@ f ELSE f
  IN FoldLeft(alias, named, deps)

-----------------------------------------------------------------------------
(* Advisories: [id, aliases, severities, ranges] as OSV gives them, an alias *)
(* [cve, name], a severity [type, score] with ten times the base score, a    *)
(* range [type, fixed].                                                      *)

primaryIdentifier(v) ==
  LET i == SelectInSeq(v.aliases, LAMBDA a : a.cve)
  IN IF i = 0 THEN v.id ELSE v.aliases[i].name

cvssV3Severity(score) ==
  IF score >= 90 THEN "critical"
  ELSE IF score >= 70 THEN "high"
  ELSE IF score >= 40 \/ score = 0 THEN "medium" ELSE "low"

osvSeverity(severities) ==
  LET i == SelectInSeq(severities, LAMBDA s : s.type = "CVSS_V3")
  IN IF i = 0 THEN "medium" ELSE cvssV3Severity(severities[i].score)

extractFixedVersion(ranges) ==
  LET i == SelectInSeq(ranges, LAMBDA r : r.type = "ECOSYSTEM" /\ r.fixed # NoVersion)
  IN IF i = 0 THEN NoVersion ELSE ranges[i].fixed

mapOSVVuln(v, component) ==
  [ref |-> primaryIdentifier(v), severity |-> osvSeverity(v.severities),
   component |-> component, fixed |-> extractFixedVersion(v.ranges), approx |-> FALSE]

withApproxMark(v) == [v EXCEPT !.approx = TRUE]

Versioned(deps) == {d \in ToSet(deps) : d.version # NoVersion}
LatestKey(d) == <<d.eco, d.pkg>>
ScanKey(d) == <<d.eco, d.pkg, d.version>>

\* What OSV answers for a key; the vulnerabilities come in any order, and are
\* a set here.
Known(adv, key) == IF key \in DOMAIN adv THEN adv[key] ELSE {}
Answer(adv, key) == {mapOSVVuln(v, key[2]) : v \in Known(adv, key)}

-----------------------------------------------------------------------------
(* Stages 6 to 6e. A module is its separator and its parts: the names of     *)
(* two languages are never the same string.                                  *)

\* Python and PHP have an analyzer; the other languages are holes.
Mod(sep, parts) == <<sep>> \o parts
Tagged(sep, edges) ==
  LET tag(p) == <<Mod(sep, p[1]), Mod(sep, p[2])>>
  IN [q \in {tag(p) : p \in DOMAIN edges} |-> edges[<<Tail(q[1]), Tail(q[2])>>]]

Detected(ws, l) == Contains(detectLanguages(ws), l)

dependencyGraph(ws) ==
  (IF Detected(ws, "python") THEN Tagged(".", pyEdges(ws.py)) ELSE <<>>)
    @@ (IF Detected(ws, "php") THEN Tagged(phpSep(ws), phpEdges(ws)) ELSE <<>>)

ModuleCards(cards) == [i \in DOMAIN cards |-> [cards[i] EXCEPT !.module = Mod(cards[i].sep, @)]]

moduleCards(ws) ==
  LET cards(l) == IF l = "python" THEN pyCards(ws.py) ELSE IF l = "php" THEN phpCards(ws) ELSE <<>>
      each(langs) == FlattenSeq([i \in DOMAIN langs |-> ModuleCards(cards(langs[i]))])
  IN each(detectLanguages(ws))

blueprints(ws) ==
  IF Detected(ws, "python") THEN pyBlueprints(ws.py) ELSE {}

Nodes(graph) == {p[1] : p \in DOMAIN graph} \cup {p[2] : p \in DOMAIN graph}

\* Whole components only. A CodeIgniter module is one component, its path:
\* only the end of its last part can be a test's.
isTestModuleByName(m) ==
  IF m[1] = "/" THEN ToLower(Last(m)) \in TestNames \ {"tests", "test", "spec"}
  ELSE \E i \in 2 .. Len(m) : ToLower(m[i]) \in TestNames

\* Two parts in a row, below some namespace and with more after them.
Contains2(m, a, b, first, last) ==
  \E i \in first .. Len(m) - last : m[i] = a /\ m[i + 1] = b

isFrameworkEntrypoint(m) ==
  /\ m[1] = "\\" /\ Len(m) > 2
  /\ \/ Contains2(m, "Http", "Middleware", 3, 2)
     \/ Contains2(m, "Console", "Commands", 3, 2)
     \/ Contains2(m, "Database", "Factories", 2, 2)
     \/ Contains2(m, "Database", "Seeders", 2, 2)
     \/ Len(m) > 3 /\ SubSeq(m, Len(m) - 1, Len(m))
                        \in {<<"Http", "Kernel">>, <<"Console", "Kernel">>, <<"App", "Application">>}
     \/ \E i \in 3 .. Len(m) - 1 : m[i] = "Providers"
     \/ Last(m) \in SuffixEntrypoints

EmptyCard(c) == ~c.code

\* Stage 6 (B2): what becomes of a card.
Disposition(c, live) ==
  IF c.module \in live THEN "live"
  ELSE IF isTestModuleByName(c.module) THEN "test"
  ELSE IF EmptyCard(c) THEN "empty"
  ELSE IF isFrameworkEntrypoint(c.module) THEN "entrypoint"
  ELSE "unreachable"

\* The hub predicate: state, or a CodeIgniter module, with two importers.
isSharedStateHubCard(c, fanIn) == fanIn >= 2 /\ (c.state \/ c.sep = "/")

Sum(graph, pairs) == MapThenSumSet(LAMBDA p : graph[p], pairs)

enrichModuleCards(cards, graph, tests) ==
  [i \in DOMAIN cards |->
     LET into == {p \in DOMAIN graph : p[2] = cards[i].module}
         from == {p \in DOMAIN graph : p[1] = cards[i].module}
         fanIn == Sum(graph, into)
     IN [module |-> cards[i].module, fanIn |-> fanIn, fanOut |-> Sum(graph, from),
         fanInProd |-> Sum(graph, {p \in into : p[1] \notin tests}),
         hub |-> isSharedStateHubCard(cards[i], fanIn)]]

\* The hubs, worst first, in the order of the cards between equals.
SharedStateHubs(cards) ==
  LET hubs == SelectSeq(cards, LAMBDA c : c.hub)
      rank == SetToSortSeq(DOMAIN hubs, LAMBDA a, b :
                hubs[a].fanIn > hubs[b].fanIn \/ (hubs[a].fanIn = hubs[b].fanIn /\ a < b))
  IN [i \in DOMAIN rank |-> hubs[rank[i]].module]

\* Mutant: the islands are not counted.
moduleCountLive(cards, live, tests, classified) ==
  LET counted == {i \in DOMAIN cards : cards[i].module \in live}
      isTest == {i \in DOMAIN cards : cards[i].module \in tests}
  IN [test |-> Cardinality(isTest), production |-> Cardinality(counted \ isTest)]

\* The counts are over every card, the islands too: tests, and what is neither
\* a test nor an empty card outside the domain and infra layers.
moduleCount(cards, live, tests, classified) ==
  LET isTest == {i \in DOMAIN cards : cards[i].module \in tests}
      marker == {i \in DOMAIN cards : EmptyCard(cards[i]) /\ cards[i].module \notin classified}
  IN [test |-> Cardinality(isTest),
      production |-> Cardinality(DOMAIN cards \ (isTest \cup marker))]

\* Composer's language if there is a Composer dependency, else the one of the
\* first dependency of all.
ManifestLanguage(deps) ==
  LET of == [eco \in {"npm", "Maven", "Packagist", "PyPI", "NuGet", "RubyGems"} |->
               CASE eco = "npm" -> "javascript" [] eco = "Maven" -> "java"
                 [] eco = "Packagist" -> "php" [] eco = "PyPI" -> "python"
                 [] eco = "NuGet" -> "csharp" [] eco = "RubyGems" -> "ruby"]
  IN IF \E i \in DOMAIN deps : deps[i].eco = "Packagist" THEN "php" ELSE of[deps[1].eco]

boostManifestLanguage(techs, deps) ==
  LET isHead(t) == t.category = "language" /\ t.name = Title(ManifestLanguage(deps))
      head == SelectSeq(techs, isHead)
  IN IF deps = <<>> \/ head = <<>> THEN techs
     ELSE <<Last(head)>> \o SelectSeq(techs, LAMBDA t : ~isHead(t))

injectInferredFramework(techs, bps) ==
  IF (\E i \in DOMAIN techs : techs[i].category = "framework") \/ bps = {} THEN techs
  ELSE Append(techs, Technology(Title("flask"), NoVersion, "framework"))

\* The live set of B2: every card's module when there is no graph.
LiveSet(graph, all) ==
  IF graph = <<>> THEN {all[i].module : i \in DOMAIN all} ELSE Nodes(graph)

Fate(all, live, d) ==
  {all[i].module : i \in {k \in DOMAIN all : Disposition(all[k], live) = d}}

\* TestModules after the fold of the islands.
TestModules(graph, all, live) ==
  {m \in Nodes(graph) : Layer(m) = "test"} \cup Fate(all, live, "test")

ClassifiedSet(graph) == {m \in Nodes(graph) : Layer(m) \in {"domain", "infra"}}

Summarize(graph, all, live, tests, count, cards, techs, vulns) ==
  [technologies |-> techs, vulnerabilities |-> vulns, graph |-> graph, cards |-> cards,
   tests |-> tests, unreachable |-> Fate(all, live, "unreachable"), hubs |-> SharedStateHubs(cards),
   production |-> count.production, testCount |-> count.test, deep |-> graph # <<>> \/ all # <<>>]

\* The cards that B2 keeps.
LiveCards(all, live) == SelectSeq(all, LAMBDA c : c.module \in live)

\* The summary that Run hands to the writer.
Assess(ws, techs, deps, vulns) ==
  LET of(graph, all, live, tests) ==
        Summarize(graph, all, live, tests, moduleCount(all, live, tests, ClassifiedSet(graph)),
                  enrichModuleCards(LiveCards(all, live), graph, tests),
                  injectInferredFramework(boostManifestLanguage(techs, deps), blueprints(ws)), vulns)
      withTests(graph, all, live) == of(graph, all, live, TestModules(graph, all, live))
      withLive(graph, all) == withTests(graph, all, LiveSet(graph, all))
  IN withLive(dependencyGraph(ws), moduleCards(ws))
==============================================================================
