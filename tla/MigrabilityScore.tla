-------------------------- MODULE MigrabilityScore --------------------------
(***************************************************************************)
(* The structural facts that the engine derives from a dependency graph:   *)
(* the layer of every module (computed twice in the system, once by the    *)
(* analysis worker and once by the decomposition worker), the import       *)
(* cycles, and the migrability score.                                      *)
(*                                                                         *)
(* A source tree is a record:                                              *)
(*   edge        the weight of every import, 0 for none                    *)
(*   php         the modules with a backslash in their name                *)
(*   layer       what the namespace of a PHP module says of it             *)
(*   group       the blueprint group, the first two parts of the name      *)
(*   suffix      the modules named like a part of a domain (models, views) *)
(*   test        the modules with a test component in their name           *)
(*   state, big  the modules with module-level state, with many functions  *)
(*   blueprints  how many blueprints are declared                          *)
(*   routes      whether there are HTTP routes                             *)
(* All imports join modules of one language.                               *)
(***************************************************************************)
EXTENDS Integers, FiniteSets, FiniteSetsExt, SequencesExt

CONSTANT TopK   \* defaultTopK, the module cards kept in full

ASSUME TopKAssumption == TopK \in Nat \ {0}

\* AllModules: the modules at an end of some import.
AllModules(in) ==
  {m \in DOMAIN in.edge : \E k \in DOMAIN in.edge : in.edge[m][k] > 0 \/ in.edge[k][m] > 0}

\* The modules that import m.
Importers(in, m) == {k \in DOMAIN in.edge : in.edge[k][m] > 0}

\* The modules of a set that more than a quarter of the set import, and more
\* than two: shared hubs, not domain.
Hubs(in, S) == {m \in S : Cardinality(Importers(in, m)) > Max({2, Cardinality(S) \div 4})}

\* DeterministicModuleClassifier.Classify, of the modules that are not PHP.
ClassifyGeneric(in, S) ==
  LET code      == S \ in.test
      blueprint == {in.group[m] : m \in S \cap in.suffix}
      inGroup   == {m \in code : in.group[m] \in blueprint}
      domain    == IF blueprint # {} THEN inGroup ELSE code \ Hubs(in, code)
  IN  [domain |-> domain, infra |-> code \ domain, tests |-> S \cap in.test,
       fallback |-> blueprint = {}]

\* LayerOf: a name without a backslash carries no layer.
LayerOf(in, m) == IF m \in in.php THEN in.layer[m] ELSE ""

\* PHPModuleClassifier.Classify and classifyPHP; the application layer counts
\* as infrastructure. fallback says whether modules of no layer make the
\* classification a structural fallback.
ClassifyPhp(in, S, fallback) ==
  LET unmatched == {m \in S : LayerOf(in, m) = ""}
      inLayer(l) == {m \in S : LayerOf(in, m) = l}
  IN  [domain |-> inLayer("domain") \cup (unmatched \ Hubs(in, unmatched)),
       infra |-> inLayer("application") \cup inLayer("infra") \cup Hubs(in, unmatched),
       tests |-> inLayer("test"),
       fallback |-> fallback /\ unmatched # {}]

\* Mutant: the merge forgets that the generic classifier fell back.
ClassifyForgetful(in) ==
  LET php == ClassifyPhp(in, AllModules(in) \cap in.php, TRUE)
      gen == ClassifyGeneric(in, AllModules(in) \ in.php)
  IN  [domain |-> php.domain \cup gen.domain, infra |-> php.infra \cup gen.infra,
       tests |-> php.tests \cup gen.tests, fallback |-> php.fallback]

\* LanguageAwareClassifier.Classify, the classifier of the analysis worker:
\* every language by itself, and the results merged. A language without
\* imports contributes nothing.
ClassifyForAnalysis(in) ==
  LET php == ClassifyPhp(in, AllModules(in) \cap in.php, TRUE)
      gen == ClassifyGeneric(in, AllModules(in) \ in.php)
  IN  [domain |-> php.domain \cup gen.domain, infra |-> php.infra \cup gen.infra,
       tests |-> php.tests \cup gen.tests,
       fallback |-> php.fallback \/ (gen.fallback /\ AllModules(in) \ in.php # {})]

\* DeterministicInfraDetector.Detect: module by module, or by fan-in where no
\* module is named like a part of a domain.
Detect(in) ==
  LET groups  == {in.group[m] : m \in AllModules(in) \cap in.suffix}
      nonTest == {m \in AllModules(in) : m \notin in.test}
      kind(m) == IF m \in in.test THEN "test"
                 ELSE IF in.group[m] \in groups THEN "domain" ELSE "infra"
      byFanIn(m) == IF m \in in.test THEN "test"
                    ELSE IF m \in Hubs(in, nonTest) THEN "infra" ELSE "domain"
      of(k)   == {m \in AllModules(in) : (IF groups # {} THEN kind(m) ELSE byFanIn(m)) = k}
  IN  [domain |-> of("domain"), infra |-> of("infra"), tests |-> of("test"),
       fallback |-> groups = {}]

\* PHPAwareInfraDetector.Detect, the detector of the decomposition worker and
\* of the two assessors: one PHP module makes the graph a PHP graph.
DetectForDesign(in) ==
  IF AllModules(in) \cap in.php # {}
  THEN ClassifyPhp(in, AllModules(in), FALSE)
  ELSE Detect(in)

-----------------------------------------------------------------------------
(* detectCycles: Tarjan's strongly connected components. *)

Unvisited == -1

\* The state of the search before and after the visit of v.
RECURSIVE StrongConnect(_, _, _)
StrongConnect(adj, v, s) ==
  LET entered == [s EXCEPT !.index[v] = s.counter, !.low[v] = s.counter,
                           !.counter = @ + 1, !.stack = Append(@, v)]
      look(t, w) ==
        IF t.index[w] = Unvisited
        THEN LET u == StrongConnect(adj, w, t)
             IN  [u EXCEPT !.low[v] = Min({u.low[v], u.low[w]})]
        ELSE IF Contains(t.stack, w)
             THEN [t EXCEPT !.low[v] = Min({t.low[v], t.index[w]})]
             ELSE t
      left == FoldLeft(look, entered, SetToSortSeq(adj[v], <))
      at   == CHOOSE i \in DOMAIN left.stack : left.stack[i] = v
      scc  == {left.stack[i] : i \in at .. Len(left.stack)}
  IN  IF left.low[v] # left.index[v] THEN left
      ELSE [left EXCEPT !.stack = SubSeq(@, 1, at - 1),
                        !.sccs = IF Cardinality(scc) > 1 THEN @ \cup {scc} ELSE @]

\* Mutant: the search starts only from the modules that no other imports.
DetectCyclesFromRoots(in) ==
  LET nodes == DOMAIN in.edge
      adj   == [v \in nodes |-> {w \in nodes : w # v /\ in.edge[v][w] > 0}]
      begin == [index |-> [v \in nodes |-> Unvisited], low |-> [v \in nodes |-> 0],
                counter |-> 0, stack |-> <<>>, sccs |-> {}]
      visit(s, v) == IF s.index[v] = Unvisited THEN StrongConnect(adj, v, s) ELSE s
  IN  FoldLeft(visit, begin,
        SetToSortSeq({v \in nodes : \A u \in nodes : v \notin adj[u]}, <)).sccs

DetectCycles(in) ==
  LET nodes == DOMAIN in.edge
      adj   == [v \in nodes |-> {w \in nodes : w # v /\ in.edge[v][w] > 0}]
      begin == [index |-> [v \in nodes |-> Unvisited], low |-> [v \in nodes |-> 0],
                counter |-> 0, stack |-> <<>>, sccs |-> {}]
      visit(s, v) == IF s.index[v] = Unvisited THEN StrongConnect(adj, v, s) ELSE s
  IN  FoldLeft(visit, begin, SetToSortSeq(nodes, <)).sccs

\* A cycle is serious when it has a domain module or three members.
HighCycles(cycles, domain) == {c \in cycles : c \cap domain # {} \/ Cardinality(c) >= 3}

-----------------------------------------------------------------------------
(* Distill and Score. Every module of the tree has a card. *)

FanIn(in, m)  == MapThenSumSet(LAMBDA k : in.edge[k][m], DOMAIN in.edge)
FanOut(in, m) == MapThenSumSet(LAMBDA k : in.edge[m][k], DOMAIN in.edge)

\* isSharedStateHub, with sharedStateHubFanIn = 2. The modules of a
\* convention-routed tree, whose state the analyzer cannot see, count in
\* in.state.
SharedStateHubs(in) == {m \in in.state : FanIn(in, m) >= 2}

\* The cards kept in full: the TopK of the highest weighted degree, and of the
\* smaller name among equals.
SampledCards(in) ==
  LET degree(m) == FanIn(in, m) + FanOut(in, m)
      before(k, m) == degree(k) > degree(m) \/ (degree(k) = degree(m) /\ k < m)
  IN  {m \in DOMAIN in.edge : Cardinality({k \in DOMAIN in.edge : before(k, m)}) < TopK}

\* Many functions and shared state, among the cards kept in full.
GodModules(in) == SampledCards(in) \cap in.big \cap SharedStateHubs(in)

\* math.Round(a / b) of the code, in exact arithmetic.
Round(a, b) == (2 * a + b) \div (2 * b)

\* domainPresencePenalty: 40 at a ratio of 0, falling to 0 at a ratio of 0.30.
DomainPenalty(domain, infra) ==
  LET d == Cardinality(domain)
      n == d + Cardinality(infra)
  IN  IF d = 0 THEN 40
      ELSE IF 10 * d >= 3 * n THEN 0 ELSE Round(40 * (3 * n - 10 * d), 3 * n)

ClusterPenalty(clusters) ==
  LET n == Cardinality(clusters)
  IN  IF n = 0 THEN 25 ELSE IF n = 1 THEN 15 ELSE IF n = 2 THEN 5 ELSE 0

\* hubSeverityPenalty: both of its ramps are 40 times the ratio
\* fanIn / (nodes + fanIn), and from a ratio of one half on it is 20.
HubPenalty(in) ==
  IF SharedStateHubs(in) = {} THEN 0
  ELSE LET worst == Max({FanIn(in, m) : m \in SharedStateHubs(in)})
           nodes == Max({1, Cardinality(AllModules(in))})
       IN  IF worst >= nodes THEN 20 ELSE Round(40 * worst, nodes + worst)

GodPenalty(in) == Min({10, 5 * Cardinality(GodModules(in))})

RoutingPenalty(in) == IF in.blueprints = 1 /\ in.routes THEN 5 ELSE 0

ScoreValue(in, domain, infra, clusters) ==
  Max({0, 100 - DomainPenalty(domain, infra) - ClusterPenalty(clusters)
              - HubPenalty(in) - GodPenalty(in) - RoutingPenalty(in)})

Band(value) == IF value >= 70 THEN "good" ELSE IF value >= 40 THEN "medium" ELSE "bad"

\* The typed blockers, by the last part of their key.
Blockers(in, domain, clusters, cycles) ==
  {b \in {"no_domain_layer", "no_service_boundaries", "shared_state",
          "god_modules", "cycles"} :
     CASE b = "no_domain_layer"       -> domain = {}
       [] b = "no_service_boundaries" -> clusters = {}
       [] b = "shared_state" -> \E m \in SharedStateHubs(in) : FanIn(in, m) >= 10
       [] b = "god_modules"  -> GodModules(in) # {}
       [] b = "cycles"       -> HighCycles(cycles, domain) # {}}

Score(in, domain, infra, clusters) ==
  LET cycles == DetectCycles(in)
      value  == ScoreValue(in, domain, infra, clusters)
  IN  [value |-> value, band |-> Band(value), cycles |-> cycles,
       blockers |-> Blockers(in, domain, clusters, cycles)]
=============================================================================
