----------------------------- MODULE ModelAdvice -----------------------------
(***************************************************************************)
(* What is built on the two assessments of a source tree with the help of  *)
(* a language model: the verdict that the analysis service keeps with the  *)
(* summary and the one that the migration service keeps with the           *)
(* migration, the restructuring roadmap with its action plan, and on top   *)
(* of that the enriched steps, the blueprint and the exported plan.        *)
(*                                                                         *)
(* The model is asked over HTTP.  A call fails, or yields text that is not *)
(* the JSON that was asked for, or yields an answer that fits the schema   *)
(* and says anything at all.  Prose, tokens and cost are left out.         *)
(***************************************************************************)
EXTENDS StructuralAssessment

CONSTANT Advised   \* the trees for which advice is asked

VARIABLES
  deep,       \* deep_analysis_available of the summary
  summary,    \* what the summary stores: its score, and whether it has an assessment
  migration,  \* the migration: state, assessment, roadmap, enrichment, blueprint
  ask,        \* the model call under way
  exported    \* the last action plan that was exported

adviceVars == <<deep, summary, migration, ask, exported>>
allVars == <<vars, adviceVars>>

NoScore      == [value |-> -1, signals |-> << >>]
NoAssessment == [verdict |-> "", score |-> NoScore, recs |-> {}, basis |-> << >>]
NoRoadmap    == [verdict |-> "", score |-> -1, plan |-> << >>, made |-> FALSE]
NoAdvice     == {}
NoAsk        == [op |-> "none", try |-> 0, told |-> << >>]
NoExport     == [how |-> FALSE, steps |-> << >>]

-----------------------------------------------------------------------------
(* The score in the form that is stored, and what follows from it. *)

SignalNames ==
  <<"domain_presence", "cluster_count", "hub_severity", "god_modules", "routing_layout">>

\* The breakdown of a score: the penalty of every signal.
Signals(p) ==
  [domain_presence |-> DomainPenalty(out[p].domain, out[p].infra),
   cluster_count   |-> ClusterPenalty(out[p].clusters),
   hub_severity    |-> HubPenalty(tree),
   god_modules     |-> GodPenalty(tree),
   routing_layout  |-> RoutingPenalty(tree)]

\* ToProtoMigrabilityScore.
StoredScore(p) ==
  [value |-> ScoreValue(tree, out[p].domain, out[p].infra, out[p].clusters),
   signals |-> Signals(p)]

\* Stage 6d scores a tree that has imports.
ScoreOfAnalysis == IF AllModules(tree) = {} THEN NoScore ELSE StoredScore("analysis")

\* The import cycles of the trees for which advice is asked.
CyclesOf == [t \in Advised |-> DetectCycles(t)]

KnownBlockers(p) == Blockers(tree, out[p].domain, out[p].clusters, CyclesOf[tree])

\* The findings of high severity.
HighFindings(p) ==
  Cardinality({m \in SharedStateHubs(tree) : FanIn(tree, m) >= 10})
    + Cardinality(GodModules(tree))
    + Cardinality(HighCycles(CyclesOf[tree], out[p].domain))

\* ComputeTypedRecommendations: the next steps for a verdict. A verdict that is
\* none of the three has none.
TypedRecommendations(verdict, p) ==
  CASE verdict = "MIGRABLE" ->
         {"start_migration", "review_coupling_findings", "validate_architecture"}
           \cup IF HighFindings(p) > 0 THEN {"resolve_high_findings"} ELSE {}
    [] verdict = "PARTIAL" ->
         {"start_low_coupling", "validate_each_service"}
           \cup IF HighFindings(p) > 0 THEN {"resolve_high_first"} ELSE {}
    [] verdict = "NOT_MIGRABLE" ->
         {"repeat_analysis"}
           \cup {CASE b = "shared_state" -> "eliminate_shared_state"
                   [] b = "god_modules"  -> "decompose_god_modules"
                   [] b = "cycles"       -> "break_cycles" :
                 b \in KnownBlockers(p) \cap {"shared_state", "god_modules", "cycles"}}
    [] OTHER -> {}

-----------------------------------------------------------------------------
(* What the model is told. *)

hubCouplingLevel(n) ==
  IF n >= 15 THEN "codebase-wide" ELSE IF n >= 8 THEN "very-high"
  ELSE IF n >= 4 THEN "high" ELSE "moderate"

couplingLevel(n) ==
  IF n >= 25 THEN "very-high" ELSE IF n >= 12 THEN "high"
  ELSE IF n >= 5 THEN "moderate" ELSE IF n > 0 THEN "low" ELSE "isolated"

edgeWeightLevel(n) ==
  IF n >= 10 THEN "very-high" ELSE IF n >= 5 THEN "high"
  ELSE IF n >= 2 THEN "moderate" ELSE "low"

penaltyLevel(n) == IF n >= 20 THEN "critical" ELSE IF n >= 10 THEN "major" ELSE "moderate"
impactLevel(n)  == IF n >= 20 THEN "high" ELSE IF n >= 10 THEN "significant" ELSE "moderate"

HubLevels  == [m \in SharedStateHubs(tree) |-> hubCouplingLevel(FanIn(tree, m))]
CardLevels == [m \in SampledCards(tree) |-> couplingLevel(FanIn(tree, m) + FanOut(tree, m))]

\* The digest of a tree that the adapters distill anew from what the summary
\* stores: the graph, the classification, the clusters and the cards.
Digest ==
  [clusters |-> out["design"].clusters, low |-> out["design"].low,
   domain |-> out["design"].domain, tests |-> out["design"].tests,
   hubs |-> HubLevels, cards |-> CardLevels]

\* buildAssessmentPrompt: levels instead of numbers, and the structural blockers
\* that the answer is not to repeat.
AssessmentPrompt ==
  Digest @@ [singleBlueprint |-> tree.blueprints = 1, known |-> KnownBlockers("design")]

\* Generate classifies and clusters for the blueprint once more, and moves what
\* the guardrail took from the domain to the infrastructure.
BlueprintInfra ==
  out["design"].infra \cup (DetectForDesign(tree).domain \ out["design"].domain)

\* buildBlueprintPrompt: the digest and the blocking steps of the roadmap.
BlueprintPrompt ==
  Digest @@
  [infra |-> BlueprintInfra,
   edges |-> [e \in {e \in Modules \X Modules : tree.edge[e[1]][e[2]] > 0} |->
                edgeWeightLevel(tree.edge[e[1]][e[2]])],
   blocking |-> {i \in DOMAIN migration.roadmap.plan : migration.roadmap.plan[i].blocking}]

\* buildEnrichmentPrompt: the problems and the steps, with levels for penalties.
EnrichmentPrompt ==
  LET plan == migration.roadmap.plan IN
  [verdict |-> migration.roadmap.verdict,
   problems |-> {<<plan[i].signal, penaltyLevel(plan[i].impact)>> : i \in DOMAIN plan},
   steps |-> [i \in DOMAIN plan |-> [kind |-> plan[i].kind, depends |-> plan[i].depends,
                improvement |-> impactLevel(plan[i].impact), blocking |-> plan[i].blocking]]]

-----------------------------------------------------------------------------
(* The model call: completeJSONDecomp and enricherComplete. *)

Ask(op, told) == ask.op = "none" /\ ask' = [op |-> op, try |-> 1, told |-> told]

\* Complete fails: no connection, a status other than 200, a body that is not
\* what the API promises. There is no retry for that, and nothing is stored.
ModelFails ==
  /\ ask.op # "none"
  /\ ask' = NoAsk
  /\ UNCHANGED <<deep, summary, migration, exported>>

\* The text is not JSON, fences removed: one more call says so, and the second
\* such text is an error.
ModelRambles ==
  /\ ask.op # "none"
  /\ ask' = IF ask.try = 1 THEN [ask EXCEPT !.try = 2] ELSE NoAsk
  /\ UNCHANGED <<deep, summary, migration, exported>>

\* The verdicts of the schema; the answer is not compared with them.
Verdicts == {"MIGRABLE", "PARTIAL", "NOT_MIGRABLE"}

\* The assessment that both assessors build around a verdict.
Assessed(verdict) ==
  [verdict |-> verdict, score |-> StoredScore("design"),
   recs |-> TypedRecommendations(verdict, "design"), basis |-> ask.told]

\* Without structural data the model is not asked, and there is no score.
Incomplete == [NoAssessment EXCEPT !.verdict = "INCOMPLETE_NO_STRUCTURAL_DATA"]

-----------------------------------------------------------------------------
(* The assessment of a summary (analysis service). *)

\* The flag that the analysis stored with the summary.
LoadDeepAnalysisAvailable == deep

EvaluateMigrability ==
  /\ ask.op = "none"
  /\ IF LoadDeepAnalysisAvailable THEN Ask("evaluate", AssessmentPrompt) ELSE UNCHANGED ask
  /\ UNCHANGED <<deep, summary, migration, exported>>

UpdateMigrabilityScore(s, score) == [s EXCEPT !.score = score]
UpdateMigrabilityAssessment(s) == [s EXCEPT !.assessed = TRUE]

\* The score is stored first and the assessment second. The second write may fail
\* by itself; when the first does, the second is not tried.
EvaluateAnswered ==
  /\ ask.op = "evaluate"
  /\ ask' = NoAsk
  /\ LET scored == UpdateMigrabilityScore(summary, StoredScore("design"))
     IN  summary' \in {scored, UpdateMigrabilityAssessment(scored)}
  /\ UNCHANGED <<deep, migration, exported>>

(* The assessment of a migration (migration service). *)

\* Mutant: the canonical value is taken over, the signals are not.
CanonicalValue(own, stored) ==
  IF stored.value >= 0 THEN [own EXCEPT !.value = stored.value] ELSE own

\* The score of the summary, when it has one, replaces the assessor's own.
CanonicalScore(own, stored) == IF stored.value >= 0 THEN stored ELSE own

\* The score of the summary as another service reads it. The read decodes every
\* field; a field that does not decode, or a service that does not answer, is as
\* good as a summary without a score.
ScoreAsRead == {NoScore, summary.score}

Canonical(a) == {[a EXCEPT !.score = CanonicalScore(a.score, s)] : s \in ScoreAsRead}

AssessMigrability ==
  /\ ask.op = "none"
  /\ IF LoadDeepAnalysisAvailable
     THEN Ask("assess", AssessmentPrompt) /\ UNCHANGED migration
     ELSE \E a \in Canonical(Incomplete) : migration' = [migration EXCEPT !.assessment = a]
          /\ UNCHANGED ask
  /\ UNCHANGED <<deep, summary, exported>>

AssessAnswered ==
  /\ ask.op = "assess"
  /\ ask' = NoAsk
  /\ \E verdict \in Verdicts : \E a \in Canonical(Assessed(verdict)) :
       migration' = [migration EXCEPT !.assessment = a]
  /\ UNCHANGED <<deep, summary, exported>>

-----------------------------------------------------------------------------
(* The restructuring roadmap. *)

\* The worst hub, the first of equals, is read from the detail of its signal.
parseHubModule ==
  LET fanIn(m) == FanIn(tree, m)
  IN  {m \in SharedStateHubs(tree) :
         \A k \in SharedStateHubs(tree) : fanIn(k) < fanIn(m) \/ (fanIn(k) = fanIn(m) /\ k >= m)}

\* So are the god modules.
parseGodModules == GodModules(tree)

\* signalToActionItem: the step for a signal and the modules it names.
signalToActionItem(signal) ==
  CASE signal = "domain_presence" ->
         [kind |-> "EXTRACT_DOMAIN", blocking |-> TRUE, subject |-> out["analysis"].infra]
    [] signal = "hub_severity" ->
         [kind |-> "DECOUPLE_STATE", blocking |-> TRUE,
          subject |-> parseHubModule]
    [] signal = "god_modules" ->
         [kind |-> "SPLIT_GOD_MODULE", blocking |-> FALSE, subject |-> parseGodModules]
    [] signal = "cluster_count" ->
         [kind |-> "DEFINE_BOUNDARIES", blocking |-> TRUE, subject |-> {}]
    [] signal = "routing_layout" ->
         [kind |-> "ADD_ROUTING", blocking |-> FALSE, subject |-> {}]

\* buildActionPlan: a step for every signal with a penalty, the largest penalty
\* first. Boundaries come after a domain layer, routing after boundaries: when
\* that step is in the plan, it is named, whether it comes before or after.
buildActionPlan(signals) ==
  LET active == {i \in DOMAIN SignalNames : signals[SignalNames[i]] > 0}
      pen(i) == signals[SignalNames[i]]
      order(i) == Cardinality({k \in active : pen(k) > pen(i) \/ (pen(k) = pen(i) /\ k <= i)})
      after(i) == CASE SignalNames[i] = "cluster_count"  -> {1} \cap active
                    [] SignalNames[i] = "routing_layout" -> {2} \cap active
                    [] OTHER -> {}
      item(i) == signalToActionItem(SignalNames[i]) @@
                   [signal |-> SignalNames[i], impact |-> pen(i),
                    depends |-> IF after(i) = {} THEN 0 ELSE order(CHOOSE k \in after(i) : TRUE)]
  IN  [n \in 1 .. Cardinality(active) |-> item(CHOOSE i \in active : order(i) = n)]

\* assembleRoadmap.
assembleRoadmap(a) ==
  [verdict |-> a.verdict, score |-> a.score.value, made |-> TRUE,
   plan |-> IF a.score.value >= 0 THEN buildActionPlan(a.score.signals) ELSE << >>]

\* syntheticAssessmentFromScore: without an assessment the score of the summary
\* stands in for one, and without that a marker does.
syntheticAssessment(score) ==
  IF score.value >= 0
  THEN [NoAssessment EXCEPT !.verdict = "NO_SERVICE_BOUNDARIES", !.score = score]
  ELSE [NoAssessment EXCEPT !.verdict = "UNAVAILABLE"]

Diagnosis ==
  IF migration.assessment.verdict # "" THEN {migration.assessment}
  ELSE {syntheticAssessment(s) : s \in ScoreAsRead}

GenerateRestructuringRoadmap ==
  /\ migration.state = "AWAITING_APPROVAL"
  /\ migration.assessment.verdict = "NOT_MIGRABLE" \/ out["design"].clusters = {}
  /\ \E a \in Diagnosis :
       migration' = [migration EXCEPT !.roadmap = assembleRoadmap(a),
                                      !.state = "RESTRUCTURING_READY"]
  /\ UNCHANGED <<deep, summary, ask, exported>>

\* What needs a roadmap with at least one step.
HasPlan == migration.state = "RESTRUCTURING_READY" /\ migration.roadmap.plan # << >>

EnrichRoadmap ==
  /\ HasPlan /\ Ask("enrich", EnrichmentPrompt)
  /\ UNCHANGED <<deep, summary, migration, exported>>

\* The steps the model wrote about are stored as they are, in number and order.
EnrichAnswered ==
  /\ ask.op = "enrich"
  /\ ask' = NoAsk
  /\ \E orders \in {DOMAIN migration.roadmap.plan, {Len(migration.roadmap.plan) + 1}} :
       migration' = [migration EXCEPT !.enrichment = orders]
  /\ UNCHANGED <<deep, summary, exported>>

GenerateBlueprint ==
  /\ HasPlan /\ Ask("blueprint", BlueprintPrompt)
  /\ UNCHANGED <<deep, summary, migration, exported>>

\* The services of the answer are stored as they are, modules nobody knows included.
BlueprintAnswered ==
  /\ ask.op = "blueprint"
  /\ ask' = NoAsk
  /\ \E services \in {out["design"].clusters, {{0}}} :
       migration' = [migration EXCEPT !.blueprint = services]
  /\ UNCHANGED <<deep, summary, exported>>

\* resolveProfile: only for Flask is there a profile.
resolveProfile(stack) == stack = "flask"

\* The kinds of step that the profile has instructions for.
pythonFlaskProfile ==
  {"EXTRACT_DOMAIN", "DEFINE_BOUNDARIES", "DECOUPLE_STATE", "SPLIT_GOD_MODULE", "ADD_ROUTING"}

\* BuildActionPlanPrompt: the steps with their prerequisites, with instructions
\* when there is a profile and without when there is none.
BuildActionPlanPrompt(plan, profile) ==
  [how |-> profile,
   steps |-> [i \in DOMAIN plan |->
                [kind |-> plan[i].kind, prerequisite |-> plan[i].depends,
                 blocking |-> plan[i].blocking, subject |-> plan[i].subject,
                 how |-> profile /\ plan[i].kind \in pythonFlaskProfile]]]

\* The stack is read from the summary; a failure of that counts as no stack.
ExportActionPlanPrompt ==
  /\ HasPlan
  /\ \E stack \in {"flask", "other", ""} :
       exported' = BuildActionPlanPrompt(migration.roadmap.plan, resolveProfile(stack))
  /\ UNCHANGED <<deep, summary, migration, ask>>

-----------------------------------------------------------------------------

AdviceInit ==
  /\ Init
  /\ deep = TRUE
  /\ summary = [score |-> NoScore, assessed |-> FALSE]
  /\ migration = [state |-> "DESIGNING", assessment |-> NoAssessment, roadmap |-> NoRoadmap,
                  enrichment |-> NoAdvice, blueprint |-> NoAdvice]
  /\ ask = NoAsk
  /\ exported = NoExport

EngineStep == Next /\ UNCHANGED adviceVars

\* The analysis stores its score, the decomposition its plan. A tree without
\* imports has structural data when there is a module card.
StoreResults ==
  /\ path = "done" /\ path' = "stored"
  /\ deep' \in IF AllModules(tree) = {} THEN BOOLEAN ELSE {TRUE}
  /\ summary' = [summary EXCEPT !.score = ScoreOfAnalysis]
  /\ migration' = [migration EXCEPT !.state = "AWAITING_APPROVAL"]
  /\ UNCHANGED <<clusterVars, tree, cls, out, ask, exported>>

AdviceStep ==
  /\ path = "stored" /\ tree \in Advised
  /\ \/ ModelFails \/ ModelRambles
     \/ EvaluateMigrability \/ EvaluateAnswered
     \/ AssessMigrability \/ AssessAnswered
     \/ GenerateRestructuringRoadmap
     \/ EnrichRoadmap \/ EnrichAnswered
     \/ GenerateBlueprint \/ BlueprintAnswered
     \/ ExportActionPlanPrompt
  /\ UNCHANGED vars

AdviceNext == EngineStep \/ StoreResults \/ AdviceStep

\* The engine is a sequential computation; nobody has to ask for advice.
AdviceSpec == AdviceInit /\ [][AdviceNext]_allVars /\ WF_allVars(EngineStep)

-----------------------------------------------------------------------------

\* The score, the plan and the verdict of a roadmap tell one story, although the
\* score may come from the summary or from the assessor, which disagree on trees
\* with PHP modules, and either may be unreadable when the other is written. The
\* impacts of the steps add up to what the score lacks. And on a tree without PHP
\* modules the steps are about what the model was told when it gave the verdict:
\* no domain, no services, god modules.
PlanAccountsForScore ==
  LET plan  == migration.roadmap.plan
      hasStep(kind, impact) == \E i \in DOMAIN plan : plan[i].kind = kind /\ plan[i].impact >= impact
      told  == migration.assessment.basis
  IN  migration.roadmap.made =>
        /\ IF migration.roadmap.score < 0 THEN plan = << >>
           ELSE 100 - migration.roadmap.score
                  = MapThenSumSet(LAMBDA i : plan[i].impact, DOMAIN plan)
        /\ migration.roadmap.verdict \in Verdicts /\ tree.php = {} =>
             /\ told.domain = {} <=> hasStep("EXTRACT_DOMAIN", 40)
             /\ told.clusters = {} <=> hasStep("DEFINE_BOUNDARIES", 25)
             /\ "god_modules" \in told.known <=> hasStep("SPLIT_GOD_MODULE", 5)
=============================================================================
