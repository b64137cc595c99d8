------------------------ MODULE StructuralAssessment ------------------------
(***************************************************************************)
(* The structural assessment of one source tree, on the two paths of the   *)
(* system: once when the tree is analyzed (LouvainMigrabilityScorer.Score, *)
(* over the classification of the analysis worker), and once when its      *)
(* summary is assessed or decomposed (the two assessors and stages 1 to 3  *)
(* of the decomposition pipeline, over a classification of their own).     *)
(* Both cluster, apply the coherence guardrail, distill and score.         *)
(***************************************************************************)
EXTENDS LouvainClusterer, MigrabilityScore

CONSTANT Trees   \* the source trees considered

VARIABLES
  tree,   \* the tree assessed
  path,   \* the path in progress
  cls,    \* the classification that the path works with
  out     \* what the paths that have ended have come to

vars == <<clusterVars, tree, path, cls, out>>

Paths == {"analysis", "design"}
NoClass == [domain |-> {}, infra |-> {}, tests |-> {}, fallback |-> FALSE]

Init ==
  /\ ClusterInit
  /\ tree \in Trees
  /\ path = "analysis" /\ cls = NoClass
  /\ out = <<>>

\* A path classifies the modules and calls Cluster on those of the domain.
Begin ==
  /\ path \in Paths
  /\ cls' = IF path = "analysis" THEN ClassifyForAnalysis(tree) ELSE DetectForDesign(tree)
  /\ StartClustering(cls'.domain, tree.edge, tree.group)
  /\ UNCHANGED <<tree, path, out>>

ClusterOn == ClusterStep /\ UNCHANGED <<tree, path, cls, out>>

\* IsIncoherentFallback: fewer than half of the clusters have an import inside.
Incoherent(clusters) ==
  2 * Cardinality({c \in clusters : \E a, b \in c : tree.edge[a][b] > 0})
    < Cardinality(clusters)

\* ApplyCoherenceGuardrail: a fallback classification whose clusters are residue
\* has no boundaries and no domain.
GuardrailFires(clusters) == cls.fallback /\ Incoherent(clusters)

Guarded(clusters) ==
  IF GuardrailFires(clusters)
  THEN [clusters |-> {}, domain |-> {}, low |-> TRUE]
  ELSE [clusters |-> clusters, domain |-> cls.domain,
        low |-> cls.fallback \/ (cls.domain # {} /\ LowConfidence(orig, comm))]

\* The infrastructure that a path reports: an analysis stores its classification
\* with the modules that the guardrail took from the domain. Score looks at the
\* infrastructure only when there is a domain.
ReportedInfra(domain) ==
  cls.infra \cup IF path = "analysis" THEN cls.domain \ domain ELSE {}

\* The guardrail ends a path; Distill and Score are functions of what it leaves.
Assess ==
  /\ step = "clustered"
  /\ LET g == Guarded(Clusters(comm))
     IN  out' = out @@ (path :>
           [clusters |-> g.clusters, low |-> g.low, domain |-> g.domain,
            infra |-> ReportedInfra(g.domain), tests |-> cls.tests])
  /\ path' = IF path = "analysis" THEN "design" ELSE "done"
  /\ cls' = NoClass
  /\ step' = "idle" /\ orig' = <<>> /\ aug' = <<>> /\ comm' = <<>>
  /\ todo' = {} /\ moved' = FALSE /\ alone' = {}
  /\ UNCHANGED tree

\* The score of a path that has ended.
ScoreOf(p) == Score(tree, out[p].domain, out[p].infra, out[p].clusters)

Next == Begin \/ ClusterOn \/ Assess

\* The engine is a sequential computation: a step that is enabled is taken.
Spec == Init /\ [][Next]_vars /\ WF_vars(Next)

-----------------------------------------------------------------------------

\* The cycles found are the strongly connected components of the imports: the
\* largest sets of at least two modules of which no proper part imports nothing
\* from the rest.
CyclesAreExact ==
  LET connected(S) ==
        \A part \in SUBSET S \ {{}, S} :
          \E a \in part, b \in S \ part : tree.edge[a][b] > 0
      knots == {S \in SUBSET Modules : Cardinality(S) > 1 /\ connected(S)}
  IN  path = "done" =>
        \A p \in Paths :
          ScoreOf(p).cycles = {S \in knots : \A L \in knots : S \subseteq L => L = S}

\* A tree without PHP modules comes to the same clusters and the same score
\* when it is analyzed and when it is assessed or decomposed: two runs of Cluster
\* on one graph agree whatever order the runtime picks for the maps that they range
\* over.  (AssessMigrability, service.go:355, expects a "different cluster partition
\* (map-iteration order in absorbSingletons)"; but that function finds nothing left
\* to absorb, see SingletonsAreIsolated.)
PathsAgreeWithoutPhp ==
  path = "done" /\ tree.php \cap AllModules(tree) = {} =>
    /\ out["analysis"].clusters = out["design"].clusters
    /\ ScoreOf("analysis") = ScoreOf("design")

\* Clustering and scoring end: neither of the two loops that run until a pass
\* moves nothing goes on for ever.
Terminates == <>(path = "done")
=============================================================================
