-------------------------- MODULE LouvainClusterer --------------------------
(***************************************************************************)
(* The deterministic clusterer of the decomposition engine: one Louvain    *)
(* phase over the domain modules, biased towards their blueprint groups,   *)
(* followed by the absorption of communities of one module.                *)
(*                                                                         *)
(* Modules are numbered in the order of their names, and a community is    *)
(* labelled by the number of a group, again in the order of the names, so  *)
(* that the comparisons of strings in the code are comparisons of numbers. *)
(* Weights are sums of whole numbers, exact in the code's float64; a gain  *)
(* is compared here after multiplication by 2*m*m, so without rounding.    *)
(***************************************************************************)
EXTENDS Integers, FiniteSets, FiniteSetsExt, Functions

CONSTANT Modules

ASSUME ModulesAssumption == Modules \subseteq Nat /\ IsFiniteSet(Modules)

VARIABLES
  step,    \* where Cluster stands
  orig,    \* the undirected projection of the domain graph
  aug,     \* orig with the affinity edges between members of a group
  comm,    \* the community of every domain module
  todo,    \* the modules that the pass in progress has still to visit
  moved,   \* whether that pass has moved a module
  alone    \* the modules that were a community of one when the pass began

clusterVars == <<step, orig, aug, comm, todo, moved, alone>>

\* blueprintBiasMultiplier.
BiasMultiplier == 4

\* addEdge: both directions of an import add to one undirected edge, and an
\* import of a module by itself adds nothing.
Projection(D, edge) ==
  [a \in D |-> [b \in D |-> IF a = b THEN 0 ELSE edge[a][b] + edge[b][a]]]

\* The affinity edges are BiasMultiplier times the heaviest edge, or times 1
\* when there is no edge.
Augmented(w, group) ==
  LET heaviest == Max({1} \cup {w[a][b] : a, b \in DOMAIN w})
  IN  [a \in DOMAIN w |-> [b \in DOMAIN w |->
         w[a][b] + IF a # b /\ group[a] = group[b]
                   THEN BiasMultiplier * heaviest ELSE 0]]

Degree(w, n) == SumFunctionOnSet(w[n], DOMAIN w)

TwoM(w) == SumFunction([n \in DOMAIN w |-> Degree(w, n)])

Members(c) == {n \in DOMAIN comm : comm[n] = c}

\* The weight of the edges from n to a set of modules, and its total degree.
EdgesTo(w, n, S) == SumFunctionOnSet(w[n], S \ {n})
DegreeOf(w, S) == SumFunction([b \in S |-> Degree(w, b)])

\* Mutant: the community that n leaves is weighed with n in it.
GainWithSelf(n, c) ==
  LET here == Members(comm[n])
  IN  TwoM(aug) * (EdgesTo(aug, n, Members(c)) - EdgesTo(aug, n, here))
        - Degree(aug, n) * (DegreeOf(aug, Members(c)) - DegreeOf(aug, here))

\* delta of the code times 2*m*m: what modularity gains when n leaves its
\* community for c.
Gain(n, c) ==
  LET here == Members(comm[n])
  IN  TwoM(aug) * (EdgesTo(aug, n, Members(c)) - EdgesTo(aug, n, here))
        - Degree(aug, n) * (DegreeOf(aug, Members(c)) - DegreeOf(aug, here \ {n}))

\* The communities next to n, other than its own.
Candidates(n) == {comm[b] : b \in {b \in DOMAIN comm : aug[n][b] > 0}} \ {comm[n]}

\* Mutant: a community that is as good is preferred to the present one.
BestCommunityOnTies(n) ==
  LET best == Max({0} \cup {Gain(n, c) : c \in Candidates(n)})
      as   == {c \in Candidates(n) : Gain(n, c) = best}
  IN  IF as = {} THEN comm[n] ELSE Min(as)

\* The community with the largest gain, the smallest label among equals; the
\* community of n itself stands for a gain of 0. The order in which the code
\* ranges over its map of candidates does not matter.
BestCommunity(n) ==
  LET gain == [c \in Candidates(n) \cup {comm[n]} |->
                 IF c = comm[n] THEN 0 ELSE Gain(n, c)]
      best == Max({gain[c] : c \in DOMAIN gain})
  IN  Min({c \in DOMAIN gain : gain[c] = best})

\* Neighbours of n outside its community, and the heaviest edge to one.
Outside(n) == {b \in DOMAIN comm : orig[n][b] > 0 /\ comm[b] # comm[n]}
Heaviest(n) == {b \in Outside(n) : \A d \in Outside(n) : orig[n][b] >= orig[n][d]}

\* A module that shares its community with no other.
Alone(f) == {n \in DOMAIN f : \A b \in DOMAIN f : b # n => f[b] # f[n]}

ClusterInit ==
  /\ step = "idle" /\ orig = <<>> /\ aug = <<>> /\ comm = <<>>
  /\ todo = {} /\ moved = FALSE /\ alone = {}

\* A call of Cluster. Without domain modules there is nothing to cluster, and
\* without edges the seeds of louvainPhase1 are its result.
StartClustering(D, edge, group) ==
  /\ step = "idle"
  /\ comm' = [n \in D |-> group[n]]
  /\ orig' = Projection(D, edge)
  /\ aug' = Augmented(orig', group)
  /\ moved' = FALSE
  /\ step' = IF D = {} THEN "clustered"
             ELSE IF TwoM(aug') = 0 THEN "absorb" ELSE "louvain"
  /\ todo' = D
  /\ alone' = Alone(comm')

\* One visit of louvainPhase1: modules are visited in the order of their names.
MoveModule ==
  /\ step = "louvain" /\ todo # {}
  /\ LET n == Min(todo)
     IN  /\ comm' = [comm EXCEPT ![n] = BestCommunity(n)]
         /\ moved' = (moved \/ comm'[n] # comm[n])
         /\ todo' = todo \ {n}
  /\ UNCHANGED <<step, orig, aug, alone>>

\* Mutant: one pass is taken to be enough.
EndPassOnce ==
  /\ step = "louvain" /\ todo = {}
  /\ step' = "absorb"
  /\ todo' = DOMAIN comm /\ moved' = FALSE /\ alone' = Alone(comm)
  /\ UNCHANGED <<orig, aug, comm>>

\* Mutant: one pass is taken to be enough, and nothing is absorbed after it.
EndPassAndReturn ==
  /\ step = "louvain" /\ todo = {}
  /\ step' = "clustered"
  /\ todo' = {} /\ moved' = FALSE /\ alone' = Alone(comm)
  /\ UNCHANGED <<orig, aug, comm>>

\* A pass that moved nothing ends louvainPhase1, and absorbSingletons begins
\* with the sizes of the communities as they are now.
EndPass ==
  /\ step = "louvain" /\ todo = {}
  /\ step' = IF moved THEN "louvain" ELSE "absorb"
  /\ todo' = DOMAIN comm /\ moved' = FALSE /\ alone' = Alone(comm)
  /\ UNCHANGED <<orig, aug, comm>>

\* One visit of absorbSingletons. The code ranges over a map, so that the
\* order of the visits, and the choice between neighbours of equal weight, is
\* the runtime's. Sizes are those of the beginning of the pass.
AbsorbModule(n) ==
  /\ step = "absorb" /\ n \in todo
  /\ todo' = todo \ {n}
  /\ IF n \in alone /\ Outside(n) # {}
     THEN /\ \E b \in Heaviest(n) : comm' = [comm EXCEPT ![n] = comm[b]]
          /\ moved' = TRUE
     ELSE UNCHANGED <<comm, moved>>
  /\ UNCHANGED <<step, orig, aug, alone>>

EndAbsorbPass ==
  /\ step = "absorb" /\ todo = {}
  /\ step' = IF moved THEN "absorb" ELSE "clustered"
  /\ todo' = IF moved THEN DOMAIN comm ELSE {}
  /\ moved' = FALSE /\ alone' = Alone(comm)
  /\ UNCHANGED <<orig, aug, comm>>

ClusterStep ==
  \/ MoveModule
  \/ EndPass
  \/ \E n \in todo : AbsorbModule(n)
  \/ EndAbsorbPass

ClusterNext ==
  \/ \E D \in SUBSET Modules :
       \E edge \in [Modules -> [Modules -> Nat]], group \in [Modules -> Nat] :
         StartClustering(D, edge, group)
  \/ ClusterStep

ClusterSpec == ClusterInit /\ [][ClusterNext]_clusterVars

-----------------------------------------------------------------------------
\* What one community adds to the modularity: the edges inside it, in both
\* directions, against the square of its degree.
Inside(w, S) == SumFunction([n \in S |-> EdgesTo(w, n, S)])
Share(w, S) == TwoM(w) * Inside(w, S) - DegreeOf(w, S) * DegreeOf(w, S)

\* Newman-Girvan modularity of the communities f on the graph w, times the
\* square of twice the total weight (computeModularity).
Class(f, c) == {n \in DOMAIN f : f[n] = c}
Modularity(w, f) == SumFunction([c \in {f[n] : n \in DOMAIN f} |-> Share(w, Class(f, c))])

\* LowConfidence: modularity on the original graph below 0.25, and 0 when it
\* has no edges.
LowConfidence(w, f) == 4 * Modularity(w, f) < TwoM(w) * TwoM(w) \/ TwoM(w) = 0

Clusters(f) == {{n \in DOMAIN f : f[n] = f[k]} : k \in DOMAIN f}

\* Every move of louvainPhase1 keeps or raises the modularity of the graph it
\* works on: the gain that the code computes from the edges and degrees of two
\* communities is the change of modularity, and never of the wrong sign.
ModularityNeverDrops ==
  [][step = "louvain" => Modularity(aug, comm') >= Modularity(aug, comm)]_clusterVars

\* When louvainPhase1 ends, no module would raise modularity by joining the
\* community of a neighbour: a pass without a move is a local optimum.
Settled ==
  \A n \in DOMAIN comm : \A b \in {b \in DOMAIN comm : aug[n][b] > 0} :
    Modularity(aug, [comm EXCEPT ![n] = comm[b]]) <= Modularity(aug, comm)
LouvainIsSettled == [][step = "louvain" /\ step' # "louvain" => Settled]_clusterVars

\* A cluster of one module is a module without imports in the domain graph: the
\* absorption of singletons repeats until there is no other left.
SingletonsAreIsolated ==
  step = "clustered" =>
    \A n \in Alone(comm) : \A b \in DOMAIN comm : orig[n][b] = 0
=============================================================================
