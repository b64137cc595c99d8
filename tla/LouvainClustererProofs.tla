----------------------- MODULE LouvainClustererProofs -----------------------
(****************************************************************************)
(* What the clusterer guarantees of the clusters, for every graph and every *)
(* blueprint grouping. First the absorption of singletons, whatever the     *)
(* first phase came to; then louvainPhase1 itself: sums over finite sets,   *)
(* what one module adds to the modularity of a community, the gain of the   *)
(* code as the change of modularity, and what a pass without a move shows.  *)
(****************************************************************************)
EXTENDS LouvainClusterer, FiniteSetTheorems, WellFoundedInduction, TLAPS

\* The undirected projection: weights of pairs, and none of a module with itself.
GraphOK ==
  /\ DOMAIN orig = DOMAIN comm
  /\ \A a \in DOMAIN comm : orig[a] \in [DOMAIN comm -> Nat] /\ orig[a][a] = 0

\* As long as a pass of absorbSingletons has moved nothing, the sizes that it
\* started from are the sizes of the moment, and the singletons already visited
\* have no neighbour.
PassOK ==
  step = "absorb" /\ ~moved =>
    /\ alone = Alone(comm)
    /\ \A n \in alone \ todo : Outside(n) = {}

AbsorbInv == GraphOK /\ PassOK /\ SingletonsAreIsolated

\* A singleton without a neighbour outside its community has no neighbour.
LEMMA LonelyIsIsolated ==
  ASSUME GraphOK, NEW n \in Alone(comm), Outside(n) = {}, NEW b \in DOMAIN comm
  PROVE  orig[n][b] = 0
<1>1. n \in DOMAIN comm
  BY DEF Alone
<1>2. CASE b = n
  BY <1>1, <1>2 DEF GraphOK
<1>3. CASE b # n
  <2>1. comm[b] # comm[n]
    BY <1>3 DEF Alone
  <2>2. ~(orig[n][b] > 0)
    BY <2>1 DEF Outside
  <2>3. orig[n][b] \in Nat
    BY <1>1 DEF GraphOK
  <2>4. QED BY <2>2, <2>3
<1>4. QED BY <1>2, <1>3

\* The projection of any import weights is a graph without loops.
LEMMA ProjectionOK ==
  ASSUME NEW D \in SUBSET Modules, NEW edge \in [Modules -> [Modules -> Nat]],
         NEW group \in [Modules -> Nat], StartClustering(D, edge, group)
  PROVE  GraphOK'
<1>1. DOMAIN comm' = D /\ orig' = Projection(D, edge)
  BY DEF StartClustering
<1>2. ASSUME NEW a \in D
      PROVE  orig'[a] \in [D -> Nat] /\ orig'[a][a] = 0
  <2>1. orig'[a] = [b \in D |-> IF a = b THEN 0 ELSE edge[a][b] + edge[b][a]]
    BY <1>1 DEF Projection
  <2>2. ASSUME NEW b \in D PROVE edge[a][b] + edge[b][a] \in Nat
    <3>1. edge[a][b] \in Nat /\ edge[b][a] \in Nat
      OBVIOUS
    <3>2. QED BY <3>1
  <2>3. QED BY <2>1, <2>2
<1>3. DOMAIN orig' = D
  BY <1>1 DEF Projection
<1>4. QED BY <1>1, <1>2, <1>3 DEF GraphOK

\* Every step of the clusterer keeps the invariant.
LEMMA AbsorbStep == AbsorbInv /\ [ClusterNext]_clusterVars => AbsorbInv'
<1> SUFFICES ASSUME AbsorbInv, [ClusterNext]_clusterVars
             PROVE  AbsorbInv'
  OBVIOUS
<1> USE DEF AbsorbInv
<1>1. ASSUME NEW D \in SUBSET Modules, NEW edge \in [Modules -> [Modules -> Nat]],
             NEW group \in [Modules -> Nat], StartClustering(D, edge, group)
      PROVE  AbsorbInv'
  <2>1. GraphOK'
    BY <1>1, ProjectionOK
  <2>2. PassOK'
    BY <1>1 DEF StartClustering, PassOK, Alone
  <2>3. SingletonsAreIsolated'
    BY <1>1 DEF StartClustering, SingletonsAreIsolated, Alone
  <2>4. QED BY <2>1, <2>2, <2>3
<1>2. CASE MoveModule
  <2>1. step' = "louvain" /\ orig' = orig /\ DOMAIN comm' = DOMAIN comm
    BY <1>2 DEF MoveModule
  <2>2. QED BY <2>1 DEF GraphOK, PassOK, SingletonsAreIsolated
<1>3. CASE EndPass
  <2>1. /\ step' \in {"louvain", "absorb"} /\ orig' = orig /\ comm' = comm
        /\ todo' = DOMAIN comm /\ alone' = Alone(comm)
    BY <1>3 DEF EndPass
  <2>2. QED BY <2>1 DEF GraphOK, PassOK, SingletonsAreIsolated, Alone
<1>4. ASSUME NEW n \in todo, AbsorbModule(n)
      PROVE  AbsorbInv'
  <2>1. /\ step = "absorb" /\ step' = step /\ orig' = orig /\ alone' = alone
        /\ todo' = todo \ {n}
    BY <1>4 DEF AbsorbModule
  <2>2. CASE n \in alone /\ Outside(n) # {}
    <3>1. moved' /\ DOMAIN comm' = DOMAIN comm
      BY <1>4, <2>2 DEF AbsorbModule
    <3>2. QED BY <2>1, <3>1 DEF GraphOK, PassOK, SingletonsAreIsolated
  <2>3. CASE ~(n \in alone /\ Outside(n) # {})
    <3>1. comm' = comm /\ moved' = moved
      BY <1>4, <2>3 DEF AbsorbModule
    <3>2. QED BY <2>1, <2>3, <3>1 DEF GraphOK, PassOK, SingletonsAreIsolated, Alone, Outside
  <2>4. QED BY <2>2, <2>3
<1>5. CASE EndAbsorbPass
  <2>1. /\ step = "absorb" /\ todo = {} /\ orig' = orig /\ comm' = comm
        /\ alone' = Alone(comm)
    BY <1>5 DEF EndAbsorbPass
  <2>2. CASE moved
    <3>1. step' = "absorb" /\ todo' = DOMAIN comm
      BY <1>5, <2>2 DEF EndAbsorbPass
    <3>2. QED BY <2>1, <3>1 DEF GraphOK, PassOK, SingletonsAreIsolated, Alone
  <2>3. CASE ~moved
    <3>1. step' = "clustered"
      BY <1>5, <2>3 DEF EndAbsorbPass
    <3>2. \A n \in Alone(comm) : Outside(n) = {}
      BY <2>1, <2>3 DEF PassOK
    <3>3. \A n \in Alone(comm) : \A b \in DOMAIN comm : orig[n][b] = 0
      BY <3>2, LonelyIsIsolated
    <3>4. QED BY <2>1, <3>1, <3>3 DEF GraphOK, PassOK, SingletonsAreIsolated, Alone
  <2>4. QED BY <2>2, <2>3
<1>6. CASE UNCHANGED clusterVars
  BY <1>6 DEF clusterVars, GraphOK, PassOK, SingletonsAreIsolated, Alone, Outside
<1>7. QED BY <1>1, <1>2, <1>3, <1>4, <1>5, <1>6 DEF ClusterNext, ClusterStep

\* No cluster of one module has an import to or from another domain module: for
\* every set of modules, every import weights and every blueprint grouping, the
\* loop of absorbSingletons ends only when each remaining singleton is isolated,
\* although it visits the modules in any order and works with sizes that were
\* counted at the beginning of the pass.
THEOREM SingletonsIsolated == ClusterSpec => []SingletonsAreIsolated
<1>1. ClusterInit => AbsorbInv
  BY DEF ClusterInit, AbsorbInv, GraphOK, PassOK, SingletonsAreIsolated
<1>2. AbsorbInv => SingletonsAreIsolated
  BY DEF AbsorbInv
<1>3. QED BY <1>1, <1>2, AbsorbStep, PTL DEF ClusterSpec

-----------------------------------------------------------------------------
(* Induction over the subsets of a finite set, for a set of them. *)

\* A set of subsets that holds every subset all of whose parts with one element
\* less it holds is the set of all subsets.
LEMMA SubsetInduction ==
  ASSUME NEW S, IsFiniteSet(S), NEW B,
         \A T \in SUBSET S : (\A x \in T : T \ {x} \in B) => T \in B
  PROVE  \A T \in SUBSET S : T \in B
<1> DEFINE bad == {T \in SUBSET S : T \notin B}
           R == StrictSubsetOrdering(S)
<1>1. IsWellFoundedOn(R, SUBSET S)
  BY FS_StrictSubsetOrderingWellFounded, FS_FiniteSubsetsOfFinite
<1>2. ASSUME bad # {} PROVE \E T \in bad : \A U \in bad : ~ (<<U, T>> \in R)
  <2>1. bad \subseteq SUBSET S
    OBVIOUS
  <2> HIDE DEF bad, R
  <2> QED  BY <1>1, <1>2, <2>1, WFMin, Zenon
<1>3. ASSUME NEW T \in SUBSET S, NEW x \in T PROVE <<T \ {x}, T>> \in R
  BY DEF StrictSubsetOrdering
<1>4. bad = {}
  <2> SUFFICES ASSUME bad # {} PROVE FALSE
    OBVIOUS
  <2>1. PICK T \in bad : \A U \in bad : ~ (<<U, T>> \in R)
    BY <1>2
  <2>2. \A x \in T : T \ {x} \in B
    BY <1>3, <2>1
  <2> QED  BY <2>1, <2>2
<1> QED  BY <1>4

-----------------------------------------------------------------------------
(* Sums over finite sets. *)

Pick(s) == CHOOSE x \in s : TRUE

\* g computes the sums of f over the members of D.
Sums(g, f, D) == g = [s \in D |-> IF s = {} THEN 0 ELSE f[Pick(s)] + g[s \ {Pick(s)}]]

\* The picked element of a set is one of it.
LEMMA PickIsMember == ASSUME NEW s, s # {} PROVE Pick(s) \in s
BY DEF Pick

\* The fold of the library is the value of such a function, if there is one.
LEMMA SumIsChosen ==
  ASSUME NEW f, NEW S
  PROVE  SumFunctionOnSet(f, S) = (CHOOSE g : Sums(g, f, SUBSET S))[S]
BY Zenon DEF SumFunctionOnSet, FoldFunctionOnSet, MapThenFoldSet, Sums, Pick

\* Two of them agree where both are defined.
LEMMA SumsAgree ==
  ASSUME NEW S, NEW T, NEW f, NEW g, NEW h, Sums(g, f, SUBSET S), Sums(h, f, SUBSET T),
         NEW U, U \subseteq S, U \subseteq T, IsFiniteSet(U)
  PROVE  g[U] = h[U]
<1> DEFINE B == {V \in SUBSET U : g[V] = h[V]}
<1>1. ASSUME NEW V \in SUBSET U, \A x \in V : V \ {x} \in B PROVE V \in B
  <2>1. V \in SUBSET S /\ V \in SUBSET T
    OBVIOUS
  <2>2. /\ g[V] = IF V = {} THEN 0 ELSE f[Pick(V)] + g[V \ {Pick(V)}]
        /\ h[V] = IF V = {} THEN 0 ELSE f[Pick(V)] + h[V \ {Pick(V)}]
    BY <2>1 DEF Sums
  <2>3. CASE V = {}
    BY <2>2, <2>3
  <2>4. CASE V # {}
    <3>1. g[V \ {Pick(V)}] = h[V \ {Pick(V)}]
      BY <1>1, <2>4, PickIsMember
    <3> QED  BY <2>2, <3>1
  <2> QED  BY <2>3, <2>4
<1>2. \A V \in SUBSET U : V \in B
  <2> HIDE DEF B
  <2> QED  BY <1>1, SubsetInduction
<1> QED  BY <1>2

\* And there is one for every finite set.
LEMMA SumsExist ==
  ASSUME NEW S, IsFiniteSet(S), NEW f
  PROVE  \E g : Sums(g, f, SUBSET S)
<1> DEFINE B == {T \in SUBSET S : \E g : Sums(g, f, SUBSET T)}
           sum(T) == SumFunctionOnSet(f, T)
<1>1. ASSUME NEW T \in SUBSET S, \A x \in T : T \ {x} \in B PROVE T \in B
  <2> DEFINE h == [s \in SUBSET T |-> IF s = {} THEN 0 ELSE f[Pick(s)] + sum(s \ {Pick(s)})]
  <2>1. ASSUME NEW U \in SUBSET T, U # T
        PROVE  sum(U) = IF U = {} THEN 0 ELSE f[Pick(U)] + sum(U \ {Pick(U)})
    <3>1. PICK x \in T : x \notin U
      BY <2>1
    <3>2. PICK g : Sums(g, f, SUBSET (T \ {x}))
      BY <1>1
    <3>3. ASSUME NEW V \in SUBSET U PROVE sum(V) = g[V]
      <4>1. V \in SUBSET (T \ {x}) /\ IsFiniteSet(V)
        BY <3>1, FS_Subset
      <4> DEFINE gv == [s \in SUBSET V |-> g[s]]
      <4>2. Sums(gv, f, SUBSET V)
        <5>1. ASSUME NEW s \in SUBSET V
              PROVE  gv[s] = IF s = {} THEN 0 ELSE f[Pick(s)] + gv[s \ {Pick(s)}]
          BY <3>2, <4>1 DEF Sums
        <5>2. gv = [s \in SUBSET V |-> IF s = {} THEN 0 ELSE f[Pick(s)] + gv[s \ {Pick(s)}]]
          <6>1. gv = [s \in SUBSET V |-> gv[s]]
            OBVIOUS
          <6> HIDE DEF gv
          <6> QED  BY <5>1, <6>1
        <5> HIDE DEF gv
        <5> QED  BY <5>2 DEF Sums
      <4> DEFINE c == CHOOSE k : Sums(k, f, SUBSET V)
      <4> HIDE DEF gv
      <4>3. Sums(c, f, SUBSET V)
        BY <4>2
      <4>4. sum(V) = c[V]
        BY SumIsChosen
      <4> HIDE DEF c, sum
      <4>5. c[V] = g[V]
        <5>1. V \subseteq V /\ V \subseteq T \ {x}
          BY <4>1
        <5> DEFINE W == T \ {x}
        <5>2. Sums(g, f, SUBSET W) /\ V \subseteq W
          BY <3>2, <5>1
        <5> HIDE DEF B, h, W
        <5> QED  BY <4>1, <4>3, <5>1, <5>2, SumsAgree
      <4> QED  BY <4>4, <4>5
    <3>4. g[U] = IF U = {} THEN 0 ELSE f[Pick(U)] + g[U \ {Pick(U)}]
      BY <3>1, <3>2 DEF Sums
    <3> HIDE DEF sum
    <3> QED  BY <3>3, <3>4, PickIsMember
  <2>2. Sums(h, f, SUBSET T)
    <3>1. ASSUME NEW s \in SUBSET T, s # {} PROVE h[s \ {Pick(s)}] = sum(s \ {Pick(s)})
      <4>1. s \ {Pick(s)} \in SUBSET T /\ s \ {Pick(s)} # T
        BY <3>1, PickIsMember
      <4> HIDE DEF sum
      <4> QED  BY <2>1, <4>1
    <3>2. ASSUME NEW s \in SUBSET T
          PROVE  h[s] = IF s = {} THEN 0 ELSE f[Pick(s)] + h[s \ {Pick(s)}]
      <4> HIDE DEF sum
      <4> QED  BY <3>1
    <3>3. h = [s \in SUBSET T |-> h[s]]
      OBVIOUS
    <3> HIDE DEF h
    <3> QED  BY <3>2, <3>3 DEF Sums
  <2> HIDE DEF h
  <2> QED  BY <2>2
<1>2. S \in B
  <2> HIDE DEF B
  <2> QED  BY <1>1, SubsetInduction
<1> QED  BY <1>2

\* The sum over no element is 0, and over others it begins with the picked one.
LEMMA SumUnfolds ==
  ASSUME NEW f, NEW S, IsFiniteSet(S)
  PROVE  SumFunctionOnSet(f, S) =
           IF S = {} THEN 0 ELSE f[Pick(S)] + SumFunctionOnSet(f, S \ {Pick(S)})
<1> DEFINE c(T) == CHOOSE g : Sums(g, f, SUBSET T)
<1>1. \A T : IsFiniteSet(T) => Sums(c(T), f, SUBSET T)
  BY SumsExist
<1>2. \A T : SumFunctionOnSet(f, T) = c(T)[T]
  BY SumIsChosen
<1> HIDE DEF c
<1>3. c(S)[S] = IF S = {} THEN 0 ELSE f[Pick(S)] + c(S)[S \ {Pick(S)}]
  BY <1>1 DEF Sums
<1> DEFINE T == S \ {Pick(S)}
<1>4. c(S)[T] = c(T)[T]
  <2>1. IsFiniteSet(T) /\ T \subseteq S /\ T \subseteq T
    BY FS_RemoveElement
  <2>2. Sums(c(S), f, SUBSET S) /\ Sums(c(T), f, SUBSET T)
    BY <1>1, <2>1
  <2> HIDE DEF T
  <2> QED  BY <2>1, <2>2, SumsAgree
<1> QED  BY <1>2, <1>3, <1>4

\* f has integers on S.
IntOn(f, S) == \A x \in S : f[x] \in Int

\* A sum of integers is one.
LEMMA SumType ==
  ASSUME NEW f, NEW S, IsFiniteSet(S), IntOn(f, S)
  PROVE  SumFunctionOnSet(f, S) \in Int
<1> DEFINE B == {T \in SUBSET S : SumFunctionOnSet(f, T) \in Int}
<1>1. ASSUME NEW T \in SUBSET S, \A x \in T : T \ {x} \in B PROVE T \in B
  <2>1. IsFiniteSet(T)
    BY FS_Subset
  <2> DEFINE p == Pick(T)
  <2>2. SumFunctionOnSet(f, T) = IF T = {} THEN 0 ELSE f[p] + SumFunctionOnSet(f, T \ {p})
    BY <2>1, SumUnfolds
  <2>3. T # {} => f[p] \in Int /\ SumFunctionOnSet(f, T \ {p}) \in Int
    BY <1>1, PickIsMember DEF IntOn
  <2> HIDE DEF p
  <2>4. SumFunctionOnSet(f, T) \in Int
    BY <2>2, <2>3
  <2> QED  BY <2>4
<1>2. S \in B
  <2>1. \A T \in SUBSET S : (\A x \in T : T \ {x} \in B) => T \in B
    BY <1>1
  <2> HIDE DEF B
  <2>2. \A T \in SUBSET S : T \in B
    BY <2>1, SubsetInduction
  <2> QED  BY <2>2
<1> QED  BY <1>2

\* Any element may come first.
LEMMA SumRemoves ==
  ASSUME NEW f, NEW S, IsFiniteSet(S), IntOn(f, S), NEW y \in S
  PROVE  SumFunctionOnSet(f, S) = f[y] + SumFunctionOnSet(f, S \ {y})
<1> DEFINE sum(T) == SumFunctionOnSet(f, T)
           B == {T \in SUBSET S : \A x \in T : sum(T) = f[x] + sum(T \ {x})}
<1>0. \A T \in SUBSET S : IsFiniteSet(T) /\ sum(T) \in Int
  BY FS_Subset, SumType DEF IntOn
<1>1. \A T \in SUBSET S : T # {} => sum(T) = f[Pick(T)] + sum(T \ {Pick(T)})
  BY <1>0, SumUnfolds
<1> HIDE DEF sum
<1>2. ASSUME NEW T \in SUBSET S, \A x \in T : T \ {x} \in B PROVE T \in B
  <2> SUFFICES ASSUME NEW x \in T PROVE sum(T) = f[x] + sum(T \ {x})
    OBVIOUS
  <2> DEFINE p == Pick(T)
  <2>1. p \in T /\ sum(T) = f[p] + sum(T \ {p})
    BY <1>1, PickIsMember
  <2> HIDE DEF p
  <2>2. CASE x = p
    BY <2>1, <2>2
  <2>3. CASE x # p
    <3> DEFINE V == T \ {p, x}
    <3>0. (T \ {p}) \ {x} = V /\ (T \ {x}) \ {p} = V
      OBVIOUS
    <3>1. sum(T \ {p}) = f[x] + sum(V)
      BY <1>2, <2>1, <2>3, <3>0
    <3>2. sum(T \ {x}) = f[p] + sum(V)
      BY <1>2, <2>1, <2>3, <3>0
    <3>3. f[x] \in Int /\ f[p] \in Int
      BY <2>1 DEF IntOn
    <3>4. sum(V) \in Int
      <4>1. V \in SUBSET S
        OBVIOUS
      <4> HIDE DEF V
      <4> QED  BY <1>0, <4>1
    <3> HIDE DEF V
    <3> QED  BY <2>1, <3>1, <3>2, <3>3, <3>4
  <2> QED  BY <2>2, <2>3
<1>3. S \in B
  <2> HIDE DEF B
  <2> QED  BY <1>2, SubsetInduction
<1> QED  BY <1>3 DEF sum

\* Functions that agree on the set have one sum.
LEMMA SumCongruent ==
  ASSUME NEW f, NEW g, NEW S, IsFiniteSet(S), \A x \in S : f[x] = g[x]
  PROVE  SumFunctionOnSet(f, S) = SumFunctionOnSet(g, S)
<1> DEFINE B == {T \in SUBSET S : SumFunctionOnSet(f, T) = SumFunctionOnSet(g, T)}
<1>1. ASSUME NEW T \in SUBSET S, \A x \in T : T \ {x} \in B PROVE T \in B
  <2>1. IsFiniteSet(T)
    BY FS_Subset
  <2> DEFINE p == Pick(T)
  <2>2. /\ SumFunctionOnSet(f, T) = IF T = {} THEN 0 ELSE f[p] + SumFunctionOnSet(f, T \ {p})
        /\ SumFunctionOnSet(g, T) = IF T = {} THEN 0 ELSE g[p] + SumFunctionOnSet(g, T \ {p})
    BY <2>1, SumUnfolds
  <2>3. T # {} => f[p] = g[p] /\ SumFunctionOnSet(f, T \ {p}) = SumFunctionOnSet(g, T \ {p})
    BY <1>1, PickIsMember
  <2> HIDE DEF p
  <2>4. SumFunctionOnSet(f, T) = SumFunctionOnSet(g, T)
    BY <2>2, <2>3
  <2> QED  BY <2>4
<1>2. S \in B
  <2>1. \A T \in SUBSET S : (\A x \in T : T \ {x} \in B) => T \in B
    BY <1>1
  <2> HIDE DEF B
  <2>2. \A T \in SUBSET S : T \in B
    BY <2>1, SubsetInduction
  <2> QED  BY <2>2
<1> QED  BY <1>2

\* The sum of sums.
LEMMA SumAdds ==
  ASSUME NEW f, NEW g, NEW h, NEW S, IsFiniteSet(S), IntOn(f, S), IntOn(g, S),
         \A x \in S : h[x] = f[x] + g[x]
  PROVE  SumFunctionOnSet(h, S) = SumFunctionOnSet(f, S) + SumFunctionOnSet(g, S)
<1> DEFINE B == {T \in SUBSET S : SumFunctionOnSet(h, T) = SumFunctionOnSet(f, T) + SumFunctionOnSet(g, T)}
<1>1. ASSUME NEW T \in SUBSET S, \A x \in T : T \ {x} \in B PROVE T \in B
  <2>1. IsFiniteSet(T)
    BY FS_Subset
  <2>2. CASE T = {}
    <3>1. /\ SumFunctionOnSet(f, T) = 0
          /\ SumFunctionOnSet(g, T) = 0
          /\ SumFunctionOnSet(h, T) = 0
      BY <2>1, <2>2, SumUnfolds
    <3> QED  BY <3>1
  <2>3. CASE T # {}
    <3> DEFINE p == Pick(T)
               U == T \ {p}
    <3>1. p \in T
      BY <2>3, PickIsMember
    <3>2. /\ SumFunctionOnSet(h, T) = h[p] + SumFunctionOnSet(h, U)
          /\ SumFunctionOnSet(f, T) = f[p] + SumFunctionOnSet(f, U)
          /\ SumFunctionOnSet(g, T) = g[p] + SumFunctionOnSet(g, U)
      BY <2>1, <2>3, SumUnfolds
    <3>3. SumFunctionOnSet(h, U) = SumFunctionOnSet(f, U) + SumFunctionOnSet(g, U)
      BY <1>1, <3>1
    <3>4. IsFiniteSet(U) /\ SumFunctionOnSet(f, U) \in Int /\ SumFunctionOnSet(g, U) \in Int
      BY <2>1, FS_RemoveElement, SumType DEF IntOn
    <3>5. f[p] \in Int /\ g[p] \in Int /\ h[p] = f[p] + g[p]
      BY <3>1 DEF IntOn
    <3> HIDE DEF U, p
    <3>6. SumFunctionOnSet(h, T) = SumFunctionOnSet(f, T) + SumFunctionOnSet(g, T)
      BY <3>2, <3>3, <3>4, <3>5
    <3> QED  BY <3>6
  <2> QED  BY <2>2, <2>3
<1>2. S \in B
  <2>1. \A T \in SUBSET S : (\A x \in T : T \ {x} \in B) => T \in B
    BY <1>1
  <2> HIDE DEF B
  <2>2. \A T \in SUBSET S : T \in B
    BY <2>1, SubsetInduction
  <2> QED  BY <2>2
<1> QED  BY <1>2

\* Elements of value 0 do not count.
LEMMA SumDropsZeros ==
  ASSUME NEW f, NEW S, IsFiniteSet(S), IntOn(f, S), NEW Z \in SUBSET S, \A x \in Z : f[x] = 0
  PROVE  SumFunctionOnSet(f, S) = SumFunctionOnSet(f, S \ Z)
<1> DEFINE B == {T \in SUBSET Z : SumFunctionOnSet(f, S) = SumFunctionOnSet(f, S \ T)}
<1>0. IsFiniteSet(Z)
  BY FS_Subset
<1>1. ASSUME NEW T \in SUBSET Z, \A x \in T : T \ {x} \in B PROVE T \in B
  <2>1. CASE T = {}
    <3>1. S \ T = S
      BY <2>1
    <3> QED  BY <3>1
  <2>2. ASSUME NEW x \in T PROVE T \in B
    <3> DEFINE U == S \ (T \ {x})
    <3>1. SumFunctionOnSet(f, S) = SumFunctionOnSet(f, U)
      BY <1>1
    <3>2. x \in U /\ U \ {x} = S \ T /\ U \subseteq S
      OBVIOUS
    <3>3. IsFiniteSet(U) /\ IntOn(f, U)
      BY <3>2, FS_Subset DEF IntOn
    <3> HIDE DEF U
    <3>4. SumFunctionOnSet(f, U) = f[x] + SumFunctionOnSet(f, U \ {x})
      BY <3>2, <3>3, SumRemoves
    <3>5. f[x] = 0 /\ SumFunctionOnSet(f, U \ {x}) \in Int
      BY <3>3, FS_RemoveElement, SumType DEF IntOn
    <3>6. SumFunctionOnSet(f, S) = SumFunctionOnSet(f, S \ T)
      <4> DEFINE V == U \ {x}
      <4>1. S \ T = V
        BY <3>2
      <4> HIDE DEF V
      <4>2. SumFunctionOnSet(f, U) = f[x] + SumFunctionOnSet(f, V) /\ SumFunctionOnSet(f, V) \in Int
        BY <3>4, <3>5 DEF V
      <4>3. f[x] + SumFunctionOnSet(f, V) = SumFunctionOnSet(f, V)
        BY <3>5, <4>2
      <4> QED  BY <3>1, <4>1, <4>2, <4>3
    <3> QED  BY <3>6
  <2> QED  BY <2>1, <2>2
<1>2. Z \in B
  <2>1. \A T \in SUBSET Z : (\A x \in T : T \ {x} \in B) => T \in B
    BY <1>1
  <2> HIDE DEF B
  <2>2. \A T \in SUBSET Z : T \in B
    BY <1>0, <2>1, SubsetInduction
  <2> QED  BY <2>2
<1> QED  BY <1>2

-----------------------------------------------------------------------------
(* The gain is the change of modularity. *)

\* A finite undirected graph.
WeightsOK(w) ==
  /\ IsFiniteSet(DOMAIN w)
  /\ w = [a \in DOMAIN w |-> w[a]]
  /\ \A a \in DOMAIN w : DOMAIN w[a] = DOMAIN w /\ \A b \in DOMAIN w : w[a][b] \in Nat
  /\ \A a, b \in DOMAIN w : w[a][b] = w[b][a]

\* Sums of weights are integers.
LEMMA WeightSums ==
  ASSUME NEW w, WeightsOK(w), NEW S, S \subseteq DOMAIN w
  PROVE  /\ IsFiniteSet(S)
         /\ \A n \in DOMAIN w : Degree(w, n) \in Int /\ EdgesTo(w, n, S) \in Int
         /\ TwoM(w) \in Int /\ DegreeOf(w, S) \in Int /\ Inside(w, S) \in Int
         /\ Share(w, S) \in Int
<1>1. IsFiniteSet(S) /\ \A n : IsFiniteSet(S \ {n})
  BY FS_Subset, FS_RemoveElement DEF WeightsOK
<1>2. ASSUME NEW n \in DOMAIN w PROVE Degree(w, n) \in Int
  <2>1. IntOn(w[n], DOMAIN w)
    BY DEF WeightsOK, IntOn
  <2> QED  BY <2>1, SumType DEF WeightsOK, Degree
<1>3. ASSUME NEW n \in DOMAIN w PROVE EdgesTo(w, n, S) \in Int
  <2>1. IntOn(w[n], S \ {n})
    BY DEF WeightsOK, IntOn
  <2> QED  BY <1>1, <2>1, SumType DEF EdgesTo
<1>4. TwoM(w) \in Int
  <2> DEFINE g == [n \in DOMAIN w |-> Degree(w, n)]
  <2>1. IntOn(g, DOMAIN w) /\ DOMAIN g = DOMAIN w
    BY <1>2 DEF IntOn
  <2>2. TwoM(w) = SumFunctionOnSet(g, DOMAIN g)
    BY DEF TwoM, SumFunction
  <2> HIDE DEF g
  <2> QED  BY <2>1, <2>2, SumType DEF WeightsOK
<1>5. DegreeOf(w, S) \in Int
  <2> DEFINE g == [b \in S |-> Degree(w, b)]
  <2>1. IntOn(g, S) /\ DOMAIN g = S
    BY <1>2 DEF IntOn
  <2>2. DegreeOf(w, S) = SumFunctionOnSet(g, DOMAIN g)
    BY DEF DegreeOf, SumFunction
  <2> HIDE DEF g
  <2> QED  BY <1>1, <2>1, <2>2, SumType
<1>6. Inside(w, S) \in Int
  <2> DEFINE g == [n \in S |-> EdgesTo(w, n, S)]
  <2>1. IntOn(g, S) /\ DOMAIN g = S
    BY <1>3 DEF IntOn
  <2>2. Inside(w, S) = SumFunctionOnSet(g, DOMAIN g)
    BY DEF Inside, SumFunction
  <2> HIDE DEF g
  <2> QED  BY <1>1, <2>1, <2>2, SumType
<1>7. Share(w, S) \in Int
  BY <1>4, <1>5, <1>6 DEF Share
<1> QED  BY <1>1, <1>2, <1>3, <1>4, <1>5, <1>6, <1>7

\* The degree of a set grows by that of a new member.
LEMMA DegreeOfGrows ==
  ASSUME NEW w, WeightsOK(w), NEW S, S \subseteq DOMAIN w, NEW n \in DOMAIN w, n \notin S
  PROVE  DegreeOf(w, S \cup {n}) = DegreeOf(w, S) + Degree(w, n)
<1> DEFINE T == S \cup {n}
           g == [b \in S |-> Degree(w, b)]
           h == [b \in T |-> Degree(w, b)]
<1>1. IsFiniteSet(S) /\ IsFiniteSet(T) /\ T \subseteq DOMAIN w /\ T \ {n} = S /\ n \in T
  BY WeightSums, FS_AddElement
<1>2. \A b \in DOMAIN w : Degree(w, b) \in Int
  BY WeightSums
<1>3. DegreeOf(w, T) = SumFunctionOnSet(h, T)
  <2>1. DOMAIN h = T
    OBVIOUS
  <2> HIDE DEF T
  <2> QED  BY <2>1 DEF DegreeOf, SumFunction
<1>4. DegreeOf(w, S) = SumFunctionOnSet(g, S)
  BY DEF DegreeOf, SumFunction
<1>5. IntOn(h, T) /\ h[n] = Degree(w, n) /\ \A b \in S : h[b] = g[b]
  BY <1>1, <1>2 DEF IntOn
<1>6. DegreeOf(w, S) \in Int
  BY WeightSums
<1> HIDE DEF g, h, T
<1>7. SumFunctionOnSet(h, T) = h[n] + SumFunctionOnSet(h, S)
  BY <1>1, <1>5, SumRemoves
<1>8. SumFunctionOnSet(h, S) = SumFunctionOnSet(g, S)
  BY <1>1, <1>5, SumCongruent
<1>9. DegreeOf(w, T) = DegreeOf(w, S) + Degree(w, n)
  BY <1>2, <1>3, <1>4, <1>5, <1>6, <1>7, <1>8
<1> QED  BY <1>9 DEF T

\* The edges inside a set grow by those to a new member, in both directions.
LEMMA InsideGrows ==
  ASSUME NEW w, WeightsOK(w), NEW S, S \subseteq DOMAIN w, NEW n \in DOMAIN w, n \notin S
  PROVE  Inside(w, S \cup {n}) = Inside(w, S) + 2 * EdgesTo(w, n, S)
<1> DEFINE T == S \cup {n}
           g == [m \in S |-> EdgesTo(w, m, S)]
           h == [m \in T |-> EdgesTo(w, m, T)]
<1>1. /\ IsFiniteSet(S) /\ IsFiniteSet(T) /\ T \subseteq DOMAIN w
      /\ T \ {n} = S /\ n \in T /\ S \ {n} = S
  BY WeightSums, FS_AddElement
<1>2. /\ \A m \in DOMAIN w : EdgesTo(w, m, S) \in Int /\ EdgesTo(w, m, T) \in Int
      /\ Inside(w, S) \in Int
  <2>1. S \subseteq DOMAIN w /\ T \subseteq DOMAIN w
    BY <1>1
  <2> HIDE DEF T
  <2> QED  BY <2>1, WeightSums
<1>3. Inside(w, T) = SumFunctionOnSet(h, T) /\ Inside(w, S) = SumFunctionOnSet(g, S)
  <2>1. DOMAIN h = T /\ DOMAIN g = S
    OBVIOUS
  <2> HIDE DEF T
  <2> QED  BY <2>1 DEF Inside, SumFunction
<1>4. ASSUME NEW m \in S PROVE EdgesTo(w, m, T) = EdgesTo(w, m, S) + w[n][m]
  <2> DEFINE U == T \ {m}
  <2>1. n \in U /\ U \ {n} = S \ {m} /\ m \in DOMAIN w /\ U \subseteq DOMAIN w
    BY <1>1
  <2>2. IsFiniteSet(U) /\ IntOn(w[m], U)
    <3>1. IsFiniteSet(U)
      <4> HIDE DEF T
      <4> QED  BY <1>1, FS_RemoveElement
    <3> HIDE DEF U
    <3>2. IntOn(w[m], U)
      BY <2>1 DEF WeightsOK, IntOn
    <3> QED  BY <3>1, <3>2
  <2>3. EdgesTo(w, m, T) = SumFunctionOnSet(w[m], U)
    BY DEF EdgesTo
  <2>4. EdgesTo(w, m, S) = SumFunctionOnSet(w[m], S \ {m})
    BY DEF EdgesTo
  <2>5. w[m][n] = w[n][m] /\ w[n][m] \in Nat
    BY <2>1 DEF WeightsOK
  <2>6. EdgesTo(w, m, S) \in Int
    BY <1>2, <2>1
  <2> HIDE DEF U, T
  <2>7. SumFunctionOnSet(w[m], U) = w[m][n] + SumFunctionOnSet(w[m], S \ {m})
    BY <2>1, <2>2, SumRemoves
  <2> QED  BY <2>3, <2>4, <2>5, <2>6, <2>7
<1>5. /\ IntOn(h, T) /\ IntOn(g, S) /\ IntOn(w[n], S)
      /\ h[n] = EdgesTo(w, n, T)
      /\ \A m \in S : h[m] = g[m] + w[n][m]
  <2>1. \A m \in T : h[m] = EdgesTo(w, m, T)
    OBVIOUS
  <2>2. \A m \in S : g[m] = EdgesTo(w, m, S)
    OBVIOUS
  <2>3. \A m \in S : w[n][m] \in Int /\ m \in T
    BY <1>1 DEF WeightsOK
  <2> HIDE DEF g, h, T
  <2> QED  BY <1>1, <1>2, <1>4, <2>1, <2>2, <2>3 DEF IntOn
<1>6. EdgesTo(w, n, T) = EdgesTo(w, n, S) /\ EdgesTo(w, n, S) = SumFunctionOnSet(w[n], S)
  BY <1>1 DEF EdgesTo
<1> HIDE DEF g, h, T
<1>7. SumFunctionOnSet(h, T) = h[n] + SumFunctionOnSet(h, S)
  BY <1>1, <1>5, SumRemoves
<1>8. SumFunctionOnSet(h, S) = SumFunctionOnSet(g, S) + SumFunctionOnSet(w[n], S)
  BY <1>1, <1>5, SumAdds
<1>9. Inside(w, T) = Inside(w, S) + 2 * EdgesTo(w, n, S)
  <2> DEFINE e == EdgesTo(w, n, S)
             i == Inside(w, S)
  <2>1. e \in Int /\ i \in Int
    BY <1>2
  <2>2. Inside(w, T) = e + (i + e)
    BY <1>3, <1>5, <1>6, <1>7, <1>8
  <2> HIDE DEF e, i
  <2>3. e + (i + e) = i + 2 * e
    BY <2>1
  <2> QED  BY <2>2, <2>3 DEF e, i
<1> QED  BY <1>9 DEF T

\* So the share of a community changes by this when n joins it.
LEMMA ShareGrows ==
  ASSUME NEW w, WeightsOK(w), NEW S, S \subseteq DOMAIN w, NEW n \in DOMAIN w, n \notin S
  PROVE  Share(w, S \cup {n}) - Share(w, S) =
           2 * (TwoM(w) * EdgesTo(w, n, S) - Degree(w, n) * DegreeOf(w, S))
             - Degree(w, n) * Degree(w, n)
<1> DEFINE m == TwoM(w)
           e == EdgesTo(w, n, S)
           d == Degree(w, n)
           k == DegreeOf(w, S)
           i == Inside(w, S)
<1>1. m \in Int /\ e \in Int /\ d \in Int /\ k \in Int /\ i \in Int
  BY WeightSums
<1>2. Share(w, S) = m * i - k * k
  BY DEF Share
<1>3. Share(w, S \cup {n}) = m * (i + 2 * e) - (k + d) * (k + d)
  BY InsideGrows, DegreeOfGrows DEF Share
<1> HIDE DEF m, e, d, k, i
<1>4. m * (i + 2 * e) = m * i + 2 * (m * e)
  BY <1>1
<1>5. (k + d) * (k + d) = k * k + 2 * (d * k) + d * d
  BY <1>1
<1>6. (m * i + 2 * (m * e)) - (k * k + 2 * (d * k) + d * d) - (m * i - k * k)
      = 2 * (m * e - d * k) - d * d
  <2> DEFINE mi == m * i
             me == m * e
             kk == k * k
             dk == d * k
             dd == d * d
  <2>1. mi \in Int /\ me \in Int /\ kk \in Int /\ dk \in Int /\ dd \in Int
    BY <1>1
  <2> HIDE DEF mi, me, kk, dk, dd
  <2>2. (mi + 2 * me) - (kk + 2 * dk + dd) - (mi - kk) = 2 * (me - dk) - dd
    BY <2>1
  <2> QED  BY <2>2 DEF mi, me, kk, dk, dd
<1>7. Share(w, S \cup {n}) - Share(w, S) = 2 * (m * e - d * k) - d * d
  BY <1>2, <1>3, <1>4, <1>5, <1>6
<1> QED  BY <1>7 DEF m, e, d, k

\* An empty community has no share.
LEMMA NoShare ==
  ASSUME NEW w, WeightsOK(w)
  PROVE  Share(w, {}) = 0
<1> DEFINE g == [n \in {} |-> EdgesTo(w, n, {})]
           h == [b \in {} |-> Degree(w, b)]
<1>1. \A f : SumFunctionOnSet(f, {}) = 0
  BY SumUnfolds, FS_EmptySet
<1>2. DOMAIN g = {} /\ DOMAIN h = {}
  OBVIOUS
<1>3. Inside(w, {}) = SumFunctionOnSet(g, DOMAIN g) /\ DegreeOf(w, {}) = SumFunctionOnSet(h, DOMAIN h)
  BY DEF Inside, DegreeOf, SumFunction
<1> HIDE DEF g, h
<1>4. Inside(w, {}) = 0 /\ DegreeOf(w, {}) = 0
  BY <1>1, <1>2, <1>3
<1>5. TwoM(w) \in Int
  BY WeightSums
<1> QED  BY <1>4, <1>5 DEF Share

\* Modularity is the same sum over more labels: the other communities are empty.
LEMMA ModularityOver ==
  ASSUME NEW w, WeightsOK(w), NEW f, DOMAIN f = DOMAIN w,
         NEW L, IsFiniteSet(L), \A n \in DOMAIN f : f[n] \in L
  PROVE  /\ Modularity(w, f) = SumFunctionOnSet([c \in L |-> Share(w, Class(f, c))], L)
         /\ IntOn([c \in L |-> Share(w, Class(f, c))], L)
<1> DEFINE labels == {f[n] : n \in DOMAIN f}
           g == [c \in labels |-> Share(w, Class(f, c))]
           h == [c \in L |-> Share(w, Class(f, c))]
           Z == L \ labels
<1>1. labels \subseteq L /\ Z \subseteq L /\ L \ Z = labels
  OBVIOUS
<1>2. IsFiniteSet(labels)
  <2> HIDE DEF labels
  <2> QED  BY <1>1, FS_Subset
<1>3. Modularity(w, f) = SumFunctionOnSet(g, labels)
  <2>1. DOMAIN g = labels
    OBVIOUS
  <2>2. Modularity(w, f) = SumFunction(g)
    BY DEF Modularity
  <2> HIDE DEF g, labels
  <2> QED  BY <2>1, <2>2 DEF SumFunction
<1>4. IntOn(h, L)
  <2>1. \A c : Class(f, c) \subseteq DOMAIN w
    BY DEF Class
  <2>2. \A c : Share(w, Class(f, c)) \in Int
    BY <2>1, WeightSums
  <2> QED  BY <2>2 DEF IntOn
<1>5. \A c \in labels : g[c] = h[c]
  BY <1>1
<1>6. \A c \in Z : h[c] = 0
  <2> SUFFICES ASSUME NEW c \in Z PROVE h[c] = 0
    OBVIOUS
  <2>1. Class(f, c) = {}
    BY DEF Class
  <2>2. h[c] = Share(w, Class(f, c))
    OBVIOUS
  <2> HIDE DEF h, Z, labels
  <2> QED  BY <2>1, <2>2, NoShare
<1> HIDE DEF labels, g, h, Z
<1>7. SumFunctionOnSet(h, L) = SumFunctionOnSet(h, labels)
  BY <1>1, <1>4, <1>6, SumDropsZeros
<1>8. SumFunctionOnSet(h, labels) = SumFunctionOnSet(g, labels)
  BY <1>2, <1>5, SumCongruent
<1>9. Modularity(w, f) = SumFunctionOnSet(h, L)
  BY <1>3, <1>7, <1>8
<1> QED  BY <1>4, <1>9 DEF h

\* A module that changes its community changes two shares.
LEMMA ModularityMoves ==
  ASSUME NEW w, WeightsOK(w), NEW f, DOMAIN f = DOMAIN w, f = [x \in DOMAIN f |-> f[x]],
         NEW n \in DOMAIN w, NEW c, c # f[n]
  PROVE  /\ Modularity(w, [f EXCEPT ![n] = c]) - Modularity(w, f) =
              (Share(w, Class(f, c) \cup {n}) - Share(w, Class(f, c)))
                - (Share(w, Class(f, f[n])) - Share(w, Class(f, f[n]) \ {n}))
         /\ Modularity(w, f) \in Int /\ Modularity(w, [f EXCEPT ![n] = c]) \in Int
<1> DEFINE labels == {f[x] : x \in DOMAIN f}
           L == labels \cup {c}
           a == f[n]
           e == [f EXCEPT ![n] = c]
           g == [k \in L |-> Share(w, Class(f, k))]
           h == [k \in L |-> Share(w, Class(e, k))]
           rest == (L \ {a}) \ {c}
<1>1. IsFiniteSet(L)
  <2>1. IsFiniteSet(labels)
    <3>1. IsFiniteSet(DOMAIN f)
      BY DEF WeightsOK
    <3> DEFINE s == [x \in DOMAIN f |-> f[x]]
    <3>2. s \in Surjection(DOMAIN f, labels)
      BY DEF Surjection
    <3> HIDE DEF labels, s
    <3> QED  BY <3>1, <3>2, FS_Surjection
  <2> HIDE DEF labels
  <2> QED  BY <2>1, FS_AddElement
<1>2. /\ a \in L /\ c \in L /\ c \in L \ {a} /\ rest \subseteq L
      /\ DOMAIN e = DOMAIN w /\ \A x \in DOMAIN e : e[x] \in L
      /\ \A x \in DOMAIN f : f[x] \in L
  OBVIOUS
<1>3. Modularity(w, f) = SumFunctionOnSet(g, L) /\ IntOn(g, L)
  <2> HIDE DEF L
  <2> QED  BY <1>1, <1>2, ModularityOver
<1>4. Modularity(w, e) = SumFunctionOnSet(h, L) /\ IntOn(h, L)
  <2> HIDE DEF L, e
  <2> QED  BY <1>1, <1>2, ModularityOver
<1>5. /\ Class(e, a) = Class(f, a) \ {n}
      /\ Class(e, c) = Class(f, c) \cup {n}
      /\ \A k \in rest : Class(e, k) = Class(f, k)
  BY DEF Class
<1>6. /\ g[a] = Share(w, Class(f, a)) /\ h[a] = Share(w, Class(f, a) \ {n})
      /\ g[c] = Share(w, Class(f, c)) /\ h[c] = Share(w, Class(f, c) \cup {n})
      /\ \A k \in rest : h[k] = g[k]
  <2>1. \A k \in L : g[k] = Share(w, Class(f, k)) /\ h[k] = Share(w, Class(e, k))
    OBVIOUS
  <2> HIDE DEF g, h, L, e, a, rest
  <2> QED  BY <1>2, <1>5, <2>1
<1> HIDE DEF g, h, L, e, a
<1>7. ASSUME NEW q, IntOn(q, L)
      PROVE  /\ SumFunctionOnSet(q, L) = q[a] + (q[c] + SumFunctionOnSet(q, rest))
             /\ q[a] \in Int /\ q[c] \in Int /\ SumFunctionOnSet(q, rest) \in Int
  <2> DEFINE M == L \ {a}
  <2>1. IsFiniteSet(M) /\ IntOn(q, M) /\ IsFiniteSet(rest) /\ IntOn(q, rest)
    <3>1. M \subseteq L /\ rest \subseteq L
      OBVIOUS
    <3> HIDE DEF M, rest
    <3> QED  BY <1>1, <1>7, <3>1, FS_Subset DEF IntOn
  <2>2. c \in M /\ rest = M \ {c}
    BY <1>2
  <2>3. SumFunctionOnSet(q, L) = q[a] + SumFunctionOnSet(q, M)
    BY <1>1, <1>2, <1>7, SumRemoves
  <2> HIDE DEF M, rest
  <2>4. SumFunctionOnSet(q, M) = q[c] + SumFunctionOnSet(q, rest)
    BY <2>1, <2>2, SumRemoves
  <2>5. q[a] \in Int /\ q[c] \in Int
    BY <1>2, <1>7 DEF IntOn
  <2> QED  BY <2>1, <2>3, <2>4, <2>5, SumType
<1>8. IsFiniteSet(rest)
  <2> HIDE DEF rest
  <2> QED  BY <1>1, <1>2, FS_Subset
<1> HIDE DEF rest
<1>9. SumFunctionOnSet(h, rest) = SumFunctionOnSet(g, rest)
  BY <1>6, <1>8, SumCongruent
<1>10. /\ Modularity(w, e) - Modularity(w, f) = (h[c] - g[c]) - (g[a] - h[a])
       /\ Modularity(w, f) \in Int /\ Modularity(w, e) \in Int
  <2> DEFINE r == SumFunctionOnSet(g, rest)
  <2>1. /\ Modularity(w, f) = g[a] + (g[c] + r)
        /\ g[a] \in Int /\ g[c] \in Int /\ r \in Int
    BY <1>3, <1>7
  <2>2. /\ Modularity(w, e) = h[a] + (h[c] + r)
        /\ h[a] \in Int /\ h[c] \in Int
    BY <1>4, <1>7, <1>9
  <2> HIDE DEF r
  <2> QED  BY <2>1, <2>2
<1> QED  BY <1>6, <1>10 DEF a, e

\* What Gain computes, twice, is the change of modularity.
LEMMA GainIsChange ==
  ASSUME WeightsOK(aug), DOMAIN comm = DOMAIN aug, comm = [x \in DOMAIN comm |-> comm[x]],
         NEW n \in DOMAIN comm, NEW c, c # comm[n]
  PROVE  /\ Modularity(aug, [comm EXCEPT ![n] = c]) - Modularity(aug, comm) = 2 * Gain(n, c)
         /\ Gain(n, c) \in Int
         /\ Modularity(aug, comm) \in Int /\ Modularity(aug, [comm EXCEPT ![n] = c]) \in Int
<1>0. /\ Modularity(aug, [comm EXCEPT ![n] = c]) - Modularity(aug, comm) =
            (Share(aug, Class(comm, c) \cup {n}) - Share(aug, Class(comm, c)))
              - (Share(aug, Class(comm, comm[n])) - Share(aug, Class(comm, comm[n]) \ {n}))
      /\ Modularity(aug, comm) \in Int /\ Modularity(aug, [comm EXCEPT ![n] = c]) \in Int
  <2>1. n \in DOMAIN aug
    OBVIOUS
  <2> QED  BY <2>1, ModularityMoves
<1> DEFINE C == Class(comm, c)
           H == Class(comm, comm[n])
           A == H \ {n}
           m == TwoM(aug)
           d == Degree(aug, n)
           ec == EdgesTo(aug, n, C)
           ea == EdgesTo(aug, n, A)
           kc == DegreeOf(aug, C)
           ka == DegreeOf(aug, A)
           after == Modularity(aug, [comm EXCEPT ![n] = c])
           before == Modularity(aug, comm)
<1>1. /\ C \subseteq DOMAIN aug /\ A \subseteq DOMAIN aug /\ n \notin C /\ n \notin A
      /\ H = A \cup {n} /\ n \in DOMAIN aug
  BY DEF Class
<1>2. Members(c) = C /\ Members(comm[n]) = H
  BY DEF Members, Class
<1>3. EdgesTo(aug, n, H) = ea
  <2>1. H \ {n} = A \ {n}
    OBVIOUS
  <2> QED  BY <2>1 DEF EdgesTo
<1>4. Gain(n, c) = m * (ec - ea) - d * (kc - ka)
  <2> HIDE DEF C, H
  <2> QED  BY <1>2, <1>3 DEF Gain
<1> HIDE DEF C, A
<1>5. m \in Int /\ d \in Int /\ ec \in Int /\ ea \in Int /\ kc \in Int /\ ka \in Int
  BY <1>1, WeightSums
<1>6. Share(aug, C \cup {n}) - Share(aug, C) = 2 * (m * ec - d * kc) - d * d
  BY <1>1, ShareGrows
<1>7. Share(aug, H) - Share(aug, A) = 2 * (m * ea - d * ka) - d * d
  BY <1>1, ShareGrows
<1>8. /\ after - before = (Share(aug, C \cup {n}) - Share(aug, C)) - (Share(aug, H) - Share(aug, A))
      /\ after \in Int /\ before \in Int
  BY <1>0 DEF C, A
<1> HIDE DEF m, d, ec, ea, kc, ka, after, before
<1>9. Gain(n, c) = (m * ec - m * ea) - (d * kc - d * ka)
  <2>1. m * (ec - ea) = m * ec - m * ea
    BY <1>5
  <2>2. d * (kc - ka) = d * kc - d * ka
    BY <1>5
  <2> QED  BY <1>4, <2>1, <2>2
<1>10. after - before = 2 * Gain(n, c) /\ Gain(n, c) \in Int
  <2> DEFINE p == m * ec
             q == m * ea
             r == d * kc
             s == d * ka
             t == d * d
  <2>1. p \in Int /\ q \in Int /\ r \in Int /\ s \in Int /\ t \in Int
    BY <1>5
  <2>2. after - before = (2 * (p - r) - t) - (2 * (q - s) - t)
    BY <1>6, <1>7, <1>8
  <2>3. Gain(n, c) = (p - q) - (r - s)
    BY <1>9
  <2> HIDE DEF p, q, r, s, t
  <2> QED  BY <2>1, <2>2, <2>3
<1> QED  BY <1>8, <1>10 DEF after, before

-----------------------------------------------------------------------------
(* louvainPhase1. *)

\* A finite set of integers has a largest and a smallest member.
LEMMA MaxMin ==
  ASSUME NEW S, IsFiniteSet(S), S # {}, S \subseteq Int
  PROVE  /\ Max(S) \in S /\ \A y \in S : Max(S) >= y
         /\ Min(S) \in S /\ \A y \in S : Min(S) =< y
<1> DEFINE B == {T \in SUBSET S : T = {} \/ (/\ \E x \in T : \A y \in T : x >= y
                                             /\ \E x \in T : \A y \in T : x =< y)}
<1>1. ASSUME NEW T \in SUBSET S, \A x \in T : T \ {x} \in B PROVE T \in B
  <2>1. CASE T = {}
    BY <2>1
  <2>2. ASSUME NEW z \in T PROVE T \in B
    <3>1. T \ {z} = {} \/ (/\ \E x \in T \ {z} : \A y \in T \ {z} : x >= y
                           /\ \E x \in T \ {z} : \A y \in T \ {z} : x =< y)
      BY <1>1
    <3>2. CASE T \ {z} = {}
      <4>1. \A y \in T : z >= y /\ z =< y
        BY <3>2
      <4> QED  BY <4>1
    <3>3. CASE T \ {z} # {}
      <4>1. PICK x \in T \ {z} : \A y \in T \ {z} : x >= y
        BY <3>1, <3>3
      <4>2. PICK u \in T \ {z} : \A y \in T \ {z} : u =< y
        BY <3>1, <3>3
      <4>3. x \in Int /\ z \in Int /\ u \in Int /\ \A y \in T : y \in Int
        OBVIOUS
      <4>4. \E v \in T : \A y \in T : v >= y
        <5>1. CASE x >= z
          <6>1. \A y \in T : x >= y
            BY <4>1, <5>1
          <6> QED  BY <6>1
        <5>2. CASE ~(x >= z)
          <6>1. \A y \in T : z >= y
            BY <4>1, <4>3, <5>2
          <6> QED  BY <6>1
        <5> QED  BY <5>1, <5>2
      <4>5. \E v \in T : \A y \in T : v =< y
        <5>1. CASE u =< z
          <6>1. \A y \in T : u =< y
            BY <4>2, <5>1
          <6> QED  BY <6>1
        <5>2. CASE ~(u =< z)
          <6>1. \A y \in T : z =< y
            BY <4>2, <4>3, <5>2
          <6> QED  BY <6>1
        <5> QED  BY <5>1, <5>2
      <4> QED  BY <4>4, <4>5
    <3> QED  BY <3>2, <3>3
  <2> QED  BY <2>1, <2>2
<1>2. S \in B
  <2>1. \A T \in SUBSET S : (\A x \in T : T \ {x} \in B) => T \in B
    BY <1>1
  <2> HIDE DEF B
  <2>2. \A T \in SUBSET S : T \in B
    BY <2>1, SubsetInduction
  <2> QED  BY <2>2
<1>3. (\E x \in S : \A y \in S : x >= y) /\ (\E x \in S : \A y \in S : x =< y)
  BY <1>2
<1> QED  BY <1>3 DEF Max, Min

\* The graph and the communities that louvainPhase1 works with.
LouvainOK ==
  step # "idle" =>
    /\ WeightsOK(aug)
    /\ DOMAIN comm = DOMAIN aug /\ DOMAIN comm \subseteq Nat
    /\ comm = [n \in DOMAIN comm |-> comm[n]]
    /\ \A n \in DOMAIN comm : comm[n] \in Nat
    /\ todo \subseteq DOMAIN comm

\* A pass that has moved nothing so far has visited only modules that no
\* neighbouring community attracts.
NoneAttracted ==
  step = "louvain" /\ ~moved =>
    \A n \in DOMAIN comm \ todo : \A c \in Candidates(n) : Gain(n, c) <= 0

LouvainInv == LouvainOK /\ NoneAttracted

\* The best community is the present one when no other has a positive gain, and
\* one of a gain that is not negative otherwise.
LEMMA BestIsNoLoss ==
  ASSUME LouvainOK, step = "louvain", NEW n \in DOMAIN comm
  PROVE  /\ BestCommunity(n) \in Nat
         /\ \/ BestCommunity(n) = comm[n] /\ \A c \in Candidates(n) : Gain(n, c) <= 0
            \/ BestCommunity(n) # comm[n] /\ Gain(n, BestCommunity(n)) >= 0
<1> DEFINE K == Candidates(n) \cup {comm[n]}
           gain == [c \in K |-> IF c = comm[n] THEN 0 ELSE Gain(n, c)]
           values == {gain[c] : c \in DOMAIN gain}
           best == Max(values)
           ties == {c \in DOMAIN gain : gain[c] = best}
<1>0. /\ WeightsOK(aug) /\ DOMAIN comm = DOMAIN aug /\ comm = [x \in DOMAIN comm |-> comm[x]]
      /\ \A x \in DOMAIN comm : comm[x] \in Nat
  BY DEF LouvainOK
<1>1. K \subseteq Nat /\ comm[n] \in K /\ comm[n] \notin Candidates(n)
  BY <1>0 DEF Candidates
<1>2. IsFiniteSet(K)
  <2> DEFINE labels == {comm[x] : x \in DOMAIN comm}
             s == [x \in DOMAIN comm |-> comm[x]]
  <2>1. s \in Surjection(DOMAIN comm, labels)
    BY DEF Surjection
  <2>2. K \subseteq labels
    BY DEF Candidates
  <2> HIDE DEF labels, s, K
  <2>3. IsFiniteSet(labels)
    BY <1>0, <2>1, FS_Surjection DEF WeightsOK
  <2> QED  BY <2>2, <2>3, FS_Subset
<1>3. \A c \in Candidates(n) : Gain(n, c) \in Int
  <2> SUFFICES ASSUME NEW c \in Candidates(n) PROVE Gain(n, c) \in Int
    OBVIOUS
  <2>1. c # comm[n]
    BY <1>1
  <2> QED  BY <1>0, <2>1, GainIsChange
<1>4. /\ DOMAIN gain = K /\ gain[comm[n]] = 0
      /\ \A c \in K : gain[c] \in Int
      /\ \A c \in Candidates(n) : gain[c] = Gain(n, c)
  BY <1>1, <1>3
<1>5. values \subseteq Int /\ values # {} /\ 0 \in values /\ \A c \in K : gain[c] \in values
  <2> HIDE DEF gain, K
  <2> QED  BY <1>1, <1>4
<1>6. IsFiniteSet(values)
  <2> DEFINE s == [c \in K |-> gain[c]]
  <2>1. s \in Surjection(K, values)
    <3> HIDE DEF K, gain
    <3> QED  BY <1>4 DEF Surjection
  <2> HIDE DEF K, values, s
  <2> QED  BY <1>2, <2>1, FS_Surjection
<1> HIDE DEF values
<1>7. best \in values /\ \A v \in values : best >= v
  BY <1>5, <1>6, MaxMin
<1>8. best \in Int /\ best >= 0
  BY <1>5, <1>7
<1>9. ties \subseteq K /\ ties # {}
  <2> HIDE DEF gain, K, best
  <2>1. \E c \in K : gain[c] = best
    BY <1>4, <1>7 DEF values
  <2> QED  BY <1>4, <2>1
<1>10. Min(ties) \in ties
  <2> HIDE DEF ties, K
  <2>1. IsFiniteSet(ties) /\ ties \subseteq Int
    <3>1. IsFiniteSet(ties)
      BY <1>2, <1>9, FS_Subset
    <3>2. ties \subseteq Int
      BY <1>1, <1>9
    <3> QED  BY <3>1, <3>2
  <2> QED  BY <1>9, <2>1, MaxMin
<1>11. BestCommunity(n) = Min(ties)
  BY DEF BestCommunity, values
<1> DEFINE b == BestCommunity(n)
<1>12. b \in K /\ gain[b] = best
  <2> HIDE DEF gain, K, best
  <2> QED  BY <1>4, <1>10, <1>11
<1> HIDE DEF gain, ties, best, b
<1>13. CASE b = comm[n]
  <2>1. best = 0
    BY <1>4, <1>12, <1>13
  <2>2. \A c \in Candidates(n) : Gain(n, c) <= 0
    <3> SUFFICES ASSUME NEW c \in Candidates(n) PROVE Gain(n, c) <= 0
      OBVIOUS
    <3>1. gain[c] \in values /\ gain[c] = Gain(n, c)
      BY <1>4, <1>5
    <3>2. 0 >= Gain(n, c) /\ Gain(n, c) \in Int
      BY <1>3, <1>7, <2>1, <3>1
    <3> QED  BY <3>2
  <2> QED  BY <1>1, <1>13, <2>2 DEF b
<1>14. CASE b # comm[n]
  <2>1. b \in Candidates(n)
    BY <1>12, <1>14
  <2>2. Gain(n, b) >= 0
    BY <1>4, <1>8, <1>12, <2>1
  <2> QED  BY <1>1, <1>12, <1>14, <2>2 DEF b
<1> QED  BY <1>13, <1>14

\* The weights between the members of two finite sets are finitely many.
LEMMA PairWeightsFinite ==
  ASSUME NEW D, IsFiniteSet(D), NEW w
  PROVE  IsFiniteSet({w[a][b] : a, b \in D})
<1> DEFINE Weights(T) == {w[a][b] : a \in T, b \in D}
           row(x) == {w[x][b] : b \in D}
           B == {T \in SUBSET D : IsFiniteSet(Weights(T))}
<1>1. ASSUME NEW x PROVE IsFiniteSet(row(x))
  <2> DEFINE s == [b \in D |-> w[x][b]]
  <2>1. s \in Surjection(D, row(x))
    BY DEF Surjection
  <2> HIDE DEF s, row
  <2> QED  BY <2>1, FS_Surjection
<1>2. Weights({}) = {}
  OBVIOUS
<1>3. \A T : \A x \in T : Weights(T) = Weights(T \ {x}) \cup row(x)
  OBVIOUS
<1>4. Weights(D) = {w[a][b] : a, b \in D}
  OBVIOUS
<1> HIDE DEF Weights, row
<1>5. \A T \in SUBSET D : (\A x \in T : T \ {x} \in B) => T \in B
  <2> SUFFICES ASSUME NEW T \in SUBSET D, \A x \in T : T \ {x} \in B PROVE IsFiniteSet(Weights(T))
    OBVIOUS
  <2>1. CASE T = {}
    <3>1. IsFiniteSet({}) /\ Weights(T) = {}
      BY <1>2, <2>1, FS_EmptySet
    <3> QED  BY <3>1
  <2>2. CASE T # {}
    <3>1. PICK x \in T : TRUE
      BY <2>2
    <3>2. IsFiniteSet(Weights(T \ {x})) /\ IsFiniteSet(row(x))
      BY <1>1
    <3>3. IsFiniteSet(Weights(T \ {x}) \cup row(x))
      BY <3>2, FS_Union
    <3>4. Weights(T) = Weights(T \ {x}) \cup row(x)
      BY <1>3
    <3> QED  BY <3>3, <3>4
  <2> QED  BY <2>1, <2>2
<1>6. IsFiniteSet(Weights(D))
  <2> HIDE DEF B
  <2>1. D \in B
    BY <1>5, SubsetInduction
  <2> QED  BY <2>1 DEF B
<1> QED  BY <1>4, <1>6

\* The affinity edges keep the graph undirected and its weights natural.
LEMMA AugmentedOK ==
  ASSUME NEW D, IsFiniteSet(D), NEW edge, NEW group,
         \A a, b \in D : edge[a][b] \in Nat
  PROVE  WeightsOK(Augmented(Projection(D, edge), group))
         /\ DOMAIN Augmented(Projection(D, edge), group) = D
<1> DEFINE w == Projection(D, edge)
           all == {1} \cup {w[a][b] : a, b \in D}
           heaviest == Max(all)
           v == Augmented(w, group)
<1>1. /\ DOMAIN w = D
      /\ \A a \in D : DOMAIN w[a] = D
      /\ \A a, b \in D : w[a][b] = (IF a = b THEN 0 ELSE edge[a][b] + edge[b][a])
  BY DEF Projection
<1> HIDE DEF w
<1>2. \A a, b \in D : w[a][b] \in Nat /\ w[a][b] = w[b][a]
  <2> SUFFICES ASSUME NEW a \in D, NEW b \in D PROVE w[a][b] \in Nat /\ w[a][b] = w[b][a]
    OBVIOUS
  <2>1. edge[a][b] \in Nat /\ edge[b][a] \in Nat
    OBVIOUS
  <2> QED  BY <1>1, <2>1
<1>3. heaviest \in Nat
  <2>1. IsFiniteSet(all)
    <3> DEFINE pairs == {w[a][b] : a, b \in D}
    <3>1. IsFiniteSet({w[a][b] : a, b \in D})
      BY PairWeightsFinite
    <3>2. IsFiniteSet(pairs)
      BY <3>1
    <3>3. IsFiniteSet({1})
      BY FS_Singleton
    <3> HIDE DEF pairs
    <3>4. IsFiniteSet({1} \cup pairs)
      BY <3>2, <3>3, FS_Union
    <3> QED  BY <3>4 DEF pairs
  <2>2. all \subseteq Nat /\ 1 \in all
    BY <1>2
  <2> HIDE DEF all
  <2>3. all \subseteq Int /\ all # {}
    BY <2>2
  <2>4. Max(all) \in all
    BY <2>1, <2>3, MaxMin
  <2> QED  BY <2>2, <2>4
<1>4. v = [a \in D |-> [b \in D |->
             w[a][b] + IF a # b /\ group[a] = group[b] THEN BiasMultiplier * heaviest ELSE 0]]
  BY <1>1 DEF Augmented
<1> HIDE DEF heaviest, v
<1>5. DOMAIN v = D /\ v = [a \in D |-> v[a]] /\ \A a \in D : DOMAIN v[a] = D
  BY <1>4
<1>6. ASSUME NEW a \in D, NEW b \in D PROVE v[a][b] \in Nat /\ v[a][b] = v[b][a]
  <2>1. v[a][b] = w[a][b] + IF a # b /\ group[a] = group[b] THEN 4 * heaviest ELSE 0
    BY <1>4 DEF BiasMultiplier
  <2>2. v[b][a] = w[b][a] + IF b # a /\ group[b] = group[a] THEN 4 * heaviest ELSE 0
    BY <1>4 DEF BiasMultiplier
  <2>3. w[a][b] \in Nat /\ w[a][b] = w[b][a]
    BY <1>2
  <2> QED  BY <1>3, <2>1, <2>2, <2>3
<1> QED  BY <1>5, <1>6 DEF WeightsOK, v, w

\* The module that MoveModule visits is one of the graph.
LEMMA VisitedIsModule ==
  ASSUME LouvainOK, MoveModule
  PROVE  Min(todo) \in todo /\ Min(todo) \in DOMAIN comm
<1>1. /\ IsFiniteSet(DOMAIN comm) /\ DOMAIN comm \subseteq Nat
      /\ todo \subseteq DOMAIN comm /\ todo # {}
  BY DEF LouvainOK, WeightsOK, MoveModule
<1>2. IsFiniteSet(todo) /\ todo \subseteq Int
  <2>1. IsFiniteSet(todo)
    BY <1>1, FS_Subset
  <2>2. todo \subseteq Int
    BY <1>1
  <2> QED  BY <2>1, <2>2
<1>3. Min(todo) \in todo
  BY <1>1, <1>2, MaxMin
<1> QED  BY <1>1, <1>3

\* Candidates and gains are those of the graph and of the communities.
LEMMA GraphKept ==
  ASSUME aug' = aug, comm' = comm
  PROVE  \A x : Candidates(x)' = Candidates(x) /\ \A c : Gain(x, c)' = Gain(x, c)
<1> SUFFICES ASSUME NEW x PROVE Candidates(x)' = Candidates(x) /\ \A c : Gain(x, c)' = Gain(x, c)
  OBVIOUS
<1>1. Candidates(x)' = Candidates(x)
  BY DEF Candidates
<1>2. ASSUME NEW c PROVE Gain(x, c)' = Gain(x, c)
  BY DEF Gain, Members
<1> QED  BY <1>1, <1>2

\* Every step of the clusterer keeps the invariant.
LEMMA LouvainStep == LouvainInv /\ [ClusterNext]_clusterVars => LouvainInv'
<1> SUFFICES ASSUME LouvainInv, [ClusterNext]_clusterVars
             PROVE  LouvainInv'
  OBVIOUS
<1> USE DEF LouvainInv
<1>1. ASSUME NEW D \in SUBSET Modules, NEW edge \in [Modules -> [Modules -> Nat]],
             NEW group \in [Modules -> Nat], StartClustering(D, edge, group)
      PROVE  LouvainInv'
  <2>1. IsFiniteSet(D) /\ D \subseteq Nat
    BY ModulesAssumption, FS_Subset
  <2>2. aug' = Augmented(Projection(D, edge), group) /\ comm' = [n \in D |-> group[n]]
        /\ todo' = D /\ moved' = FALSE
    BY <1>1 DEF StartClustering
  <2>3. WeightsOK(aug') /\ DOMAIN aug' = D
    <3>1. \A a, b \in D : edge[a][b] \in Nat
      <4> SUFFICES ASSUME NEW a \in D, NEW b \in D PROVE edge[a][b] \in Nat
        OBVIOUS
      <4>1. edge[a] \in [Modules -> Nat]
        OBVIOUS
      <4> QED  BY <4>1
    <3> QED  BY <2>1, <2>2, <3>1, AugmentedOK
  <2>4. DOMAIN comm' = D /\ comm' = [n \in DOMAIN comm' |-> comm'[n]] /\ \A n \in D : comm'[n] \in Nat
    BY <2>2
  <2>5. WeightsOK(aug)' /\ NoneAttracted'
    BY <2>2, <2>3, <2>4 DEF WeightsOK, NoneAttracted
  <2> QED  BY <2>1, <2>2, <2>3, <2>4, <2>5 DEF LouvainOK
<1>2. CASE MoveModule
  <2> DEFINE n == Min(todo)
  <2>1. /\ WeightsOK(aug) /\ DOMAIN comm = DOMAIN aug /\ comm = [x \in DOMAIN comm |-> comm[x]]
        /\ \A x \in DOMAIN comm : comm[x] \in Nat
        /\ todo \subseteq DOMAIN comm /\ todo # {} /\ step = "louvain"
    BY <1>2 DEF MoveModule, LouvainOK
  <2>2. n \in DOMAIN comm /\ n \in todo
    BY <1>2, VisitedIsModule
  <2>3. /\ comm' = [comm EXCEPT ![n] = BestCommunity(n)]
        /\ moved' = (moved \/ comm'[n] # comm[n])
        /\ todo' = todo \ {n} /\ step' = step /\ aug' = aug
    BY <1>2 DEF MoveModule
  <2> HIDE DEF n
  <2>4. /\ BestCommunity(n) \in Nat
        /\ BestCommunity(n) = comm[n] => \A c \in Candidates(n) : Gain(n, c) <= 0
    BY <2>1, <2>2, BestIsNoLoss
  <2>5. LouvainOK'
    BY <2>1, <2>2, <2>3, <2>4 DEF LouvainOK, WeightsOK
  <2>6. ASSUME ~moved' PROVE NoneAttracted'
    <3>1. ~moved /\ comm'[n] = comm[n]
      BY <2>3, <2>6
    <3>2. BestCommunity(n) = comm[n] /\ comm' = comm
      BY <2>1, <2>2, <2>3, <3>1
    <3>3. \A x \in DOMAIN comm \ todo' : \A c \in Candidates(x) : Gain(x, c) <= 0
      BY <2>1, <2>3, <2>4, <3>1, <3>2 DEF NoneAttracted
    <3>4. \A x : Candidates(x)' = Candidates(x) /\ \A c : Gain(x, c)' = Gain(x, c)
      BY <2>3, <3>2, GraphKept
    <3> QED  BY <3>2, <3>3, <3>4 DEF NoneAttracted
  <2> QED  BY <2>5, <2>6 DEF NoneAttracted
<1>3. CASE EndPass
  <2>1. aug' = aug /\ comm' = comm /\ todo' = DOMAIN comm /\ step = "louvain"
    BY <1>3 DEF EndPass
  <2> QED  BY <2>1 DEF LouvainOK, WeightsOK, NoneAttracted
<1>4. ASSUME NEW n \in todo, AbsorbModule(n)
      PROVE  LouvainInv'
  <2>1. step = "absorb" /\ step' = step /\ aug' = aug /\ todo' \subseteq todo
    BY <1>4 DEF AbsorbModule
  <2>2. CASE comm' = comm
    BY <2>1, <2>2 DEF LouvainOK, WeightsOK, NoneAttracted
  <2>3. ASSUME NEW b \in Heaviest(n), comm' = [comm EXCEPT ![n] = comm[b]] PROVE LouvainInv'
    <3>1. b \in DOMAIN comm
      BY DEF Heaviest, Outside
    <3> QED  BY <2>1, <2>3, <3>1 DEF LouvainOK, WeightsOK, NoneAttracted
  <2>4. comm' = comm \/ \E b \in Heaviest(n) : comm' = [comm EXCEPT ![n] = comm[b]]
    BY <1>4 DEF AbsorbModule
  <2> QED  BY <2>2, <2>3, <2>4
<1>5. CASE EndAbsorbPass
  <2>1. /\ step = "absorb" /\ step' \in {"absorb", "clustered"}
        /\ aug' = aug /\ comm' = comm /\ todo' \subseteq DOMAIN comm
    BY <1>5 DEF EndAbsorbPass
  <2> QED  BY <2>1 DEF LouvainOK, WeightsOK, NoneAttracted
<1>6. CASE UNCHANGED clusterVars
  <2>1. LouvainOK'
    BY <1>6 DEF clusterVars, LouvainOK, WeightsOK
  <2>2. \A x : Candidates(x)' = Candidates(x) /\ \A c : Gain(x, c)' = Gain(x, c)
    BY <1>6, GraphKept DEF clusterVars
  <2>3. NoneAttracted'
    BY <1>6, <2>2 DEF clusterVars, NoneAttracted
  <2> QED  BY <2>1, <2>3
<1> QED  BY <1>1, <1>2, <1>3, <1>4, <1>5, <1>6 DEF ClusterNext, ClusterStep

\* There is nothing to cluster at first.
LEMMA LouvainInit == ClusterInit => LouvainInv
BY DEF ClusterInit, LouvainInv, LouvainOK, NoneAttracted

\* Modularity is an integer.
LEMMA ModularityType ==
  ASSUME LouvainOK, step # "idle"
  PROVE  Modularity(aug, comm) \in Int
<1> DEFINE labels == {comm[x] : x \in DOMAIN comm}
           s == [x \in DOMAIN comm |-> comm[x]]
           g == [c \in labels |-> Share(aug, Class(comm, c))]
<1>1. WeightsOK(aug) /\ DOMAIN comm = DOMAIN aug
  BY DEF LouvainOK
<1>2. s \in Surjection(DOMAIN comm, labels) /\ \A n \in DOMAIN comm : comm[n] \in labels
  BY DEF Surjection
<1> HIDE DEF labels, s
<1>3. IsFiniteSet(labels)
  BY <1>1, <1>2, FS_Surjection DEF WeightsOK
<1>4. Modularity(aug, comm) = SumFunctionOnSet(g, labels) /\ IntOn(g, labels)
  BY <1>1, <1>2, <1>3, ModularityOver
<1> HIDE DEF g
<1> QED  BY <1>3, <1>4, SumType

\* ModularityNeverDrops for every set of modules, all import weights and every
\* blueprint grouping: the gain that the code derives from the weights between
\* a module and two communities and from their degrees is exactly the change of
\* modularity, so that no visit of louvainPhase1 lowers it.
THEOREM GainsAreReal == ClusterSpec => ModularityNeverDrops
<1>1. LouvainInv /\ [ClusterNext]_clusterVars =>
        [step = "louvain" => Modularity(aug, comm') >= Modularity(aug, comm)]_clusterVars
  <2> SUFFICES ASSUME LouvainInv, ClusterNext, step = "louvain"
               PROVE  Modularity(aug, comm') >= Modularity(aug, comm)
    OBVIOUS
  <2>1. MoveModule \/ EndPass
    BY DEF ClusterNext, ClusterStep, StartClustering, AbsorbModule, EndAbsorbPass
  <2>2. CASE comm' = comm
    <3>1. Modularity(aug, comm) \in Int
      BY ModularityType DEF LouvainInv
    <3>2. Modularity(aug, comm) >= Modularity(aug, comm)
      BY <3>1
    <3> QED  BY <2>2, <3>2
  <2>3. CASE comm' # comm
    <3> DEFINE n == Min(todo)
               c == BestCommunity(n)
    <3>1. MoveModule
      BY <2>1, <2>3 DEF EndPass
    <3>2. n \in DOMAIN comm /\ comm' = [comm EXCEPT ![n] = c]
      BY <3>1, VisitedIsModule DEF MoveModule, LouvainInv
    <3>3. WeightsOK(aug) /\ DOMAIN comm = DOMAIN aug /\ comm = [x \in DOMAIN comm |-> comm[x]]
      BY DEF LouvainInv, LouvainOK
    <3> HIDE DEF n
    <3>4. c # comm[n]
      BY <2>3, <3>2, <3>3
    <3>5. Gain(n, c) >= 0
      BY <3>2, <3>4, BestIsNoLoss DEF LouvainInv
    <3> HIDE DEF c
    <3>6. /\ Modularity(aug, comm') - Modularity(aug, comm) = 2 * Gain(n, c)
          /\ Gain(n, c) \in Int
          /\ Modularity(aug, comm) \in Int /\ Modularity(aug, comm') \in Int
      BY <3>2, <3>3, <3>4, GainIsChange
    <3> QED  BY <3>5, <3>6
  <2> QED  BY <2>2, <2>3
<1> QED  BY <1>1, LouvainInit, LouvainStep, PTL DEF ClusterSpec, ModularityNeverDrops

\* LouvainIsSettled for every set of modules, all import weights and every
\* blueprint grouping: a pass that moves nothing has visited every module, and
\* what it saw of each was still true when it ended.
THEOREM LouvainSettles == ClusterSpec => LouvainIsSettled
<1>1. LouvainInv /\ [ClusterNext]_clusterVars =>
        [step = "louvain" /\ step' # "louvain" => Settled]_clusterVars
  <2> SUFFICES ASSUME LouvainInv, ClusterNext, step = "louvain", step' # "louvain",
                      NEW n \in DOMAIN comm, NEW b \in DOMAIN comm, aug[n][b] > 0
               PROVE  Modularity(aug, [comm EXCEPT ![n] = comm[b]]) <= Modularity(aug, comm)
    BY DEF Settled
  <2>1. todo = {} /\ ~moved
    BY DEF ClusterNext, ClusterStep, StartClustering, MoveModule, EndPass, AbsorbModule, EndAbsorbPass
  <2>2. /\ WeightsOK(aug) /\ DOMAIN comm = DOMAIN aug /\ comm = [x \in DOMAIN comm |-> comm[x]]
        /\ Modularity(aug, comm) \in Int
    BY ModularityType DEF LouvainInv, LouvainOK
  <2>3. CASE comm[b] = comm[n]
    <3>1. [comm EXCEPT ![n] = comm[b]] = comm
      BY <2>2, <2>3
    <3>2. Modularity(aug, comm) <= Modularity(aug, comm)
      BY <2>2
    <3> QED  BY <3>1, <3>2
  <2>4. CASE comm[b] # comm[n]
    <3>1. comm[b] \in Candidates(n)
      BY <2>4 DEF Candidates
    <3>2. Gain(n, comm[b]) <= 0
      BY <2>1, <3>1 DEF LouvainInv, NoneAttracted
    <3> DEFINE c == comm[b]
               after == Modularity(aug, [comm EXCEPT ![n] = c])
               before == Modularity(aug, comm)
    <3>3. c # comm[n]
      BY <2>4
    <3> HIDE DEF c
    <3>4. after - before = 2 * Gain(n, c) /\ Gain(n, c) \in Int /\ before \in Int /\ after \in Int
      BY <2>2, <3>3, GainIsChange
    <3> HIDE DEF after, before
    <3>5. after <= before
      BY <3>2, <3>4 DEF c
    <3> QED  BY <3>5 DEF after, before, c
  <2> QED  BY <2>3, <2>4
<1> QED  BY <1>1, LouvainInit, LouvainStep, PTL DEF ClusterSpec, LouvainIsSettled
=============================================================================
