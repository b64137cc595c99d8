------------------------ MODULE AnalysisStagesProofs -------------------------
(***************************************************************************)
(* The jobs of the analysis worker and the caches that they share, for     *)
(* every number of jobs, trees, packages, releases, disclosures and        *)
(* crashes. First lists and finite sets, then every step of a job: it      *)
(* brings the job nearer to its end. Then stage 5: what lies in the cache  *)
(* of advisories is an answer to its key, whoever put it there, and every  *)
(* key of a job is cached, fetched, still asked for or lost. At last what  *)
(* stage 6 makes of the cards of modules that nothing imports.             *)
(***************************************************************************)
EXTENDS AnalysisStages, FiniteSetTheorems, WellFoundedInduction, TLAPS

-----------------------------------------------------------------------------
(* Lists and finite sets. *)

\* A set of subsets that holds every subset all of whose parts with one element
\* less it holds is the set of all subsets.
LEMMA SubsetInduction ==
  ASSUME NEW S, IsFiniteSet(S), NEW B,
         \A T \in SUBSET S : (\A x \in T : T \ {x} \in B) => T \in B
  PROVE  \A T \in SUBSET S : T \in B
<1> DEFINE bad == {T \in SUBSET S : T \notin B}
           R == StrictSubsetOrdering(S)
<1>1. IsWellFoundedOn(R, SUBSET S)
  BY FS_StrictSubsetOrderingWellFounded, FS_FiniteSubsetsOfFinite
<1>2. ASSUME bad # {} PROVE \E T \in bad : \A U \in bad : ~ (<<U, T>> \in R)
  <2>1. bad \subseteq SUBSET S
    OBVIOUS
  <2> HIDE DEF bad, R
  <2> QED  BY <1>1, <1>2, <2>1, WFMin, Zenon
<1>3. ASSUME NEW T \in SUBSET S, NEW x \in T PROVE <<T \ {x}, T>> \in R
  BY DEF StrictSubsetOrdering
<1>4. bad = {}
  <2> SUFFICES ASSUME bad # {} PROVE FALSE
    OBVIOUS
  <2>1. PICK T \in bad : \A U \in bad : ~ (<<U, T>> \in R)
    BY <1>2
  <2>2. \A x \in T : T \ {x} \in B
    BY <1>3, <2>1
  <2> QED  BY <2>1, <2>2
<1> QED  BY <1>4

\* The members of two lists in a row.
LEMMA JoinedMembers ==
  ASSUME NEW V
  PROVE  \A p, q \in Seq(V) : p \o q \in Seq(V) /\ ToSet(p \o q) = ToSet(p) \cup ToSet(q)
<1> SUFFICES ASSUME NEW p \in Seq(V), NEW q \in Seq(V)
             PROVE  p \o q \in Seq(V) /\ ToSet(p \o q) = ToSet(p) \cup ToSet(q)
  OBVIOUS
<1>1. /\ p \o q \in Seq(V) /\ DOMAIN (p \o q) = 1 .. Len(p) + Len(q)
      /\ DOMAIN p = 1 .. Len(p) /\ DOMAIN q = 1 .. Len(q) /\ Len(p) \in Nat /\ Len(q) \in Nat
  OBVIOUS
<1>2. \A i \in 1 .. Len(p) : (p \o q)[i] = p[i]
  OBVIOUS
<1>3. \A i \in 1 .. Len(q) : (p \o q)[Len(p) + i] = q[i]
  OBVIOUS
<1>4. ToSet(p) \subseteq ToSet(p \o q)
  BY <1>1, <1>2 DEF ToSet
<1>5. ToSet(q) \subseteq ToSet(p \o q)
  <2> SUFFICES ASSUME NEW i \in 1 .. Len(q) PROVE q[i] \in ToSet(p \o q)
    BY <1>1 DEF ToSet
  <2>1. Len(p) + i \in DOMAIN (p \o q) /\ (p \o q)[Len(p) + i] = q[i]
    BY <1>1, <1>3
  <2> QED  BY <2>1 DEF ToSet
<1>6. ToSet(p \o q) \subseteq ToSet(p) \cup ToSet(q)
  <2> SUFFICES ASSUME NEW i \in 1 .. Len(p) + Len(q) PROVE (p \o q)[i] \in ToSet(p) \cup ToSet(q)
    BY <1>1 DEF ToSet
  <2>1. CASE i <= Len(p)
    BY <1>1, <1>2, <2>1 DEF ToSet
  <2>2. CASE i > Len(p)
    <3>1. i - Len(p) \in 1 .. Len(q) /\ i = Len(p) + (i - Len(p))
      BY <1>1, <2>2
    <3>2. (p \o q)[i] = q[i - Len(p)]
      BY <1>3, <3>1
    <3> QED  BY <1>1, <3>1, <3>2 DEF ToSet
  <2> QED  BY <1>1, <2>1, <2>2
<1> QED  BY <1>1, <1>4, <1>5, <1>6

\* A property of the numbers from 1 to n that the first has, and every one after
\* one that has it.
LEMMA IntervalInduction ==
  ASSUME NEW n \in Nat, NEW B, \A k \in 1 .. n : k = 1 \/ k - 1 \in B => k \in B
  PROVE  \A k \in 1 .. n : k \in B
<1> DEFINE S == 1 .. n
           Least == {T \in SUBSET S : T = {} \/ \E x \in T : \A y \in T : x =< y}
           bad == {k \in S : k \notin B}
<1>1. IsFiniteSet(S)
  BY FS_Interval
<1>2. \A T \in SUBSET S : (\A x \in T : T \ {x} \in Least) => T \in Least
  <2> SUFFICES ASSUME NEW T \in SUBSET S, \A x \in T : T \ {x} \in Least, NEW z \in T
               PROVE  \E x \in T : \A y \in T : x =< y
    OBVIOUS
  <2>1. T \ {z} = {} \/ \E x \in T \ {z} : \A y \in T \ {z} : x =< y
    OBVIOUS
  <2>2. CASE T \ {z} = {}
    <3>1. \A y \in T : z =< y
      BY <2>2
    <3> QED  BY <3>1
  <2>3. ASSUME NEW x \in T \ {z}, \A y \in T \ {z} : x =< y
        PROVE  \E u \in T : \A y \in T : u =< y
    <3>1. CASE x =< z
      <4>1. \A y \in T : x =< y
        BY <2>3, <3>1
      <4> QED  BY <4>1
    <3>2. CASE ~(x =< z)
      <4>1. \A y \in T : z =< y
        BY <2>3, <3>2
      <4> QED  BY <4>1
    <3> QED  BY <3>1, <3>2
  <2> QED  BY <2>1, <2>2, <2>3
<1>3. bad \in Least
  <2>1. bad \in SUBSET S
    OBVIOUS
  <2> HIDE DEF Least, bad, S
  <2> QED  BY <1>1, <1>2, <2>1, SubsetInduction
<1>4. bad = {}
  <2> SUFFICES ASSUME bad # {} PROVE FALSE
    OBVIOUS
  <2>1. PICK x \in bad : \A y \in bad : x =< y
    BY <1>3
  <2>2. x = 1 \/ x - 1 \in B
    BY <2>1
  <2> QED  BY <2>2
<1> QED  BY <1>4


\* F joins the first k lists of s.
Joins(F, s, k) == F = [i \in 1 .. k |-> IF i = 1 THEN s[i] ELSE F[i - 1] \o s[i]]

\* There is such a function for every k.
LEMMA JoinsExist ==
  ASSUME NEW n \in Nat, NEW s
  PROVE  \A k \in 1 .. n : \E F : Joins(F, s, k)
<1> DEFINE B == {k \in 1 .. n : \E F : Joins(F, s, k)}
<1>1. ASSUME NEW k \in 1 .. n, k = 1 \/ k - 1 \in B PROVE k \in B
  <2>1. CASE k = 1
    <3> DEFINE F == [i \in 1 .. 1 |-> s[i]]
    <3>1. F = [i \in 1 .. 1 |-> IF i = 1 THEN s[i] ELSE F[i - 1] \o s[i]]
      OBVIOUS
    <3> HIDE DEF F
    <3>2. Joins(F, s, 1)
      BY <3>1 DEF Joins
    <3> QED  BY <2>1, <3>2
  <2>2. CASE k # 1
    <3>1. PICK G : Joins(G, s, k - 1)
      BY <1>1, <2>2
    <3> DEFINE F == [i \in 1 .. k |-> IF i = k THEN G[k - 1] \o s[k] ELSE G[i]]
    <3>2. \A i \in 1 .. k - 1 : G[i] = (IF i = 1 THEN s[i] ELSE G[i - 1] \o s[i])
      BY <3>1 DEF Joins
    <3>3. F = [i \in 1 .. k |-> IF i = 1 THEN s[i] ELSE F[i - 1] \o s[i]]
      <4>1. \A i \in 1 .. k : F[i] = (IF i = 1 THEN s[i] ELSE F[i - 1] \o s[i])
        BY <2>2, <3>2
      <4>2. DOMAIN F = 1 .. k /\ F = [i \in 1 .. k |-> F[i]]
        OBVIOUS
      <4> HIDE DEF F
      <4> QED  BY <4>1, <4>2
    <3> HIDE DEF F
    <3>4. Joins(F, s, k)
      BY <3>3 DEF Joins
    <3> QED  BY <3>4
  <2> QED  BY <2>1, <2>2
<1>2. \A k \in 1 .. n : k = 1 \/ k - 1 \in B => k \in B
  BY <1>1
<1>3. \A k \in 1 .. n : k \in B
  <2> HIDE DEF B
  <2> QED  BY <1>2, IntervalInduction
<1> QED  BY <1>3

\* The members of joined lists are those of the lists.
LEMMA FlattenMembers ==
  ASSUME NEW V, NEW s \in Seq(Seq(V))
  PROVE  \A x : x \in ToSet(FlattenSeq(s)) <=> \E i \in DOMAIN s : x \in ToSet(s[i])
<1> DEFINE n == Len(s)
<1>0. n \in Nat /\ DOMAIN s = 1 .. n /\ \A i \in 1 .. n : s[i] \in Seq(V)
  OBVIOUS
<1>1. CASE n = 0
  <2>1. FlattenSeq(s) = s
    BY <1>0, <1>1 DEF FlattenSeq
  <2> QED  BY <1>0, <1>1, <2>1 DEF ToSet
<1>2. CASE n # 0
  <2> DEFINE F == CHOOSE G : Joins(G, s, n)
  <2>1. FlattenSeq(s) = F[n]
    BY <1>0, <1>2 DEF FlattenSeq, Joins
  <2> HIDE DEF n
  <2>2. Joins(F, s, n)
    <3>1. n \in 1 .. n
      BY <1>0, <1>2
    <3> QED  BY <1>0, <3>1, JoinsExist
  <2> HIDE DEF F
  <2>3. \A i \in 1 .. n : F[i] = (IF i = 1 THEN s[i] ELSE F[i - 1] \o s[i])
    BY <2>2 DEF Joins
  <2> DEFINE B == {k \in 1 .. n :
                     /\ F[k] \in Seq(V)
                     /\ \A x : x \in ToSet(F[k]) <=> \E i \in 1 .. k : x \in ToSet(s[i])}
  <2>4. ASSUME NEW k \in 1 .. n, k = 1 \/ k - 1 \in B PROVE k \in B
    <3>1. CASE k = 1
      <4>1. F[k] = s[1] /\ s[1] \in Seq(V)
        BY <1>0, <2>3, <3>1
      <4> QED  BY <3>1, <4>1
    <3>2. CASE k # 1
      <4>1. /\ F[k] = F[k - 1] \o s[k] /\ F[k - 1] \in Seq(V) /\ s[k] \in Seq(V)
            /\ \A x : x \in ToSet(F[k - 1]) <=> \E i \in 1 .. k - 1 : x \in ToSet(s[i])
        BY <1>0, <2>3, <2>4, <3>2
      <4>2. \A p, q \in Seq(V) : p \o q \in Seq(V) /\ ToSet(p \o q) = ToSet(p) \cup ToSet(q)
        BY JoinedMembers
      <4>3. F[k] \in Seq(V) /\ ToSet(F[k]) = ToSet(F[k - 1]) \cup ToSet(s[k])
        BY <4>1, <4>2
      <4>4. 1 .. k = (1 .. k - 1) \cup {k}
        BY <1>0
      <4>5. ASSUME NEW x PROVE x \in ToSet(F[k]) <=> \E i \in 1 .. k : x \in ToSet(s[i])
        <5>1. x \in ToSet(F[k]) <=> x \in ToSet(F[k - 1]) \/ x \in ToSet(s[k])
          BY <4>3
        <5>2. (\E i \in 1 .. k : x \in ToSet(s[i])) <=>
                (\E i \in 1 .. k - 1 : x \in ToSet(s[i])) \/ x \in ToSet(s[k])
          BY <4>4, Zenon
        <5> QED  BY <4>1, <5>1, <5>2
      <4> QED  BY <4>3, <4>5
    <3> QED  BY <3>1, <3>2
  <2>5. \A k \in 1 .. n : k = 1 \/ k - 1 \in B => k \in B
    BY <2>4
  <2>6. \A k \in 1 .. n : k \in B
    <3> HIDE DEF B
    <3> QED  BY <1>0, <2>5, IntervalInduction
  <2>7. \A x : x \in ToSet(F[n]) <=> \E i \in 1 .. n : x \in ToSet(s[i])
    <3>1. n \in 1 .. n
      BY <1>0, <1>2
    <3> QED  BY <2>6, <3>1
  <2> QED  BY <1>0, <2>1, <2>7
<1> QED  BY <1>1, <1>2

\* A finite set in some order.
LEMMA OrdersOf ==
  ASSUME NEW S, IsFiniteSet(S)
  PROVE  /\ SetToSeq(S) \in Seq(S) /\ ToSet(SetToSeq(S)) = S
         /\ \A s \in SetToSeqs(S) : s \in Seq(S) /\ ToSet(s) = S
<1> DEFINE n == Cardinality(S)
<1>1. n \in Nat /\ ExistsBijection(1 .. n, S)
  BY FS_CardinalityType
<1>2. IsFiniteSet(1 .. n) /\ Cardinality(1 .. n) = n
  BY <1>1, FS_Interval
<1>3. ASSUME NEW s \in Injection(1 .. n, S) PROVE s \in Seq(S) /\ ToSet(s) = S
  <2>1. s \in Surjection(1 .. n, S)
    BY <1>2, <1>3, FS_Injection
  <2> HIDE DEF n
  <2> QED  BY <1>1, <2>1 DEF Surjection, ToSet
<1>4. ASSUME NEW s \in SetToSeqs(S) PROVE s \in Injection(1 .. n, S)
  BY <1>4 DEF SetToSeqs, Injection, IsInjective
<1>5. SetToSeq(S) \in Injection(1 .. n, S)
  <2>1. \E f \in [1 .. n -> S] : IsInjective(f)
    BY <1>1 DEF ExistsBijection, Bijection, Injection
  <2> QED  BY <2>1 DEF SetToSeq, Injection
<1> QED  BY <1>3, <1>4, <1>5

\* The smaller of the size of a batch and of what is left.
LEMMA ChunkSize ==
  ASSUME NEW k \in Nat
  PROVE  /\ Min({osvChunkSize, k}) \in 0 .. k
         /\ k > 0 => Min({osvChunkSize, k}) > 0
BY ChunkAssumption DEF Min

\* The two maps in one.
LEMMA OverIs ==
  ASSUME NEW f, NEW g
  PROVE  /\ DOMAIN Over(f, g) = DOMAIN f \cup DOMAIN g
         /\ \A x \in DOMAIN f : Over(f, g)[x] = f[x]
         /\ \A x \in DOMAIN g \ DOMAIN f : Over(f, g)[x] = g[x]
BY DEF Over

\* The summary has the vulnerabilities that it was given.
LEMMA ReportKeeps ==
  ASSUME NEW ws, NEW techs, NEW deps, NEW vulns
  PROVE  Assess(ws, techs, deps, vulns).vulnerabilities = vulns
BY DEF Assess, Summarize

\* A finite set stays finite when its members are replaced.
LEMMA MarkedFinite ==
  ASSUME NEW S, IsFiniteSet(S)
  PROVE  IsFiniteSet({withApproxMark(v) : v \in S})
<1> DEFINE T == {withApproxMark(v) : v \in S}
           f == [v \in S |-> withApproxMark(v)]
<1>1. f \in Surjection(S, T)
  BY DEF Surjection
<1> HIDE DEF T, f
<1>2. IsFiniteSet(T)
  BY <1>1, FS_Surjection
<1> QED  BY <1>2 DEF T

\* Finitely many advisories make finitely many vulnerabilities.
LEMMA AnswerFinite ==
  ASSUME NEW adv, NEW key, IsFiniteSet(Known(adv, key))
  PROVE  IsFiniteSet(Answer(adv, key))
<1> DEFINE S == Known(adv, key)
           T == {mapOSVVuln(v, key[2]) : v \in S}
           f == [v \in S |-> mapOSVVuln(v, key[2])]
<1>1. f \in Surjection(S, T)
  BY DEF Surjection
<1>2. IsFiniteSet(S)
  OBVIOUS
<1>3. Answer(adv, key) = T
  BY DEF Answer
<1> HIDE DEF S, T, f
<1>4. IsFiniteSet(T)
  BY <1>1, <1>2, FS_Surjection
<1> QED  BY <1>3, <1>4

\* What a dependency gets out of a cache.
LEMMA CollectedMembers ==
  ASSUME NEW d, NEW cache, d.approx \in BOOLEAN,
         ScanKey(d) \in DOMAIN cache => IsFiniteSet(cache[ScanKey(d)])
  PROVE  /\ Collected(d, cache) \in Seq(ToSet(Collected(d, cache)))
         /\ ToSet(Collected(d, cache)) =
              (IF d.version # NoVersion /\ ScanKey(d) \in DOMAIN cache
               THEN IF d.approx THEN {withApproxMark(v) : v \in cache[ScanKey(d)]}
                    ELSE cache[ScanKey(d)]
               ELSE {})
<1> DEFINE found == IF d.version # NoVersion /\ ScanKey(d) \in DOMAIN cache
                    THEN cache[ScanKey(d)] ELSE {}
           told == IF d.approx THEN {withApproxMark(v) : v \in found} ELSE found
<1>1. Collected(d, cache) = SetToSeq(told)
  BY DEF Collected
<1>2. IsFiniteSet(found)
  BY FS_EmptySet
<1>3. IsFiniteSet({withApproxMark(v) : v \in found})
  <2> HIDE DEF found
  <2> QED  BY <1>2, MarkedFinite
<1>4. IsFiniteSet(told)
  BY <1>2, <1>3
<1>5. told = (IF d.version # NoVersion /\ ScanKey(d) \in DOMAIN cache
              THEN IF d.approx THEN {withApproxMark(v) : v \in cache[ScanKey(d)]}
                   ELSE cache[ScanKey(d)]
              ELSE {})
  OBVIOUS
<1> HIDE DEF told
<1>6. SetToSeq(told) \in Seq(told) /\ ToSet(SetToSeq(told)) = told
  BY <1>4, OrdersOf
<1> QED  BY <1>1, <1>5, <1>6

-----------------------------------------------------------------------------
(* The jobs, and StagesRunOut. *)

\* A job has its fields and no others.
Fields ==
  {"ws", "pc", "deps", "techs", "i", "latest", "toFetch", "fetched", "lost", "scan", "vulns",
   "report"}

IsJob(r) == r = [f \in Fields |-> r[f]]

\* What the steps rely on: stage 4 is at one of the dependencies or past the last.
JobOK(r) ==
  /\ IsJob(r)
  /\ r.pc # "none" => r.ws \in DOMAIN Workspaces
  /\ r.deps \in Seq(Dependencies)
  /\ r.pc \in {"resolve", "fetch", "store"} => r.i \in 1 .. Len(r.deps) + 1
  /\ r.pc \in {"fetch", "store"} => r.i <= Len(r.deps)
  /\ r.toFetch \in Seq(ToSet(r.toFetch))

JobsOK ==
  /\ job = [j \in Jobs |-> job[j]]
  /\ \A j \in Jobs : JobOK(job[j])
  /\ crashes \in Nat

\* A job that has not begun, or that has failed.
LEMMA IdleOK ==
  ASSUME NEW ws, NEW pc \in {"none", "acquire", "failed"}, pc # "none" => ws \in DOMAIN Workspaces
  PROVE  JobOK(Idle(ws, pc)) /\ Idle(ws, pc).pc = pc
<1>1. <<>> \in Seq(Dependencies) /\ <<>> \in Seq(ToSet(<<>>))
  OBVIOUS
<1> DEFINE r == Idle(ws, pc)
<1>2. /\ IsJob(r)
      /\ r.ws = ws /\ r.pc = pc /\ r.deps = <<>> /\ r.toFetch = <<>>
  BY DEF Idle, IsJob, Fields
<1> HIDE DEF r
<1>3. JobOK(r) /\ r.pc = pc
  BY <1>1, <1>2 DEF JobOK
<1> QED  BY <1>3 DEF r

\* The goal of a step: the job goes on well, and is nearer to its end.
Advances(j) ==
  /\ job' = [k \in Jobs |-> IF k = j THEN job'[j] ELSE job[k]]
  /\ JobOK(job'[j])
  /\ Nearer(job'[j], job[j])

\* Stages 1 to 3b.
LEMMA EarlyStages ==
  ASSUME ManifestsGiveDependencies, JobsOK, NEW j \in Jobs, Acquire(j) \/ Parse(j)
  PROVE  Advances(j)
<1> DEFINE r == job[j]
<1>0. JobOK(r) /\ DOMAIN job = Jobs
  BY DEF JobsOK
<1>1. ASSUME Acquire(j) PROVE Advances(j)
  <2>1. PICK pc \in {"parse", "failed"} : job' = [job EXCEPT ![j].pc = pc]
    BY <1>1 DEF Acquire
  <2>2. job'[j] = [r EXCEPT !.pc = pc] /\ job' = [k \in Jobs |-> IF k = j THEN job'[j] ELSE job[k]]
    BY <1>0, <2>1 DEF JobsOK
  <2>3. r.pc = "acquire"
    BY <1>1 DEF Acquire, At
  <2> HIDE DEF r
  <2>4. JobOK(job'[j]) /\ job'[j].pc = pc
    BY <1>0, <2>2, <2>3 DEF JobOK, IsJob, Fields
  <2>5. Nearer(job'[j], r)
    BY <2>3, <2>4 DEF Nearer, Stages, Steps
  <2> QED  BY <2>2, <2>4, <2>5 DEF Advances, r
<1>2. ASSUME Parse(j) PROVE Advances(j)
  <2> DEFINE ws == Workspaces[r.ws]
  <2>1. r.pc = "parse" /\ r.ws \in DOMAIN Workspaces
    BY <1>0, <1>2 DEF Parse, At, JobOK
  <2>2. PICK a \in parseManifests(ws) :
          job' = [job EXCEPT ![j] =
                    IF ~a.ok THEN Idle(@.ws, "failed")
                    ELSE [@ EXCEPT !.pc = "resolve", !.deps = a.deps, !.i = 1,
                                   !.techs = Inventory(ws, a.deps)]]
    BY <1>2 DEF Parse
  <2>3. a.deps \in Seq(Dependencies)
    BY <2>1 DEF ManifestsGiveDependencies
  <2> DEFINE techs == Inventory(ws, a.deps)
             s == [r EXCEPT !.pc = "resolve", !.deps = a.deps, !.i = 1, !.techs = techs]
  <2>4. /\ job'[j] = (IF ~a.ok THEN Idle(r.ws, "failed") ELSE s)
        /\ job' = [k \in Jobs |-> IF k = j THEN job'[j] ELSE job[k]]
    <3> HIDE DEF techs
    <3> QED  BY <1>0, <2>2 DEF JobsOK, techs
  <2> HIDE DEF techs, ws, r
  <2>5. JobOK(Idle(r.ws, "failed")) /\ Idle(r.ws, "failed").pc = "failed"
    BY <2>1, IdleOK
  <2>6. /\ IsJob(s) /\ s.ws = r.ws /\ s.pc = "resolve" /\ s.deps = a.deps /\ s.i = 1
        /\ s.toFetch = r.toFetch
    BY <1>0 DEF JobOK, IsJob, Fields
  <2> HIDE DEF s
  <2>9. JobOK(s)
    <3>1. Len(a.deps) \in Nat
      BY <2>3
    <3>2. r.toFetch \in Seq(ToSet(r.toFetch))
      BY <1>0 DEF JobOK
    <3> QED  BY <2>1, <2>3, <2>6, <3>1, <3>2 DEF JobOK
  <2>7. JobOK(job'[j])
    BY <2>4, <2>5, <2>9
  <2>8. Nearer(job'[j], r)
    <3>1. CASE ~a.ok
      <4>1. job'[j].pc = "failed"
        BY <2>4, <2>5, <3>1
      <4> QED  BY <2>1, <4>1 DEF Nearer, Stages, Steps
    <3>2. CASE a.ok
      <4>1. job'[j].pc = "resolve" /\ job'[j].deps \in Seq(Dependencies) /\ job'[j].i = 1
        BY <2>3, <2>4, <2>6, <3>2
      <4> QED  BY <2>1, <4>1 DEF Nearer, Stages, Steps
    <3> QED  BY <3>1, <3>2
  <2> QED  BY <2>4, <2>7, <2>8 DEF Advances, r
<1> QED  BY <1>1, <1>2

\* A sequence is one of its own members.
LEMMA OfItsMembers ==
  ASSUME NEW S, NEW s \in Seq(S)
  PROVE  s \in Seq(ToSet(s)) /\ ToSet(s) \subseteq S
BY DEF ToSet

\* What stage 4 changes of a job.
LEMMA ResolvedIs ==
  ASSUME NEW r, NEW latest, IsJob(r)
  PROVE  LET s == Resolved(r, latest)
         IN /\ IsJob(s) /\ s.pc = "resolve" /\ s.i = r.i + 1
            /\ s.ws = r.ws /\ s.deps = r.deps /\ s.toFetch = r.toFetch /\ s.fetched = r.fetched
            /\ s.lost = r.lost /\ s.scan = r.scan /\ s.vulns = r.vulns /\ s.report = r.report
<1> DEFINE d == r.deps[r.i]
           t == techByName(r.techs, r.deps)[d.pkg]
           techs == [r.techs EXCEPT ![t].latest = latest,
                                    ![t].status = versionStatus(d.version, latest)]
           s == [r EXCEPT !.techs = techs, !.i = @ + 1, !.pc = "resolve", !.latest = NoVersion]
<1>1. s = Resolved(r, latest)
  BY DEF Resolved
<1> HIDE DEF d, t, techs
<1>2. /\ IsJob(s) /\ s.pc = "resolve" /\ s.i = r.i + 1
      /\ s.ws = r.ws /\ s.deps = r.deps /\ s.toFetch = r.toFetch /\ s.fetched = r.fetched
      /\ s.lost = r.lost /\ s.scan = r.scan /\ s.vulns = r.vulns /\ s.report = r.report
  BY DEF IsJob, Fields
<1> QED  BY <1>1, <1>2

\* A step that replaces a job by one that goes on well.
LEMMA Moves ==
  ASSUME JobsOK, NEW j \in Jobs, NEW s, job' = [job EXCEPT ![j] = s], JobOK(s),
         Nearer(s, job[j])
  PROVE  Advances(j)
<1>1. DOMAIN job = Jobs
  BY DEF JobsOK
<1>2. job'[j] = s /\ job' = [k \in Jobs |-> IF k = j THEN job'[j] ELSE job[k]]
  BY <1>1 DEF JobsOK
<1> QED  BY <1>2 DEF Advances

\* Stage 4 without the steps that give a dependency its version.
LEMMA FetchStages ==
  ASSUME JobsOK, NEW j \in Jobs, CacheMiss(j) \/ FetchLatest(j) \/ FetchFails(j)
  PROVE  Advances(j)
<1> DEFINE r == job[j]
<1>0. JobOK(r) /\ DOMAIN job = Jobs
  BY DEF JobsOK
<1>1. ASSUME CacheMiss(j) PROVE Advances(j)
  <2> DEFINE s == [r EXCEPT !.pc = "fetch"]
  <2>1. job' = [job EXCEPT ![j] = s]
    BY <1>0, <1>1 DEF CacheMiss
  <2>2. r.pc = "resolve" /\ r.i <= Len(r.deps)
    BY <1>1 DEF CacheMiss, At
  <2> HIDE DEF r
  <2>3. /\ IsJob(s) /\ s.pc = "fetch" /\ s.i = r.i /\ s.ws = r.ws /\ s.deps = r.deps
        /\ s.toFetch = r.toFetch
    BY <1>0 DEF JobOK, IsJob, Fields
  <2> HIDE DEF s
  <2>4. JobOK(s)
    BY <1>0, <2>2, <2>3 DEF JobOK
  <2>5. r.i \in Nat /\ Len(r.deps) \in Nat /\ r.i <= Len(r.deps)
    BY <1>0, <2>2 DEF JobOK
  <2>6. Nearer(s, r)
    <3> DEFINE after == Len(r.deps) - r.i
    <3>1. after \in Nat
      BY <2>5
    <3>2. Stages(r) = 4 /\ Stages(s) = 4 /\ Steps(r) = 3 * after + 3 /\ Steps(s) = 3 * after + 2
      BY <2>2, <2>3 DEF Stages, Steps
    <3> HIDE DEF after
    <3> QED  BY <3>1, <3>2 DEF Nearer
  <2> QED  BY <2>1, <2>4, <2>6, Moves DEF r
<1>2. ASSUME FetchLatest(j) PROVE Advances(j)
  <2> DEFINE latest == registry[LatestKey(Dep(j))]
             s == [r EXCEPT !.pc = "store", !.latest = latest]
  <2>1. job' = [job EXCEPT ![j] = s]
    <3>1. job' = [job EXCEPT ![j].pc = "store", ![j].latest = latest]
      BY <1>2 DEF FetchLatest
    <3> HIDE DEF latest
    <3> QED  BY <1>0, <3>1
  <2>2. r.pc = "fetch"
    BY <1>2 DEF FetchLatest, At
  <2> HIDE DEF r, latest
  <2>3. /\ IsJob(s) /\ s.pc = "store" /\ s.i = r.i /\ s.ws = r.ws /\ s.deps = r.deps
        /\ s.toFetch = r.toFetch
    BY <1>0 DEF JobOK, IsJob, Fields
  <2> HIDE DEF s
  <2>4. JobOK(s)
    BY <1>0, <2>2, <2>3 DEF JobOK
  <2>5. r.i \in Nat /\ Len(r.deps) \in Nat /\ r.i <= Len(r.deps)
    BY <1>0, <2>2 DEF JobOK
  <2>6. Nearer(s, r)
    <3> DEFINE after == Len(r.deps) - r.i
    <3>1. after \in Nat
      BY <2>5
    <3>2. Stages(r) = 4 /\ Stages(s) = 4 /\ Steps(r) = 3 * after + 2 /\ Steps(s) = 3 * after + 1
      BY <2>2, <2>3 DEF Stages, Steps
    <3> HIDE DEF after
    <3> QED  BY <3>1, <3>2 DEF Nearer
  <2> QED  BY <2>1, <2>4, <2>6, Moves DEF r
<1>3. ASSUME FetchFails(j) PROVE Advances(j)
  <2> DEFINE s == [r EXCEPT !.pc = "resolve", !.i = @ + 1]
  <2>1. job' = [job EXCEPT ![j] = s]
    BY <1>0, <1>3 DEF FetchFails
  <2>2. r.pc = "fetch"
    BY <1>3 DEF FetchFails, At
  <2> HIDE DEF r
  <2>3. /\ IsJob(s) /\ s.pc = "resolve" /\ s.i = r.i + 1 /\ s.ws = r.ws /\ s.deps = r.deps
        /\ s.toFetch = r.toFetch
    BY <1>0 DEF JobOK, IsJob, Fields
  <2> HIDE DEF s
  <2>5. r.i \in 1 .. Len(r.deps) /\ Len(r.deps) \in Nat
    BY <1>0, <2>2 DEF JobOK
  <2>4. JobOK(s)
    BY <1>0, <2>2, <2>3, <2>5 DEF JobOK
  <2>6. Nearer(s, r)
    BY <2>2, <2>3, <2>5 DEF Nearer, Stages, Steps
  <2> QED  BY <2>1, <2>4, <2>6, Moves DEF r
<1> QED  BY <1>1, <1>2, <1>3

\* The steps of stage 4 that give a dependency its version.
LEMMA ResolveStages ==
  ASSUME JobsOK, NEW j \in Jobs, job[j].pc \in {"resolve", "store"},
         job[j].i <= Len(job[j].deps), NEW s, job' = [job EXCEPT ![j] = s],
         IsJob(s), s.pc = "resolve", s.i = job[j].i + 1, s.ws = job[j].ws, s.deps = job[j].deps,
         s.toFetch = job[j].toFetch
  PROVE  Advances(j)
<1> DEFINE r == job[j]
<1>0. JobOK(r) /\ DOMAIN job = Jobs
  BY DEF JobsOK
<1>2. r.pc \in {"resolve", "store"} /\ r.i <= Len(r.deps)
  OBVIOUS
<1>3. /\ IsJob(s) /\ s.pc = "resolve" /\ s.i = r.i + 1 /\ s.ws = r.ws /\ s.deps = r.deps
      /\ s.toFetch = r.toFetch
  OBVIOUS
<1> HIDE DEF r
<1>4. r.i \in 1 .. Len(r.deps) /\ Len(r.deps) \in Nat
  BY <1>0, <1>2 DEF JobOK
<1>5. JobOK(s)
  BY <1>0, <1>2, <1>3, <1>4 DEF JobOK
<1>6. Nearer(s, r)
  <2> DEFINE after == Len(r.deps) - r.i
  <2>1. after \in Nat
    BY <1>4
  <2>2. /\ Stages(r) = 4 /\ Stages(s) = 4 /\ Steps(s) = 3 * (after - 1) + 3
        /\ Steps(r) = 3 * after + 3 \/ Steps(r) = 3 * after + 1
    <3>1. Len(s.deps) - s.i = after - 1
      BY <1>3, <1>4
    <3>2. s.pc = "resolve" /\ r.pc \in {"resolve", "store"}
      BY <1>2, <1>3
    <3> HIDE DEF after
    <3>3. Stages(r) = 4 /\ Stages(s) = 4 /\ Steps(s) = 3 * (after - 1) + 3
      BY <3>1, <3>2 DEF Stages, Steps
    <3>4. Steps(r) = 3 * after + 3 \/ Steps(r) = 3 * after + 1
      BY <3>2 DEF Steps, after
    <3> QED  BY <3>3, <3>4
  <2> HIDE DEF after
  <2> QED  BY <2>1, <2>2 DEF Nearer
<1> QED  BY <1>5, <1>6, Moves DEF r

\* Stage 4.
LEMMA Stage4 ==
  ASSUME JobsOK, NEW j \in Jobs,
         CacheHit(j) \/ CacheMiss(j) \/ FetchLatest(j) \/ FetchFails(j) \/ StoreLatest(j)
  PROVE  Advances(j)
<1>1. ASSUME CacheHit(j) PROVE Advances(j)
  <2> DEFINE latest == latestCache[resolverCacheKey(Dep(j))]
             s == Resolved(job[j], latest)
  <2>1. /\ job[j].pc \in {"resolve", "store"} /\ job[j].i <= Len(job[j].deps)
        /\ job' = [job EXCEPT ![j] = s]
    BY <1>1 DEF CacheHit, At
  <2>2. IsJob(job[j])
    BY DEF JobsOK, JobOK
  <2>3. /\ IsJob(s) /\ s.pc = "resolve" /\ s.i = job[j].i + 1
        /\ s.ws = job[j].ws /\ s.deps = job[j].deps /\ s.toFetch = job[j].toFetch
    BY <2>2, ResolvedIs
  <2> HIDE DEF s
  <2> QED  BY <2>1, <2>3, ResolveStages
<1>2. ASSUME StoreLatest(j) PROVE Advances(j)
  <2> DEFINE s == Resolved(job[j], job[j].latest)
  <2>1. job[j].pc = "store" /\ job' = [job EXCEPT ![j] = s]
    BY <1>2 DEF StoreLatest, At
  <2>2. job[j].i <= Len(job[j].deps) /\ job[j].pc \in {"resolve", "store"} /\ IsJob(job[j])
    BY <2>1 DEF JobsOK, JobOK
  <2>3. /\ IsJob(s) /\ s.pc = "resolve" /\ s.i = job[j].i + 1
        /\ s.ws = job[j].ws /\ s.deps = job[j].deps /\ s.toFetch = job[j].toFetch
    BY <2>2, ResolvedIs
  <2> HIDE DEF s
  <2> QED  BY <2>1, <2>2, <2>3, ResolveStages
<1> QED  BY <1>1, <1>2, FetchStages

\* The keys that stage 5 needs the vulnerabilities of.
Wanted(deps) == {ScanKey(d) : d \in Versioned(deps)}

\* They are finitely many.
LEMMA WantedFinite ==
  ASSUME NEW deps \in Seq(Dependencies)
  PROVE  IsFiniteSet(Wanted(deps))
<1> DEFINE S == ToSet(deps)
           V == Versioned(deps)
           f == [d \in V |-> ScanKey(d)]
<1>1. deps \in Surjection(1 .. Len(deps), S)
  BY DEF Surjection, ToSet
<1>2. IsFiniteSet(1 .. Len(deps))
  BY FS_Interval
<1>3. V \subseteq S
  BY DEF Versioned
<1>4. f \in Surjection(V, Wanted(deps))
  BY DEF Surjection, Wanted
<1> HIDE DEF S, V, f
<1>5. IsFiniteSet(S)
  BY <1>1, <1>2, FS_Surjection
<1>6. IsFiniteSet(V)
  BY <1>3, <1>5, FS_Subset
<1> QED  BY <1>4, <1>6, FS_Surjection

\* A sequence in two parts.
LEMMA Split ==
  ASSUME NEW S, NEW s \in Seq(S), NEW k \in 0 .. Len(s)
  PROVE  /\ SubSeq(s, 1, k) \in Seq(S) /\ Len(SubSeq(s, 1, k)) = k
         /\ SubSeq(s, k + 1, Len(s)) \in Seq(S) /\ Len(SubSeq(s, k + 1, Len(s))) = Len(s) - k
         /\ ToSet(s) \subseteq ToSet(SubSeq(s, 1, k)) \cup ToSet(SubSeq(s, k + 1, Len(s)))
<1> DEFINE a == SubSeq(s, 1, k)
           b == SubSeq(s, k + 1, Len(s))
<1>1. k \in Nat /\ Len(s) \in Nat /\ k <= Len(s)
  OBVIOUS
<1>2. a \in Seq(S) /\ Len(a) = k /\ \A x \in 1 .. k : a[x] = s[x]
  BY <1>1
<1>3. b \in Seq(S) /\ Len(b) = Len(s) - k /\ \A x \in 1 .. Len(s) - k : b[x] = s[k + x]
  BY <1>1
<1> HIDE DEF a, b
<1>4. ASSUME NEW x \in 1 .. Len(s) PROVE s[x] \in ToSet(a) \cup ToSet(b)
  <2>1. CASE x <= k
    <3>1. x \in DOMAIN a /\ a[x] = s[x]
      BY <1>1, <1>2, <2>1
    <3> QED  BY <3>1 DEF ToSet
  <2>2. CASE x > k
    <3>1. x - k \in 1 .. Len(s) - k /\ b[x - k] = s[x]
      BY <1>1, <1>3, <2>2
    <3>2. x - k \in DOMAIN b
      BY <1>3, <3>1
    <3> QED  BY <3>1, <3>2 DEF ToSet
  <2> QED  BY <1>1, <2>1, <2>2
<1>5. ToSet(s) \subseteq ToSet(a) \cup ToSet(b)
  BY <1>4 DEF ToSet
<1>6. /\ a \in Seq(S) /\ Len(a) = k
      /\ b \in Seq(S) /\ Len(b) = Len(s) - k
  BY <1>2, <1>3
<1> QED  BY <1>5, <1>6 DEF a, b

\* Stage 5, its beginning.
LEMMA ScanBegins ==
  ASSUME JobsOK, NEW j \in Jobs, ScanStart(j)
  PROVE  /\ Advances(j)
         /\ job'[j].pc \in {"query", "collect"} /\ job'[j].deps = job[j].deps
         /\ job'[j].fetched = job[j].fetched
         /\ Wanted(job[j].deps) \subseteq DOMAIN scanCache \cup ToSet(job'[j].toFetch)
         /\ job'[j].pc = "collect" => Wanted(job[j].deps) \subseteq DOMAIN scanCache
<1> DEFINE r == job[j]
           wanted == Wanted(r.deps) \ DOMAIN scanCache
<1>0. JobOK(r) /\ DOMAIN job = Jobs
  BY DEF JobsOK
<1>1. PICK q \in SetToSeqs(wanted) :
        job' = [job EXCEPT ![j].toFetch = q, ![j].i = 0,
                           ![j].pc = IF q = <<>> THEN "collect" ELSE "query"]
  BY DEF ScanStart, Wanted
<1> DEFINE pc == IF q = <<>> THEN "collect" ELSE "query"
           s == [r EXCEPT !.toFetch = q, !.i = 0, !.pc = pc]
<1>2. job' = [job EXCEPT ![j] = s]
  BY <1>0, <1>1
<1>3. r.pc = "resolve"
  BY DEF ScanStart, At
<1> HIDE DEF r
<1>4. IsFiniteSet(wanted)
  <2>1. IsFiniteSet(Wanted(r.deps))
    BY <1>0, WantedFinite DEF JobOK
  <2> QED  BY <2>1, FS_Subset
<1> HIDE DEF wanted
<1>5. q \in Seq(wanted) /\ ToSet(q) = wanted
  BY <1>1, <1>4, OrdersOf
<1>6. pc \in {"collect", "query"} /\ (pc = "collect" => q = <<>>)
  OBVIOUS
<1> HIDE DEF pc
<1>7. /\ IsJob(s) /\ s.ws = r.ws /\ s.deps = r.deps /\ s.toFetch = q /\ s.pc = pc
      /\ s.fetched = r.fetched /\ job'[j] = s
  BY <1>0, <1>2 DEF JobOK, IsJob, Fields
<1> HIDE DEF s
<1>8. JobOK(s)
  BY <1>0, <1>3, <1>5, <1>6, <1>7 DEF JobOK
<1>9. Nearer(s, r)
  BY <1>3, <1>5, <1>6, <1>7 DEF Nearer, Stages, Steps
<1>10. Advances(j)
  BY <1>2, <1>8, <1>9, Moves DEF r
<1>11. Wanted(r.deps) \subseteq DOMAIN scanCache \cup ToSet(q)
  BY <1>5 DEF wanted
<1>12. pc = "collect" => Wanted(r.deps) \subseteq DOMAIN scanCache
  BY <1>6, <1>11 DEF ToSet
<1> QED  BY <1>6, <1>7, <1>10, <1>11, <1>12 DEF r

\* Stage 5, one request.
LEMMA QueryAdvances ==
  ASSUME JobsOK, NEW j \in Jobs, QueryChunk(j)
  PROVE  /\ Advances(j)
         /\ job[j].pc = "query" /\ job'[j].pc = "query" /\ job'[j].deps = job[j].deps
         /\ \E T, U :
              /\ job'[j].fetched = Over([k \in T |-> Answer(advisories, k)], job[j].fetched)
              /\ job'[j].lost = job[j].lost \cup U
              /\ ToSet(job[j].toFetch) \subseteq T \cup U \cup ToSet(job'[j].toFetch)
<1> DEFINE r == job[j]
           q == r.toFetch
           c == Min({osvChunkSize, Len(q)})
           chunk == SubSeq(q, 1, c)
<1>0. JobOK(r) /\ DOMAIN job = Jobs
  BY DEF JobsOK
<1>1. r.pc = "query" /\ q # <<>>
  BY DEF QueryChunk, At
<1>2. PICK n \in 0 .. Len(chunk) :
        job' = [job EXCEPT
            ![j].fetched = Over([k \in ToSet(SubSeq(chunk, 1, n)) |-> Answer(advisories, k)], @),
            ![j].lost = @ \cup ToSet(SubSeq(chunk, n + 1, Len(chunk))),
            ![j].toFetch = SubSeq(@, Len(chunk) + 1, Len(@))]
  BY DEF QueryChunk
<1> DEFINE told == ToSet(SubSeq(chunk, 1, n))
           untold == ToSet(SubSeq(chunk, n + 1, Len(chunk)))
           fetched == Over([k \in told |-> Answer(advisories, k)], r.fetched)
           lost == r.lost \cup untold
           rest == SubSeq(q, Len(chunk) + 1, Len(q))
           s == [r EXCEPT !.fetched = fetched, !.lost = lost, !.toFetch = rest]
<1>3. job' = [job EXCEPT ![j] = s]
  <2>1. job' = [job EXCEPT ![j].fetched = Over([k \in told |-> Answer(advisories, k)], @),
                           ![j].lost = @ \cup untold,
                           ![j].toFetch = SubSeq(@, Len(chunk) + 1, Len(@))]
    BY <1>2
  <2> HIDE DEF told, untold, chunk
  <2> QED  BY <1>0, <2>1
<1>4. q \in Seq(ToSet(q))
  BY <1>0 DEF JobOK
<1> HIDE DEF r, q
<1>5. c \in 1 .. Len(q) /\ Len(q) \in Nat
  BY <1>1, <1>4, ChunkSize
<1> HIDE DEF c
<1>6. /\ chunk \in Seq(ToSet(q)) /\ Len(chunk) = c
      /\ SubSeq(q, c + 1, Len(q)) \in Seq(ToSet(q)) /\ Len(SubSeq(q, c + 1, Len(q))) = Len(q) - c
      /\ ToSet(q) \subseteq ToSet(chunk) \cup ToSet(SubSeq(q, c + 1, Len(q)))
  <2>1. c \in 0 .. Len(q)
    BY <1>5
  <2> QED  BY <1>4, <2>1, Split
<1> HIDE DEF chunk
<1>7. /\ rest \in Seq(ToSet(q)) /\ Len(rest) = Len(q) - c
      /\ ToSet(q) \subseteq ToSet(chunk) \cup ToSet(rest)
  BY <1>6
<1>8. ToSet(chunk) \subseteq told \cup untold
  BY <1>6, Split
<1> HIDE DEF rest, told, untold
<1>9. rest \in Seq(ToSet(rest))
  BY <1>7, OfItsMembers
<1>10. /\ fetched = Over([k \in told |-> Answer(advisories, k)], r.fetched)
       /\ lost = r.lost \cup untold
  OBVIOUS
<1> HIDE DEF fetched, lost
<1>11. /\ IsJob(s) /\ s.ws = r.ws /\ s.deps = r.deps /\ s.toFetch = rest /\ s.pc = "query"
       /\ s.fetched = fetched /\ s.lost = lost /\ job'[j] = s
  BY <1>0, <1>1, <1>3 DEF JobOK, IsJob, Fields
<1> HIDE DEF s
<1>12. JobOK(s)
  BY <1>0, <1>1, <1>9, <1>11 DEF JobOK
<1>13. Nearer(s, r)
  <2>1. Len(rest) \in Nat /\ Len(rest) < Len(q)
    BY <1>5, <1>7
  <2>2. Stages(r) = 3 /\ Stages(s) = 3 /\ Steps(r) = Len(q) /\ Steps(s) = Len(rest)
    BY <1>1, <1>11 DEF Stages, Steps, q
  <2> QED  BY <2>1, <2>2 DEF Nearer
<1>14. Advances(j)
  BY <1>3, <1>12, <1>13, Moves DEF r
<1>15. ToSet(q) \subseteq told \cup untold \cup ToSet(rest)
  BY <1>7, <1>8
<1>16. \E T, U :
         /\ job'[j].fetched = Over([k \in T |-> Answer(advisories, k)], job[j].fetched)
         /\ job'[j].lost = job[j].lost \cup U
         /\ ToSet(job[j].toFetch) \subseteq T \cup U \cup ToSet(job'[j].toFetch)
  <2> WITNESS told, untold
  <2>1. job'[j].fetched = Over([k \in told |-> Answer(advisories, k)], job[j].fetched)
    BY <1>10, <1>11 DEF r
  <2>2. job'[j].lost = job[j].lost \cup untold
    BY <1>10, <1>11 DEF r
  <2>3. ToSet(job[j].toFetch) \subseteq told \cup untold \cup ToSet(job'[j].toFetch)
    BY <1>11, <1>15 DEF q, r
  <2> QED  BY <2>1, <2>2, <2>3
<1>17. job[j].pc = "query" /\ job'[j].pc = "query" /\ job'[j].deps = job[j].deps
  BY <1>1, <1>11 DEF r
<1> QED  BY <1>14, <1>16, <1>17

\* Stage 5, its end, and stage 6.
LEMMA LateStages ==
  ASSUME JobsOK, NEW j \in Jobs, QueryFails(j) \/ StoreScan(j) \/ Collect(j) \/ Finish(j)
  PROVE  Advances(j)
<1> DEFINE r == job[j]
<1>0. JobOK(r) /\ DOMAIN job = Jobs
  BY DEF JobsOK
<1>1. ASSUME NEW s, job' = [job EXCEPT ![j] = s], IsJob(s), s.ws = r.ws, s.deps = r.deps,
             s.toFetch = r.toFetch \/ s.toFetch = <<>>, Stages(s) < Stages(r),
             s.pc \in {"collect", "assess", "done"}, r.pc # "none"
      PROVE  Advances(j)
  <2> HIDE DEF r
  <2>1. JobOK(s)
    <3>1. s.toFetch \in Seq(ToSet(s.toFetch))
      <4>1. <<>> \in Seq(ToSet(<<>>))
        OBVIOUS
      <4>2. r.toFetch \in Seq(ToSet(r.toFetch))
        BY <1>0 DEF JobOK
      <4>3. CASE s.toFetch = r.toFetch
        BY <4>2, <4>3
      <4>4. CASE s.toFetch = <<>>
        BY <4>1, <4>4
      <4> QED  BY <1>1, <4>3, <4>4
    <3> QED  BY <1>0, <1>1, <3>1 DEF JobOK
  <2>2. Nearer(s, r)
    BY <1>1 DEF Nearer, Steps
  <2> QED  BY <1>1, <2>1, <2>2, Moves DEF r
<1>2. ASSUME QueryFails(j) PROVE Advances(j)
  <2> DEFINE s == [r EXCEPT !.pc = "assess", !.scan = "failed", !.toFetch = <<>>,
                            !.fetched = <<>>, !.lost = {}]
  <2>1. job' = [job EXCEPT ![j] = s] /\ r.pc = "query"
    BY <1>0, <1>2 DEF QueryFails, At
  <2>2. IsJob(s) /\ s.ws = r.ws /\ s.deps = r.deps /\ s.toFetch = <<>> /\ s.pc = "assess"
    BY <1>0 DEF JobOK, IsJob, Fields
  <2> HIDE DEF s, r
  <2>3. Stages(s) < Stages(r)
    BY <2>1, <2>2 DEF Stages
  <2> QED  BY <1>1, <2>1, <2>2, <2>3
<1>3. ASSUME StoreScan(j) PROVE Advances(j)
  <2> DEFINE s == [r EXCEPT !.pc = "collect", !.fetched = <<>>]
  <2>1. job' = [job EXCEPT ![j] = s] /\ r.pc = "query"
    BY <1>0, <1>3 DEF StoreScan, At
  <2>2. IsJob(s) /\ s.ws = r.ws /\ s.deps = r.deps /\ s.toFetch = r.toFetch /\ s.pc = "collect"
    BY <1>0 DEF JobOK, IsJob, Fields
  <2> HIDE DEF s, r
  <2>3. Stages(s) < Stages(r)
    BY <2>1, <2>2 DEF Stages
  <2> QED  BY <1>1, <2>1, <2>2, <2>3
<1>4. ASSUME Collect(j) PROVE Advances(j)
  <2> DEFINE vulns == Vulnerabilities(r.deps, scanCache)
             s == [r EXCEPT !.pc = "assess", !.scan = "ok", !.vulns = vulns]
  <2>1. job' = [job EXCEPT ![j] = s] /\ r.pc = "collect"
    <3>1. job' = [job EXCEPT ![j].pc = "assess", ![j].scan = "ok", ![j].vulns = vulns]
      BY <1>4 DEF Collect
    <3> HIDE DEF vulns
    <3> QED  BY <1>0, <1>4, <3>1 DEF Collect, At
  <2> HIDE DEF vulns
  <2>2. IsJob(s) /\ s.ws = r.ws /\ s.deps = r.deps /\ s.toFetch = r.toFetch /\ s.pc = "assess"
    BY <1>0 DEF JobOK, IsJob, Fields
  <2> HIDE DEF s, r
  <2>3. Stages(s) < Stages(r)
    BY <2>1, <2>2 DEF Stages
  <2> QED  BY <1>1, <2>1, <2>2, <2>3
<1>5. ASSUME Finish(j) PROVE Advances(j)
  <2> DEFINE summary == Assess(Workspaces[r.ws], r.techs, r.deps, r.vulns)
             s == [r EXCEPT !.report = summary, !.pc = "done", !.techs = <<>>, !.vulns = <<>>]
  <2>1. job' = [job EXCEPT ![j] = s] /\ r.pc = "assess"
    <3>1. job' = [job EXCEPT ![j].report = summary, ![j].pc = "done", ![j].techs = <<>>,
                             ![j].vulns = <<>>]
      BY <1>5 DEF Finish
    <3> HIDE DEF summary
    <3> QED  BY <1>0, <1>5, <3>1 DEF Finish, At
  <2> HIDE DEF summary
  <2>2. IsJob(s) /\ s.ws = r.ws /\ s.deps = r.deps /\ s.toFetch = r.toFetch /\ s.pc = "done"
    BY <1>0 DEF JobOK, IsJob, Fields
  <2> HIDE DEF s, r
  <2>3. Stages(s) < Stages(r)
    BY <2>1, <2>2 DEF Stages
  <2> QED  BY <1>1, <2>1, <2>2, <2>3
<1> QED  BY <1>2, <1>3, <1>4, <1>5

\* Every step of a job.
LEMMA StageAdvances ==
  ASSUME ManifestsGiveDependencies, JobsOK, NEW j \in Jobs, Stage(j)
  PROVE  Advances(j)
<1>1. CASE Acquire(j) \/ Parse(j)
  BY <1>1, EarlyStages
<1>2. CASE CacheHit(j) \/ CacheMiss(j) \/ FetchLatest(j) \/ FetchFails(j) \/ StoreLatest(j)
  BY <1>2, Stage4
<1>3. CASE ScanStart(j)
  BY <1>3, ScanBegins
<1>4. CASE QueryChunk(j)
  BY <1>4, QueryAdvances
<1>5. CASE QueryFails(j) \/ StoreScan(j) \/ Collect(j) \/ Finish(j)
  BY <1>5, LateStages
<1> QED  BY <1>1, <1>2, <1>3, <1>4, <1>5 DEF Stage

\* The steps of a job change nothing of the world outside.
LEMMA StageKeepsWorld ==
  ASSUME NEW j, Stage(j)
  PROVE  UNCHANGED world
BY DEF Stage, Acquire, Parse, CacheHit, CacheMiss, FetchLatest, FetchFails, StoreLatest, ScanStart,
       QueryChunk, QueryFails, StoreScan, Collect, Finish, OnlyJob, world

\* A crash sends a job back to its beginning, or leaves it at its end.
LEMMA CrashKeepsJobs ==
  ASSUME JobsOK, Crash
  PROVE  JobsOK' /\ \A j \in Jobs : \/ job'[j] = job[j] /\ job[j].pc \in Ended
                                    \/ job'[j] = Idle(job[j].ws, "acquire")
<1>1. job' = [j \in Jobs |-> IF job[j].pc \in Ended THEN job[j] ELSE Idle(job[j].ws, "acquire")]
  BY DEF Crash
<1>2. ASSUME NEW j \in Jobs
      PROVE  /\ JobOK(job'[j])
             /\ \/ job'[j] = job[j] /\ job[j].pc \in Ended
                \/ job'[j] = Idle(job[j].ws, "acquire")
  <2>1. JobOK(job[j])
    BY DEF JobsOK
  <2>2. CASE job[j].pc \in Ended
    BY <1>1, <2>1, <2>2
  <2>3. CASE job[j].pc \notin Ended
    <3>1. job[j].ws \in DOMAIN Workspaces
      BY <2>1, <2>3 DEF JobOK, Ended
    <3>2. job'[j] = Idle(job[j].ws, "acquire")
      BY <1>1, <2>3
    <3> QED  BY <3>1, <3>2, IdleOK
  <2> QED  BY <2>2, <2>3
<1>3. job' = [j \in Jobs |-> job'[j]] /\ crashes' \in Nat
  BY <1>1 DEF Crash, JobsOK
<1> QED  BY <1>2, <1>3 DEF JobsOK

\* The jobs are what the stages take them for, in every state.
THEOREM JobsAreWellFormed ==
  ASSUME ManifestsGiveDependencies
  PROVE  Spec => []JobsOK
<1>1. Init => JobsOK
  <2> SUFFICES ASSUME Init PROVE JobsOK
    OBVIOUS
  <2>1. PICK a \in Assignments :
          job = [j \in Jobs |-> IF j \in DOMAIN a THEN Idle(a[j], "acquire") ELSE Idle("", "none")]
    BY DEF Init
  <2>2. ASSUME NEW j \in Jobs PROVE JobOK(job[j])
    <3>1. CASE j \in DOMAIN a
      <4>1. a[j] \in DOMAIN Workspaces /\ job[j] = Idle(a[j], "acquire")
        BY <2>1, <3>1, AssignmentsAssumption
      <4> QED  BY <4>1, IdleOK
    <3>2. CASE j \notin DOMAIN a
      <4>1. job[j] = Idle("", "none")
        BY <2>1, <3>2
      <4> QED  BY <4>1, IdleOK
    <3> QED  BY <3>1, <3>2
  <2>3. crashes \in Nat
    BY DEF Init
  <2> QED  BY <2>1, <2>2, <2>3 DEF JobsOK
<1>2. JobsOK /\ [Next]_vars => JobsOK'
  <2> SUFFICES ASSUME JobsOK, [Next]_vars PROVE JobsOK'
    OBVIOUS
  <2>1. CASE Publish \/ Disclose \/ UNCHANGED vars
    BY <2>1 DEF Publish, Disclose, vars, JobsOK
  <2>2. CASE Crash
    BY <2>2, CrashKeepsJobs
  <2>3. ASSUME NEW j \in Jobs, Stage(j) PROVE JobsOK'
    <3>1. Advances(j)
      BY <2>3, StageAdvances
    <3>2. UNCHANGED world
      BY <2>3, StageKeepsWorld
    <3> QED  BY <3>1, <3>2 DEF Advances, JobsOK, world
  <2> QED  BY <2>1, <2>2, <2>3 DEF Next
<1> QED  BY <1>1, <1>2, PTL DEF Spec

\* Stages 1 to 6 of the worker: neither failed requests nor short answers keep
\* a stage going round. Every step of a job leads to a later stage or has
\* fewer steps left in the one it is at; only a crash sends a job back.
THEOREM StagesTerminate ==
  ASSUME ManifestsGiveDependencies
  PROVE  Spec => StagesRunOut
<1> DEFINE Run == \A j \in Jobs : \/ job'[j] = job[j]
                                  \/ Nearer(job'[j], job[j])
                                  \/ crashes' # crashes
<1>1. JobsOK /\ [Next]_vars => [Run]_vars
  <2> SUFFICES ASSUME JobsOK, Next PROVE Run
    OBVIOUS
  <2>1. CASE Publish \/ Disclose
    BY <2>1 DEF Publish, Disclose
  <2>2. CASE Crash
    <3>1. crashes \in Nat /\ crashes' = crashes + 1
      BY <2>2 DEF Crash, JobsOK
    <3> QED  BY <3>1
  <2>3. ASSUME NEW j \in Jobs, Stage(j) PROVE Run
    <3>1. Advances(j)
      BY <2>3, StageAdvances
    <3> QED  BY <3>1 DEF Advances
  <2> QED  BY <2>1, <2>2, <2>3 DEF Next
<1> HIDE DEF Run
<1>2. JobsOK /\ [][Next]_vars /\ []JobsOK => [][Run]_vars
  BY <1>1, PTL
<1>3. Spec => [][Run]_vars
  BY <1>2, JobsAreWellFormed, PTL DEF Spec
<1> QED  BY <1>3 DEF StagesRunOut, Run

-----------------------------------------------------------------------------
(* ReportIsOfItsDependencies. *)

\* Nothing that OSV told is ever taken back, and it tells finitely much.
AdvisoriesOK(adv) ==
  \A key : Known(InitialAdvisories, key) \subseteq Known(adv, key) /\ IsFiniteSet(Known(adv, key))

\* What was fetched under a key is an answer to that key, of some time between
\* the start of the worker and now.
Sound(f, adv) ==
  \A key \in DOMAIN f : /\ f[key] \subseteq Answer(adv, key)
                        /\ Answer(InitialAdvisories, key) \subseteq f[key]
                        /\ IsFiniteSet(f[key])

\* Where each key of a job is while it is in stage 5, and what stage 5 found.
ScanOK(r, cache, adv) ==
  /\ Sound(r.fetched, adv)
  /\ r.pc = "query" =>
       Wanted(r.deps) \subseteq DOMAIN cache \cup ToSet(r.toFetch) \cup DOMAIN r.fetched \cup r.lost
  /\ r.pc = "collect" => Wanted(r.deps) \subseteq DOMAIN cache \cup r.lost
  /\ r.pc = "assess" /\ r.scan = "ok" => IsReportOf(ToSet(r.vulns), r, adv)
  /\ r.pc = "done" /\ r.scan = "ok" => IsReportOf(ToSet(r.report.vulnerabilities), r, adv)

ScanInv ==
  /\ AdvisoriesOK(advisories)
  /\ Sound(scanCache, advisories)
  /\ \A j \in Jobs : ScanOK(job[j], scanCache, advisories)

\* OSV's answers only grow.
LEMMA AnswerGrows ==
  ASSUME NEW a, NEW b, NEW key, Known(a, key) \subseteq Known(b, key)
  PROVE  Answer(a, key) \subseteq Answer(b, key)
BY DEF Answer

\* So does what a job may report.
LEMMA ReportGrows ==
  ASSUME NEW a, NEW b, \A key : Known(a, key) \subseteq Known(b, key),
         NEW found, NEW r, IsReportOf(found, r, a)
  PROVE  IsReportOf(found, r, b)
<1>1. ASSUME NEW d PROVE Reported(d, a) \subseteq Reported(d, b)
  <2>1. Answer(a, ScanKey(d)) \subseteq Answer(b, ScanKey(d))
    BY AnswerGrows
  <2> QED  BY <2>1 DEF Reported
<1>2. found \subseteq UNION {Reported(d, b) : d \in Versioned(r.deps)}
  <2>1. ASSUME NEW v \in found PROVE \E d \in Versioned(r.deps) : v \in Reported(d, b)
    <3>1. \E d \in Versioned(r.deps) : v \in Reported(d, a)
      BY DEF IsReportOf
    <3> QED  BY <1>1, <3>1
  <2> QED  BY <2>1
<1>3. \A d \in Versioned(r.deps) :
        ScanKey(d) \notin r.lost => Reported(d, InitialAdvisories) \subseteq found
  BY DEF IsReportOf
<1> QED  BY <1>2, <1>3 DEF IsReportOf

\* So do the entries of a cache.
LEMMA SoundGrows ==
  ASSUME NEW a, NEW b, \A key : Known(a, key) \subseteq Known(b, key), NEW f, Sound(f, a)
  PROVE  Sound(f, b)
<1>1. ASSUME NEW key \in DOMAIN f PROVE f[key] \subseteq Answer(b, key)
  <2>1. Answer(a, key) \subseteq Answer(b, key)
    BY AnswerGrows
  <2> QED  BY <2>1 DEF Sound
<1> QED  BY <1>1 DEF Sound

\* What the other jobs add to the cache and what is disclosed meanwhile leave a
\* job's scan as it was.
LEMMA ScanGrows ==
  ASSUME NEW a, NEW b, \A key : Known(a, key) \subseteq Known(b, key),
         NEW c, NEW e, DOMAIN c \subseteq DOMAIN e, NEW r, ScanOK(r, c, a)
  PROVE  ScanOK(r, e, b)
<1>1. Sound(r.fetched, b)
  BY SoundGrows DEF ScanOK
<1>2. r.pc = "assess" /\ r.scan = "ok" => IsReportOf(ToSet(r.vulns), r, b)
  BY ReportGrows DEF ScanOK
<1>3. r.pc = "done" /\ r.scan = "ok" => IsReportOf(ToSet(r.report.vulnerabilities), r, b)
  BY ReportGrows DEF ScanOK
<1>4. r.pc = "query" =>
        Wanted(r.deps) \subseteq DOMAIN e \cup ToSet(r.toFetch) \cup DOMAIN r.fetched \cup r.lost
  BY DEF ScanOK
<1>5. r.pc = "collect" => Wanted(r.deps) \subseteq DOMAIN e \cup r.lost
  BY DEF ScanOK
<1> QED  BY <1>1, <1>2, <1>3, <1>4, <1>5 DEF ScanOK

\* Two maps of answers make one.
LEMMA SoundOver ==
  ASSUME NEW adv, NEW f, NEW g, Sound(f, adv), Sound(g, adv)
  PROVE  Sound(Over(f, g), adv)
<1> DEFINE h == Over(f, g)
<1>1. DOMAIN h = DOMAIN f \cup DOMAIN g
  BY OverIs
<1>2. ASSUME NEW key \in DOMAIN h PROVE \/ key \in DOMAIN f /\ h[key] = f[key]
                                        \/ key \in DOMAIN g /\ h[key] = g[key]
  <2>1. /\ \A x \in DOMAIN f : Over(f, g)[x] = f[x]
        /\ \A x \in DOMAIN g \ DOMAIN f : Over(f, g)[x] = g[x]
    BY OverIs
  <2>2. key \in DOMAIN f \/ key \in DOMAIN g \ DOMAIN f
    BY <1>1
  <2> HIDE DEF h
  <2> QED  BY <2>1, <2>2 DEF h
<1> HIDE DEF h
<1>3. Sound(h, adv)
  BY <1>2 DEF Sound
<1> QED  BY <1>3 DEF h

\* What a dependency gets out of a cache of answers.
LEMMA CollectedIsReported ==
  ASSUME NEW adv, NEW cache, Sound(cache, adv), NEW d, d.approx \in BOOLEAN
  PROVE  LET C == ToSet(Collected(d, cache))
         IN /\ Collected(d, cache) \in Seq(C)
            /\ d.version = NoVersion => C = {}
            /\ C \subseteq Reported(d, adv)
            /\ d.version # NoVersion /\ ScanKey(d) \in DOMAIN cache =>
                 Reported(d, InitialAdvisories) \subseteq C
<1> DEFINE C == ToSet(Collected(d, cache))
           key == ScanKey(d)
<1>1. key \in DOMAIN cache => /\ cache[key] \subseteq Answer(adv, key)
                              /\ Answer(InitialAdvisories, key) \subseteq cache[key]
                              /\ IsFiniteSet(cache[key])
  BY DEF Sound
<1>2. /\ Collected(d, cache) \in Seq(C)
      /\ C = (IF d.version # NoVersion /\ key \in DOMAIN cache
              THEN IF d.approx THEN {withApproxMark(v) : v \in cache[key]} ELSE cache[key]
              ELSE {})
  <2>1. ScanKey(d) \in DOMAIN cache => IsFiniteSet(cache[ScanKey(d)])
    BY <1>1
  <2> QED  BY <2>1, CollectedMembers
<1>3. ASSUME NEW a
      PROVE  Reported(d, a) = (IF d.approx THEN {withApproxMark(v) : v \in Answer(a, key)}
                               ELSE Answer(a, key))
  <2>1. CASE d.approx
    <3>1. ASSUME NEW v PROVE [v EXCEPT !.approx = d.approx] = withApproxMark(v)
      <4>1. d.approx = TRUE
        BY <2>1
      <4> QED  BY <4>1 DEF withApproxMark
    <3>2. Reported(d, a) = {withApproxMark(v) : v \in Answer(a, key)}
      BY <3>1 DEF Reported
    <3> QED  BY <2>1, <3>2
  <2>2. CASE ~d.approx
    <3>1. ASSUME NEW v \in Answer(a, key) PROVE [v EXCEPT !.approx = d.approx] = v
      <4>1. d.approx = FALSE
        BY <2>2
      <4>2. PICK x \in Known(a, key) : v = mapOSVVuln(x, key[2])
        BY DEF Answer
      <4> DEFINE ref == primaryIdentifier(x)
                 severity == osvSeverity(x.severities)
                 component == key[2]
                 fixed == extractFixedVersion(x.ranges)
      <4>3. v = [ref |-> ref, severity |-> severity, component |-> component, fixed |-> fixed,
                 approx |-> FALSE]
        BY <4>2 DEF mapOSVVuln
      <4> HIDE DEF ref, severity, component, fixed
      <4>4. /\ v = [f \in {"ref", "severity", "component", "fixed", "approx"} |-> v[f]]
            /\ v.approx = FALSE
        BY <4>3
      <4>5. [v EXCEPT !.approx = FALSE] = v
        BY <4>4
      <4> QED  BY <4>1, <4>5
    <3>2. Reported(d, a) = Answer(a, key)
      BY <3>1 DEF Reported
    <3> QED  BY <2>2, <3>2
  <2> QED  BY <2>1, <2>2
<1> HIDE DEF C, key
<1>4. C \subseteq Reported(d, adv)
  BY <1>1, <1>2, <1>3
<1>5. d.version # NoVersion /\ key \in DOMAIN cache => Reported(d, InitialAdvisories) \subseteq C
  BY <1>1, <1>2, <1>3
<1>6. Collected(d, cache) \in Seq(C) /\ (d.version = NoVersion => C = {})
  BY <1>2
<1> QED  BY <1>4, <1>5, <1>6 DEF C, key

\* What stage 5 makes out of the cache is a report of the job's dependencies.
LEMMA CollectIsReport ==
  ASSUME NEW adv, NEW cache, Sound(cache, adv), NEW r, r.deps \in Seq(Dependencies),
         Wanted(r.deps) \subseteq DOMAIN cache \cup r.lost
  PROVE  IsReportOf(ToSet(Vulnerabilities(r.deps, cache)), r, adv)
<1> DEFINE deps == r.deps
           lists == [i \in DOMAIN deps |-> Collected(deps[i], cache)]
           C(d) == ToSet(Collected(d, cache))
           V == UNION {C(deps[i]) : i \in DOMAIN deps}
           found == ToSet(Vulnerabilities(deps, cache))
<1>1. /\ DOMAIN deps = 1 .. Len(deps) /\ Len(deps) \in Nat
      /\ \A i \in DOMAIN deps : deps[i] \in Dependencies
  OBVIOUS
<1>2. ASSUME NEW i \in DOMAIN deps
      PROVE  /\ Collected(deps[i], cache) \in Seq(C(deps[i]))
             /\ deps[i].version = NoVersion => C(deps[i]) = {}
             /\ C(deps[i]) \subseteq Reported(deps[i], adv)
             /\ deps[i].version # NoVersion /\ ScanKey(deps[i]) \in DOMAIN cache =>
                  Reported(deps[i], InitialAdvisories) \subseteq C(deps[i])
  <2>1. deps[i].approx \in BOOLEAN
    BY <1>1 DEF Dependencies
  <2> QED  BY <2>1, CollectedIsReported
<1> HIDE DEF C
<1>3. ASSUME NEW i \in DOMAIN deps PROVE Collected(deps[i], cache) \in Seq(V)
  <2>1. C(deps[i]) \subseteq V
    OBVIOUS
  <2> HIDE DEF V
  <2> QED  BY <1>2, <2>1
<1> HIDE DEF V
<1>4. lists \in Seq(Seq(V)) /\ DOMAIN lists = DOMAIN deps
  <2>1. lists \in [1 .. Len(deps) -> Seq(V)]
    BY <1>1, <1>3
  <2> HIDE DEF lists
  <2> QED  BY <1>1, <2>1
<1>5. found = ToSet(FlattenSeq(lists))
  BY DEF Vulnerabilities
<1>6. \A i \in DOMAIN deps : ToSet(lists[i]) = C(deps[i])
  BY DEF C
<1> HIDE DEF lists, found
<1>7. \A x : x \in found <=> \E i \in DOMAIN deps : x \in C(deps[i])
  <2>1. \A x : x \in ToSet(FlattenSeq(lists)) <=> \E i \in DOMAIN lists : x \in ToSet(lists[i])
    BY <1>4, FlattenMembers
  <2> QED  BY <1>4, <1>5, <1>6, <2>1
<1>8. ASSUME NEW v \in found PROVE \E d \in Versioned(deps) : v \in Reported(d, adv)
  <2>1. PICK i \in DOMAIN deps : v \in C(deps[i])
    BY <1>7
  <2>2. deps[i].version # NoVersion /\ v \in Reported(deps[i], adv)
    BY <1>2, <2>1
  <2>3. deps[i] \in Versioned(deps)
    BY <2>2 DEF Versioned, ToSet
  <2> QED  BY <2>2, <2>3
<1>9. ASSUME NEW d \in Versioned(deps), ScanKey(d) \notin r.lost
      PROVE  Reported(d, InitialAdvisories) \subseteq found
  <2>1. PICK i \in DOMAIN deps : d = deps[i] /\ d.version # NoVersion
    BY DEF Versioned, ToSet
  <2>2. ScanKey(d) \in DOMAIN cache
    BY <1>9 DEF Wanted
  <2>3. Reported(d, InitialAdvisories) \subseteq C(d)
    BY <1>2, <2>1, <2>2
  <2> QED  BY <1>7, <2>1, <2>3
<1>10. found \subseteq UNION {Reported(d, adv) : d \in Versioned(deps)}
  BY <1>8
<1>11. IsReportOf(found, r, adv)
  BY <1>9, <1>10 DEF IsReportOf
<1> QED  BY <1>11 DEF found

\* Nothing has been fetched yet.
LEMMA NothingFetched ==
  ASSUME NEW adv
  PROVE  Sound(<<>>, adv)
BY DEF Sound

\* Before stage 5 there is nothing to say of what a job found.
LEMMA ScanBefore ==
  ASSUME NEW r, NEW cache, NEW adv, Sound(r.fetched, adv),
         r.pc \notin {"query", "collect", "assess", "done"}
  PROVE  ScanOK(r, cache, adv)
BY DEF ScanOK

\* The steps of stages 1 to 4 leave stage 5 alone.
LEMMA BeforeScan ==
  ASSUME JobsOK, NEW j \in Jobs,
         \/ Acquire(j) \/ Parse(j) \/ CacheHit(j) \/ CacheMiss(j) \/ FetchLatest(j)
         \/ FetchFails(j) \/ StoreLatest(j)
  PROVE  /\ job'[j].pc \notin {"query", "collect", "assess", "done"}
         /\ job'[j].fetched = job[j].fetched \/ job'[j].fetched = <<>>
         /\ scanCache' = scanCache
<1> DEFINE r == job[j]
           Quiet == /\ job'[j].pc \notin {"query", "collect", "assess", "done"}
                    /\ job'[j].fetched = job[j].fetched \/ job'[j].fetched = <<>>
<1>0. IsJob(r) /\ DOMAIN job = Jobs
  BY DEF JobsOK, JobOK
<1>1. ASSUME Acquire(j) PROVE Quiet
  <2>1. PICK pc \in {"parse", "failed"} : job' = [job EXCEPT ![j].pc = pc]
    BY <1>1 DEF Acquire
  <2> QED  BY <1>0, <2>1 DEF IsJob, Fields
<1>2. ASSUME Parse(j) PROVE Quiet
  <2> DEFINE ws == Workspaces[r.ws]
  <2>1. PICK a \in parseManifests(ws) :
          job' = [job EXCEPT ![j] =
                    IF ~a.ok THEN Idle(@.ws, "failed")
                    ELSE [@ EXCEPT !.pc = "resolve", !.deps = a.deps, !.i = 1,
                                   !.techs = Inventory(ws, a.deps)]]
    BY <1>2 DEF Parse
  <2> DEFINE techs == Inventory(ws, a.deps)
             s == [r EXCEPT !.pc = "resolve", !.deps = a.deps, !.i = 1, !.techs = techs]
  <2>2. job'[j] = (IF ~a.ok THEN Idle(r.ws, "failed") ELSE s)
    <3> HIDE DEF techs
    <3> QED  BY <1>0, <2>1 DEF techs
  <2>3. Idle(r.ws, "failed").pc = "failed" /\ Idle(r.ws, "failed").fetched = <<>>
    BY DEF Idle
  <2> HIDE DEF techs, ws
  <2>4. s.pc = "resolve" /\ s.fetched = r.fetched
    BY <1>0 DEF IsJob, Fields
  <2> HIDE DEF s
  <2> QED  BY <2>2, <2>3, <2>4
<1>3. ASSUME NEW latest, job'[j] = Resolved(r, latest) PROVE Quiet
  <2>1. Resolved(r, latest).pc = "resolve" /\ Resolved(r, latest).fetched = r.fetched
    BY <1>0, ResolvedIs
  <2> QED  BY <1>3, <2>1
<1>4. ASSUME CacheHit(j) PROVE Quiet
  <2> DEFINE latest == latestCache[resolverCacheKey(Dep(j))]
  <2>1. job'[j] = Resolved(r, latest)
    BY <1>0, <1>4 DEF CacheHit
  <2> HIDE DEF latest
  <2> QED  BY <1>3, <2>1
<1>5. ASSUME StoreLatest(j) PROVE Quiet
  <2>1. job'[j] = Resolved(r, job[j].latest)
    BY <1>0, <1>5 DEF StoreLatest
  <2> QED  BY <1>3, <2>1
<1>6. ASSUME CacheMiss(j) PROVE Quiet
  BY <1>0, <1>6 DEF CacheMiss, IsJob, Fields
<1>7. ASSUME FetchLatest(j) PROVE Quiet
  <2> DEFINE latest == registry[LatestKey(Dep(j))]
  <2>1. job' = [job EXCEPT ![j].pc = "store", ![j].latest = latest]
    BY <1>7 DEF FetchLatest
  <2> HIDE DEF latest
  <2> QED  BY <1>0, <2>1 DEF IsJob, Fields
<1>8. ASSUME FetchFails(j) PROVE Quiet
  BY <1>0, <1>8 DEF FetchFails, IsJob, Fields
<1>9. scanCache' = scanCache
  BY DEF Acquire, Parse, CacheHit, CacheMiss, FetchLatest, FetchFails, StoreLatest, OnlyJob
<1> HIDE DEF Quiet
<1>10. Quiet
  BY <1>1, <1>2, <1>4, <1>5, <1>6, <1>7, <1>8
<1> QED  BY <1>9, <1>10 DEF Quiet

\* The steps of stages 5 and 6 keep what they found an answer.
LEMMA ScanStages ==
  ASSUME JobsOK, ScanInv, NEW j \in Jobs,
         ScanStart(j) \/ QueryChunk(j) \/ QueryFails(j) \/ StoreScan(j) \/ Collect(j) \/ Finish(j)
  PROVE  /\ ScanOK(job'[j], scanCache', advisories)
         /\ Sound(scanCache', advisories)
         /\ DOMAIN scanCache \subseteq DOMAIN scanCache'
<1> DEFINE r == job[j]
           n == job'[j]
           Goal == /\ ScanOK(n, scanCache', advisories)
                   /\ Sound(scanCache', advisories)
                   /\ DOMAIN scanCache \subseteq DOMAIN scanCache'
<1>0. /\ JobOK(r) /\ IsJob(r) /\ DOMAIN job = Jobs
      /\ ScanOK(r, scanCache, advisories) /\ Sound(scanCache, advisories)
  BY DEF JobsOK, JobOK, ScanInv
<1>1. ASSUME ScanStart(j) PROVE Goal
  <2>1. scanCache' = scanCache
    BY <1>1 DEF ScanStart, OnlyJob
  <2>2. /\ n.pc \in {"query", "collect"} /\ n.deps = r.deps /\ n.fetched = r.fetched
        /\ Wanted(r.deps) \subseteq DOMAIN scanCache \cup ToSet(n.toFetch)
        /\ n.pc = "collect" => Wanted(r.deps) \subseteq DOMAIN scanCache
    BY <1>1, ScanBegins
  <2> HIDE DEF r, n
  <2>3. ScanOK(n, scanCache, advisories)
    BY <1>0, <2>2 DEF ScanOK
  <2> QED  BY <1>0, <2>1, <2>3
<1>2. ASSUME QueryChunk(j) PROVE Goal
  <2>1. scanCache' = scanCache
    BY <1>2 DEF QueryChunk, OnlyJob
  <2>2. /\ r.pc = "query" /\ n.pc = "query" /\ n.deps = r.deps
        /\ \E T, U :
              /\ n.fetched = Over([k \in T |-> Answer(advisories, k)], r.fetched)
              /\ n.lost = r.lost \cup U
              /\ ToSet(r.toFetch) \subseteq T \cup U \cup ToSet(n.toFetch)
    BY <1>2, QueryAdvances
  <2>3. PICK T, U :
              /\ n.fetched = Over([k \in T |-> Answer(advisories, k)], r.fetched)
              /\ n.lost = r.lost \cup U
              /\ ToSet(r.toFetch) \subseteq T \cup U \cup ToSet(n.toFetch)
    BY <2>2
  <2> DEFINE got == [k \in T |-> Answer(advisories, k)]
  <2> HIDE DEF r, n
  <2>4. Sound(got, advisories)
    <3> SUFFICES ASSUME NEW k \in T
                 PROVE  /\ Answer(InitialAdvisories, k) \subseteq Answer(advisories, k)
                        /\ IsFiniteSet(Answer(advisories, k))
      BY DEF Sound
    <3>1. /\ Known(InitialAdvisories, k) \subseteq Known(advisories, k)
          /\ IsFiniteSet(Known(advisories, k))
      BY DEF ScanInv, AdvisoriesOK
    <3> QED  BY <3>1, AnswerGrows, AnswerFinite
  <2>5. DOMAIN got = T /\ n.fetched = Over(got, r.fetched)
    BY <2>3
  <2> HIDE DEF got
  <2>6. Sound(n.fetched, advisories)
    BY <1>0, <2>4, <2>5, SoundOver DEF ScanOK
  <2>7. DOMAIN n.fetched = T \cup DOMAIN r.fetched
    BY <2>5, OverIs
  <2>8. Wanted(n.deps) \subseteq
          DOMAIN scanCache \cup ToSet(n.toFetch) \cup DOMAIN n.fetched \cup n.lost
    <3>1. Wanted(r.deps) \subseteq
            DOMAIN scanCache \cup ToSet(r.toFetch) \cup DOMAIN r.fetched \cup r.lost
      BY <1>0, <2>2 DEF ScanOK
    <3> QED  BY <2>2, <2>3, <2>7, <3>1
  <2>9. ScanOK(n, scanCache, advisories)
    BY <2>2, <2>6, <2>8 DEF ScanOK
  <2> QED  BY <1>0, <2>1, <2>9
<1>3. ASSUME QueryFails(j) PROVE Goal
  <2>1. scanCache' = scanCache
    BY <1>3 DEF QueryFails, OnlyJob
  <2>2. n = [r EXCEPT !.pc = "assess", !.scan = "failed", !.toFetch = <<>>, !.fetched = <<>>,
                      !.lost = {}]
    BY <1>0, <1>3 DEF QueryFails
  <2> HIDE DEF r, n
  <2>3. n.pc = "assess" /\ n.scan = "failed" /\ n.fetched = <<>>
    BY <1>0, <2>2 DEF IsJob, Fields
  <2>4. ScanOK(n, scanCache, advisories)
    BY <2>3, NothingFetched DEF ScanOK
  <2> QED  BY <1>0, <2>1, <2>4
<1>4. ASSUME StoreScan(j) PROVE Goal
  <2>1. scanCache' = Over(r.fetched, scanCache) /\ r.pc = "query" /\ r.toFetch = <<>>
    BY <1>4 DEF StoreScan, At
  <2>2. n = [r EXCEPT !.pc = "collect", !.fetched = <<>>]
    BY <1>0, <1>4 DEF StoreScan
  <2> HIDE DEF r, n
  <2>3. n.pc = "collect" /\ n.fetched = <<>> /\ n.deps = r.deps /\ n.lost = r.lost
    BY <1>0, <2>2 DEF IsJob, Fields
  <2>4. DOMAIN scanCache' = DOMAIN r.fetched \cup DOMAIN scanCache
    BY <2>1, OverIs
  <2>5. Sound(scanCache', advisories)
    BY <1>0, <2>1, SoundOver DEF ScanOK
  <2>6. Wanted(n.deps) \subseteq DOMAIN scanCache' \cup n.lost
    <3>1. Wanted(r.deps) \subseteq
            DOMAIN scanCache \cup ToSet(r.toFetch) \cup DOMAIN r.fetched \cup r.lost
      BY <1>0, <2>1 DEF ScanOK
    <3>2. ToSet(r.toFetch) = {}
      BY <2>1 DEF ToSet
    <3> QED  BY <2>3, <2>4, <3>1, <3>2
  <2>7. ScanOK(n, scanCache', advisories)
    BY <2>3, <2>6, NothingFetched DEF ScanOK
  <2> QED  BY <2>4, <2>5, <2>7
<1>5. ASSUME Collect(j) PROVE Goal
  <2>1. scanCache' = scanCache /\ r.pc = "collect"
    BY <1>5 DEF Collect, OnlyJob, At
  <2> DEFINE vulns == Vulnerabilities(r.deps, scanCache)
  <2>2. n = [r EXCEPT !.pc = "assess", !.scan = "ok", !.vulns = vulns]
    <3>1. job' = [job EXCEPT ![j].pc = "assess", ![j].scan = "ok", ![j].vulns = vulns]
      BY <1>5 DEF Collect
    <3> HIDE DEF vulns
    <3> QED  BY <1>0, <3>1
  <2>3. IsReportOf(ToSet(vulns), r, advisories)
    <3> HIDE DEF r
    <3>1. r.deps \in Seq(Dependencies) /\ Wanted(r.deps) \subseteq DOMAIN scanCache \cup r.lost
      BY <1>0, <2>1 DEF ScanOK, JobOK
    <3> QED  BY <1>0, <3>1, CollectIsReport
  <2> HIDE DEF vulns, r, n
  <2>4. /\ n.pc = "assess" /\ n.deps = r.deps /\ n.lost = r.lost /\ n.fetched = r.fetched
        /\ n.vulns = vulns
    BY <1>0, <2>2 DEF IsJob, Fields
  <2>5. IsReportOf(ToSet(n.vulns), n, advisories)
    BY <2>3, <2>4 DEF IsReportOf
  <2>6. ScanOK(n, scanCache, advisories)
    BY <1>0, <2>4, <2>5 DEF ScanOK
  <2> QED  BY <1>0, <2>1, <2>6
<1>6. ASSUME Finish(j) PROVE Goal
  <2>1. scanCache' = scanCache /\ r.pc = "assess"
    BY <1>6 DEF Finish, OnlyJob, At
  <2> DEFINE summary == Assess(Workspaces[r.ws], r.techs, r.deps, r.vulns)
  <2>2. n = [r EXCEPT !.report = summary, !.pc = "done", !.techs = <<>>, !.vulns = <<>>]
    <3>1. job' = [job EXCEPT ![j].report = summary, ![j].pc = "done", ![j].techs = <<>>,
                             ![j].vulns = <<>>]
      BY <1>6 DEF Finish
    <3> HIDE DEF summary
    <3> QED  BY <1>0, <3>1
  <2>3. summary.vulnerabilities = r.vulns
    BY ReportKeeps
  <2> HIDE DEF summary, r, n
  <2>4. /\ n.pc = "done" /\ n.deps = r.deps /\ n.lost = r.lost /\ n.fetched = r.fetched
        /\ n.scan = r.scan /\ n.report = summary
    BY <1>0, <2>2 DEF IsJob, Fields
  <2>5. n.scan = "ok" => IsReportOf(ToSet(n.report.vulnerabilities), n, advisories)
    <3>1. r.scan = "ok" => IsReportOf(ToSet(r.vulns), r, advisories)
      BY <1>0, <2>1 DEF ScanOK
    <3> QED  BY <2>3, <2>4, <3>1 DEF IsReportOf
  <2>6. ScanOK(n, scanCache, advisories)
    BY <1>0, <2>4, <2>5 DEF ScanOK
  <2> QED  BY <1>0, <2>1, <2>6
<1> HIDE DEF Goal
<1>7. Goal
  BY <1>1, <1>2, <1>3, <1>4, <1>5, <1>6
<1> QED  BY <1>7 DEF Goal

\* A step of one job leaves the scans of all of them as they should be.
LEMMA StageKeepsScans ==
  ASSUME ManifestsGiveDependencies, JobsOK, ScanInv, NEW j \in Jobs, Stage(j)
  PROVE  ScanInv'
<1>1. advisories' = advisories
  BY StageKeepsWorld DEF world
<1>2. \A k \in Jobs : k # j => job'[k] = job[k]
  BY StageAdvances DEF Advances
<1>3. /\ ScanOK(job'[j], scanCache', advisories)
      /\ Sound(scanCache', advisories)
      /\ DOMAIN scanCache \subseteq DOMAIN scanCache'
  <2>1. CASE \/ Acquire(j) \/ Parse(j) \/ CacheHit(j) \/ CacheMiss(j) \/ FetchLatest(j)
             \/ FetchFails(j) \/ StoreLatest(j)
    <3>1. /\ job'[j].pc \notin {"query", "collect", "assess", "done"}
          /\ job'[j].fetched = job[j].fetched \/ job'[j].fetched = <<>>
          /\ scanCache' = scanCache
      BY <2>1, BeforeScan
    <3>2. Sound(job[j].fetched, advisories) /\ Sound(scanCache, advisories)
      BY DEF ScanInv, ScanOK
    <3>3. Sound(job'[j].fetched, advisories)
      BY <3>1, <3>2, NothingFetched
    <3> QED  BY <3>1, <3>2, <3>3, ScanBefore
  <2>2. CASE \/ ScanStart(j) \/ QueryChunk(j) \/ QueryFails(j) \/ StoreScan(j) \/ Collect(j)
             \/ Finish(j)
    BY <2>2, ScanStages
  <2> QED  BY <2>1, <2>2 DEF Stage
<1>4. ASSUME NEW k \in Jobs PROVE ScanOK(job'[k], scanCache', advisories)
  <2>1. CASE k = j
    BY <1>3, <2>1
  <2>2. CASE k # j
    <3>1. ScanOK(job[k], scanCache, advisories) /\ job'[k] = job[k]
      BY <1>2, <2>2 DEF ScanInv
    <3>2. \A key : Known(advisories, key) \subseteq Known(advisories, key)
      OBVIOUS
    <3>3. ScanOK(job[k], scanCache', advisories)
      BY <1>3, <3>1, <3>2, ScanGrows
    <3> QED  BY <3>1, <3>3
  <2> QED  BY <2>1, <2>2
<1>5. AdvisoriesOK(advisories)
  BY DEF ScanInv
<1> QED  BY <1>1, <1>3, <1>4, <1>5 DEF ScanInv

\* A disclosure only adds to what OSV tells.
LEMMA DiscloseKeepsScans ==
  ASSUME ScanInv, Disclose
  PROVE  ScanInv'
<1>1. PICK d \in Disclosures :
        advisories' = With(advisories, d[1], Known(advisories, d[1]) \cup {d[2]})
  BY DEF Disclose
<1>2. job' = job /\ scanCache' = scanCache
  BY DEF Disclose
<1> DEFINE a == advisories
           b == With(advisories, d[1], Known(advisories, d[1]) \cup {d[2]})
<1>3. ASSUME NEW key
      PROVE  Known(b, key) = (IF key = d[1] THEN Known(a, key) \cup {d[2]} ELSE Known(a, key))
  BY DEF Known, With, Over
<1> HIDE DEF a, b
<1>4. \A key : Known(a, key) \subseteq Known(b, key)
  BY <1>3
<1>5. AdvisoriesOK(b)
  <2> SUFFICES ASSUME NEW key
               PROVE  /\ Known(InitialAdvisories, key) \subseteq Known(b, key)
                      /\ IsFiniteSet(Known(b, key))
    BY DEF AdvisoriesOK
  <2>1. Known(InitialAdvisories, key) \subseteq Known(a, key) /\ IsFiniteSet(Known(a, key))
    BY DEF ScanInv, AdvisoriesOK, a
  <2>2. IsFiniteSet(Known(a, key) \cup {d[2]})
    BY <2>1, FS_AddElement
  <2> QED  BY <1>3, <1>4, <2>1, <2>2
<1>6. Sound(scanCache, b)
  BY <1>4, SoundGrows DEF ScanInv, a
<1>7. ASSUME NEW j \in Jobs PROVE ScanOK(job[j], scanCache, b)
  <2>1. ScanOK(job[j], scanCache, a)
    BY DEF ScanInv, a
  <2>2. DOMAIN scanCache \subseteq DOMAIN scanCache
    OBVIOUS
  <2> QED  BY <1>4, <2>1, <2>2, ScanGrows
<1>8. advisories' = b
  BY <1>1 DEF b
<1> QED  BY <1>2, <1>5, <1>6, <1>7, <1>8 DEF ScanInv

\* A crash empties the cache, and the jobs that looked at it begin again.
LEMMA CrashKeepsScans ==
  ASSUME JobsOK, ScanInv, Crash
  PROVE  ScanInv'
<1>1. scanCache' = <<>> /\ advisories' = advisories
  BY DEF Crash
<1>2. ASSUME NEW j \in Jobs PROVE ScanOK(job'[j], <<>>, advisories)
  <2>1. ScanOK(job[j], scanCache, advisories)
    BY DEF ScanInv
  <2>2. CASE job'[j] = job[j] /\ job[j].pc \in Ended
    BY <2>1, <2>2 DEF ScanOK, Ended
  <2>3. CASE job'[j] = Idle(job[j].ws, "acquire")
    <3>1. job'[j].pc = "acquire" /\ job'[j].fetched = <<>>
      BY <2>3 DEF Idle
    <3> QED  BY <3>1, NothingFetched, ScanBefore
  <2> QED  BY <2>2, <2>3, CrashKeepsJobs
<1>3. AdvisoriesOK(advisories)
  BY DEF ScanInv
<1> QED  BY <1>1, <1>2, <1>3, NothingFetched DEF ScanInv

\* Scan and its cache, which the jobs share: the vulnerabilities of a summary
\* are those of the job's own dependencies, with the mark of each of them, and
\* none that OSV knew when the worker started is missing, unless an answer came
\* without it.
THEOREM ReportsAreOfTheirDependencies ==
  ASSUME ManifestsGiveDependencies
  PROVE  Spec => []ReportIsOfItsDependencies
<1>1. Init => ScanInv
  <2> SUFFICES ASSUME Init PROVE ScanInv
    OBVIOUS
  <2>1. advisories = InitialAdvisories /\ scanCache = <<>>
    BY DEF Init
  <2>2. AdvisoriesOK(advisories)
    <3> SUFFICES ASSUME NEW key PROVE IsFiniteSet(Known(InitialAdvisories, key))
      BY <2>1 DEF AdvisoriesOK
    <3> QED  BY AdvisoriesAssumption, FS_EmptySet DEF Known
  <2>3. ASSUME NEW j \in Jobs PROVE ScanOK(job[j], scanCache, advisories)
    <3>1. job[j].pc \in {"acquire", "none"} /\ job[j].fetched = <<>>
      <4>1. PICK a \in Assignments :
              job = [k \in Jobs |-> IF k \in DOMAIN a THEN Idle(a[k], "acquire")
                                   ELSE Idle("", "none")]
        BY DEF Init
      <4>2. job[j] = Idle(a[j], "acquire") \/ job[j] = Idle("", "none")
        BY <4>1
      <4>3. CASE job[j] = Idle(a[j], "acquire")
        <5>1. Idle(a[j], "acquire").pc = "acquire" /\ Idle(a[j], "acquire").fetched = <<>>
          BY DEF Idle
        <5> QED  BY <4>3, <5>1
      <4>4. CASE job[j] = Idle("", "none")
        <5>1. Idle("", "none").pc = "none" /\ Idle("", "none").fetched = <<>>
          BY DEF Idle
        <5> QED  BY <4>4, <5>1
      <4> QED  BY <4>2, <4>3, <4>4
    <3> QED  BY <3>1, NothingFetched, ScanBefore
  <2> QED  BY <2>1, <2>2, <2>3, NothingFetched DEF ScanInv
<1>2. JobsOK /\ ScanInv /\ [Next]_vars => ScanInv'
  <2> SUFFICES ASSUME JobsOK, ScanInv, [Next]_vars PROVE ScanInv'
    OBVIOUS
  <2>1. CASE Publish \/ UNCHANGED vars
    BY <2>1 DEF Publish, vars, ScanInv
  <2>2. CASE Disclose
    BY <2>2, DiscloseKeepsScans
  <2>3. CASE Crash
    BY <2>3, CrashKeepsScans
  <2>4. ASSUME NEW j \in Jobs, Stage(j) PROVE ScanInv'
    BY <2>4, StageKeepsScans
  <2> QED  BY <2>1, <2>2, <2>3, <2>4 DEF Next
<1>3. ScanInv => ReportIsOfItsDependencies
  BY DEF ScanInv, ScanOK, ReportIsOfItsDependencies, Done, At
<1> QED  BY <1>1, <1>2, <1>3, JobsAreWellFormed, PTL DEF Spec

-----------------------------------------------------------------------------
(* IslandsAreCounted. *)

\* A summary is the one that stage 6 makes of the job's tree.
Assessed(r) ==
  r.pc = "done" =>
    \E techs, deps, vulns : r.report = Assess(Workspaces[r.ws], techs, deps, vulns)

AssessedInv == \A j \in Jobs : Assessed(job[j])

\* The modules reported are those of cards with code, and none of them is in the
\* graph or counted as a test.
LEMMA IslandsHaveCode ==
  ASSUME NEW graph, NEW all
  PROVE  LET live == LiveSet(graph, all)
         IN Fate(all, live, "unreachable") \subseteq
              {all[i].module : i \in {k \in DOMAIN all : all[k].code}}
                \ (Nodes(graph) \cup TestModules(graph, all, live))
<1> DEFINE live == LiveSet(graph, all)
           coded == {k \in DOMAIN all : all[k].code}
<1> SUFFICES ASSUME NEW m \in Fate(all, live, "unreachable")
             PROVE  /\ m \in {all[i].module : i \in coded}
                    /\ m \notin Nodes(graph) /\ m \notin TestModules(graph, all, live)
  OBVIOUS
<1>1. PICK i \in DOMAIN all : m = all[i].module /\ Disposition(all[i], live) = "unreachable"
  BY DEF Fate
<1>2. m \notin live /\ ~isTestModuleByName(m) /\ all[i].code
  <2>1. /\ all[i].module \notin live /\ ~isTestModuleByName(all[i].module) /\ ~EmptyCard(all[i])
    <3> HIDE DEF live
    <3> QED  BY <1>1 DEF Disposition
  <2> QED  BY <1>1, <2>1 DEF EmptyCard
<1>3. graph # <<>> /\ live = Nodes(graph)
  <2>1. graph # <<>>
    BY <1>1, <1>2 DEF LiveSet
  <2> QED  BY <2>1 DEF LiveSet
<1> HIDE DEF live
<1>4. m \notin Fate(all, live, "test")
  <2> SUFFICES ASSUME NEW k \in DOMAIN all, m = all[k].module, Disposition(all[k], live) = "test"
               PROVE  FALSE
    BY DEF Fate
  <2>1. isTestModuleByName(m)
    BY DEF Disposition
  <2> QED  BY <1>2, <2>1
<1>5. m \notin TestModules(graph, all, live)
  BY <1>2, <1>3, <1>4 DEF TestModules
<1> QED  BY <1>1, <1>2, <1>3, <1>5

\* Every card with code is counted, as a test or as production.
LEMMA CodeIsCounted ==
  ASSUME NEW n \in Nat, NEW cards, DOMAIN cards = 1 .. n, NEW live, NEW tests, NEW classified
  PROVE  LET c == moduleCount(cards, live, tests, classified)
         IN c.production + c.test >= Cardinality({i \in DOMAIN cards : cards[i].code})
<1> DEFINE D == DOMAIN cards
           isTest == {i \in D : cards[i].module \in tests}
           marker == {i \in D : EmptyCard(cards[i]) /\ cards[i].module \notin classified}
           production == D \ (isTest \cup marker)
           coded == {i \in D : cards[i].code}
<1>1. /\ moduleCount(cards, live, tests, classified).test = Cardinality(isTest)
      /\ moduleCount(cards, live, tests, classified).production = Cardinality(production)
  BY DEF moduleCount
<1>2. coded \subseteq isTest \cup production
  BY DEF EmptyCard
<1>3. IsFiniteSet(D) /\ isTest \subseteq D /\ production \subseteq D /\ isTest \cap production = {}
  BY FS_Interval
<1> HIDE DEF D, isTest, production, coded
<1>4. IsFiniteSet(isTest) /\ IsFiniteSet(production)
  BY <1>3, FS_Subset
<1>5. /\ IsFiniteSet(isTest \cup production)
      /\ Cardinality(isTest \cup production) =
           Cardinality(isTest) + Cardinality(production) - Cardinality(isTest \cap production)
  BY <1>4, FS_Union
<1>6. Cardinality(isTest \cap production) = 0
  BY <1>3, FS_EmptySet
<1>7. Cardinality(coded) <= Cardinality(isTest \cup production)
  BY <1>2, <1>5, FS_Subset
<1>8. Cardinality(isTest) \in Nat /\ Cardinality(production) \in Nat /\ Cardinality(coded) \in Nat
  <2>1. IsFiniteSet(coded)
    BY <1>2, <1>5, FS_Subset
  <2> QED  BY <1>4, <2>1, FS_CardinalityType
<1>9. Cardinality(production) + Cardinality(isTest) >= Cardinality(coded)
  BY <1>5, <1>6, <1>7, <1>8
<1> QED  BY <1>1, <1>9 DEF coded, D

\* What a summary says of the cards of its tree.
LEMMA SummaryCountsIslands ==
  ASSUME NEW ws, NEW n \in Nat, DOMAIN moduleCards(ws) = 1 .. n, NEW techs, NEW deps, NEW vulns
  PROVE  LET r == Assess(ws, techs, deps, vulns)
             all == moduleCards(ws)
             coded == {i \in DOMAIN all : all[i].code}
         IN /\ r.unreachable \subseteq {all[i].module : i \in coded} \ (Nodes(r.graph) \cup r.tests)
            /\ r.production + r.testCount >= Cardinality(coded)
<1> DEFINE r == Assess(ws, techs, deps, vulns)
           all == moduleCards(ws)
           graph == dependencyGraph(ws)
           live == LiveSet(graph, all)
           tests == TestModules(graph, all, live)
           count == moduleCount(all, live, tests, ClassifiedSet(graph))
           coded == {i \in DOMAIN all : all[i].code}
<1>1. /\ r.graph = graph /\ r.tests = tests /\ r.unreachable = Fate(all, live, "unreachable")
      /\ r.production = count.production /\ r.testCount = count.test
  BY DEF Assess, Summarize
<1> HIDE DEF r
<1>2. Fate(all, live, "unreachable") \subseteq
        {all[i].module : i \in coded} \ (Nodes(graph) \cup tests)
  <2> HIDE DEF graph, all
  <2> QED  BY IslandsHaveCode
<1>3. count.production + count.test >= Cardinality(coded)
  <2>1. DOMAIN all = 1 .. n
    OBVIOUS
  <2> HIDE DEF graph, all, live, tests
  <2> QED  BY <2>1, CodeIsCounted
<1>4. /\ r.unreachable \subseteq {all[i].module : i \in coded} \ (Nodes(r.graph) \cup r.tests)
      /\ r.production + r.testCount >= Cardinality(coded)
  <2> HIDE DEF graph, all, live, tests, count, coded
  <2> QED  BY <1>1, <1>2, <1>3
<1> QED  BY <1>4 DEF r

\* A job that is done stays as it is, and only Finish makes one done.
LEMMA StageKeepsAssessed ==
  ASSUME ManifestsGiveDependencies, JobsOK, AssessedInv, NEW j \in Jobs, Stage(j)
  PROVE  AssessedInv'
<1>1. \A k \in Jobs : k # j => job'[k] = job[k]
  BY StageAdvances DEF Advances
<1>2. Assessed(job'[j])
  <2>0. IsJob(job[j]) /\ DOMAIN job = Jobs
    BY DEF JobsOK, JobOK
  <2>1. CASE \/ Acquire(j) \/ Parse(j) \/ CacheHit(j) \/ CacheMiss(j) \/ FetchLatest(j)
             \/ FetchFails(j) \/ StoreLatest(j)
    <3>1. job'[j].pc # "done"
      BY <2>1, BeforeScan
    <3> QED  BY <3>1 DEF Assessed
  <2>2. CASE ScanStart(j)
    <3>1. job'[j].pc # "done"
      BY <2>2, ScanBegins
    <3> QED  BY <3>1 DEF Assessed
  <2>3. CASE QueryChunk(j)
    <3>1. job'[j].pc # "done"
      BY <2>3, QueryAdvances
    <3> QED  BY <3>1 DEF Assessed
  <2>4. CASE QueryFails(j) \/ StoreScan(j)
    <3> DEFINE r == job[j]
               fails == [r EXCEPT !.pc = "assess", !.scan = "failed", !.toFetch = <<>>,
                                  !.fetched = <<>>, !.lost = {}]
               stores == [r EXCEPT !.pc = "collect", !.fetched = <<>>]
    <3>2. job'[j] = fails \/ job'[j] = stores
      BY <2>0, <2>4 DEF QueryFails, StoreScan
    <3> HIDE DEF r
    <3>3. fails.pc = "assess" /\ stores.pc = "collect"
      BY <2>0 DEF IsJob, Fields, r
    <3> HIDE DEF fails, stores
    <3>1. job'[j].pc # "done"
      BY <3>2, <3>3
    <3> QED  BY <3>1 DEF Assessed
  <2>5. CASE Collect(j)
    <3> DEFINE vulns == Vulnerabilities(job[j].deps, scanCache)
    <3>1. job' = [job EXCEPT ![j].pc = "assess", ![j].scan = "ok", ![j].vulns = vulns]
      BY <2>5 DEF Collect
    <3> HIDE DEF vulns
    <3>2. job'[j].pc # "done"
      BY <2>0, <3>1 DEF IsJob, Fields
    <3> QED  BY <3>2 DEF Assessed
  <2>6. CASE Finish(j)
    <3> DEFINE r == job[j]
               summary == Assess(Workspaces[r.ws], r.techs, r.deps, r.vulns)
    <3>1. job' = [job EXCEPT ![j].report = summary, ![j].pc = "done", ![j].techs = <<>>,
                             ![j].vulns = <<>>]
      BY <2>6 DEF Finish
    <3>2. job'[j].report = summary /\ job'[j].ws = r.ws
      <4> HIDE DEF summary
      <4> QED  BY <2>0, <3>1 DEF IsJob, Fields
    <3> HIDE DEF r
    <3>3. \E techs, deps, vulns :
            job'[j].report = Assess(Workspaces[job'[j].ws], techs, deps, vulns)
      BY <3>2
    <3> QED  BY <3>3 DEF Assessed
  <2> QED  BY <2>1, <2>2, <2>3, <2>4, <2>5, <2>6 DEF Stage
<1> QED  BY <1>1, <1>2 DEF AssessedInv

\* Stage 6 (B2): the modules of a summary that are put up for review have code, no
\* edge and no test among them, and still every card with code is counted, as a
\* test or as production.
THEOREM IslandsCount ==
  ASSUME ManifestsGiveDependencies, AnalyzersGiveLists
  PROVE  Spec => []IslandsAreCounted
<1>1. Init => AssessedInv
  <2> SUFFICES ASSUME Init, NEW j \in Jobs PROVE Assessed(job[j])
    BY DEF AssessedInv
  <2>1. PICK a \in Assignments :
          job = [k \in Jobs |-> IF k \in DOMAIN a THEN Idle(a[k], "acquire") ELSE Idle("", "none")]
    BY DEF Init
  <2>2. Idle(a[j], "acquire").pc = "acquire" /\ Idle("", "none").pc = "none"
    BY DEF Idle
  <2>3. job[j] = Idle(a[j], "acquire") \/ job[j] = Idle("", "none")
    BY <2>1
  <2>4. job[j].pc # "done"
    BY <2>2, <2>3
  <2> QED  BY <2>4 DEF Assessed
<1>2. JobsOK /\ AssessedInv /\ [Next]_vars => AssessedInv'
  <2> SUFFICES ASSUME JobsOK, AssessedInv, [Next]_vars PROVE AssessedInv'
    OBVIOUS
  <2>1. CASE Publish \/ Disclose \/ UNCHANGED vars
    BY <2>1 DEF Publish, Disclose, vars, AssessedInv
  <2>2. CASE Crash
    <3>1. ASSUME NEW j \in Jobs PROVE Assessed(job'[j])
      <4>1. CASE job'[j] = job[j]
        BY <4>1 DEF AssessedInv
      <4>2. CASE job'[j] = Idle(job[j].ws, "acquire")
        <5>1. job'[j].pc = "acquire"
          BY <4>2 DEF Idle
        <5> QED  BY <5>1 DEF Assessed
      <4> QED  BY <2>2, <4>1, <4>2, CrashKeepsJobs
    <3> QED  BY <3>1 DEF AssessedInv
  <2>3. ASSUME NEW j \in Jobs, Stage(j) PROVE AssessedInv'
    BY <2>3, StageKeepsAssessed
  <2> QED  BY <2>1, <2>2, <2>3 DEF Next
<1>3. JobsOK /\ AssessedInv => IslandsAreCounted
  <2> SUFFICES ASSUME JobsOK, AssessedInv, NEW j \in Jobs, Done(j)
               PROVE  LET r == job[j].report
                          all == moduleCards(Tree(j))
                          coded == {i \in DOMAIN all : all[i].code}
                      IN /\ r.unreachable \subseteq
                              {all[i].module : i \in coded} \ (Nodes(r.graph) \cup r.tests)
                         /\ r.production + r.testCount >= Cardinality(coded)
    BY DEF IslandsAreCounted
  <2>1. job[j].pc = "done" /\ job[j].ws \in DOMAIN Workspaces
    BY DEF Done, At, JobsOK, JobOK
  <2>2. PICK techs, deps, vulns : job[j].report = Assess(Tree(j), techs, deps, vulns)
    BY <2>1 DEF AssessedInv, Assessed, Tree
  <2> DEFINE n == Len(moduleCards(Tree(j)))
  <2>3. n \in Nat /\ DOMAIN moduleCards(Tree(j)) = 1 .. n
    BY <2>1 DEF AnalyzersGiveLists, Tree
  <2> HIDE DEF n
  <2> QED  BY <2>2, <2>3, SummaryCountsIslands
<1> QED  BY <1>1, <1>2, <1>3, JobsAreWellFormed, PTL DEF Spec
==============================================================================
