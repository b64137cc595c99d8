-------------------------- MODULE PlanAssemblyProofs --------------------------
(***************************************************************************)
(* The stored plan, for any number of migrations, source trees, deliveries *)
(* and restarts of the worker process: two services of a plan that differ  *)
(* in name differ in error prefix, and the artifacts that a job leaves     *)
(* behind are the ones of the plan it wrote.                               *)
(***************************************************************************)
EXTENDS PlanAssembly, SequenceTheorems, TLAPS

-----------------------------------------------------------------------------
(* The inductive invariant. *)

\* f is a function on S, and s a sequence.
Total(f, S) == f = [x \in S |-> f[x]]
IsSequence(s) == s \in Seq(ToSet(s))

JobFields == {"pc", "tries", "cands", "contracts", "stored"}
CandidateFields == {"name", "prefix", "resources", "deps", "couplings"}

IsCandidates(s) == IsSequence(s) /\ \A i \in 1..Len(s) : Total(s[i], CandidateFields)

JobShaped(j) == Total(j, JobFields) /\ IsCandidates(j.cands) /\ j.stored \in Nat

Shaped ==
  /\ Total(job, Migrations) /\ Total(plan, Migrations) /\ Total(artifact, Migrations)
  /\ \A m \in Migrations : JobShaped(job[m])

\* The table holds the prefix of every candidate of a running job under the
\* name of that candidate.
Claimed(table, cands) ==
  \A i \in 1..Len(cands) :
    cands[i].prefix \in DOMAIN table /\ table[cands[i].prefix] = cands[i].name

ClaimsHold == \A m \in Migrations : job[m].pc \in Running => Claimed(assigned, job[m].cands)

PrefixInv == Shaped /\ ClaimsHold /\ PlanPrefixesAreDistinct

\* The documents carry the i-th service of a plan, or a later one of its name.
Carried(docs, services, i) ==
  LET name == services[i].name IN
  \E t \in ToSet(services) :
    t.name = name /\ name \in DOMAIN docs /\ docs[name].spec.service = t

\* A job that stores holds the plan that it wrote, and what it has counted as
\* stored is there.
Storing(j, services, docs) ==
  /\ j.pc \in {"characterize", "write"} => j.stored = 0
  /\ j.pc = "store" => services = assemblePlan(j.cands, analyzeDataOwnership(j.contracts))
  /\ j.pc \in {"store", "done"} =>
       \A i \in 1..j.stored : i \in DOMAIN services => Carried(docs, services, i)

ArtifactsInv ==
  /\ Shaped
  /\ \A m \in Migrations : Storing(job[m], plan[m].services, artifact[m])
  /\ \A m \in Migrations : IsSequence(plan[m].services)

-----------------------------------------------------------------------------
(* Sequences. *)

\* A sequence over some set is one over its own elements.
LEMMA SequenceOfItsElements ==
  ASSUME NEW S, NEW s \in Seq(S)
  PROVE  IsSequence(s)
<1>1. s \in [1..Len(s) -> S] /\ Len(s) \in Nat /\ DOMAIN s = 1..Len(s)
  BY LenProperties
<1>2. s \in [1..Len(s) -> ToSet(s)]
  BY <1>1 DEF ToSet
<1> QED
  BY <1>1, <1>2, SeqDef DEF IsSequence

\* A function on 1..n is a sequence of length n.
LEMMA FunctionIsSequence ==
  ASSUME NEW n \in Nat, NEW s, s = [i \in 1..n |-> s[i]]
  PROVE  IsSequence(s) /\ Len(s) = n /\ DOMAIN s = 1..n
<1> DEFINE T == ToSet(s)
<1>1. DOMAIN s = 1..n
  OBVIOUS
<1>2. s \in [1..n -> T]
  BY <1>1 DEF ToSet
<1>3. s \in Seq(T)
  BY <1>2, SeqDef
<1>4. Len(s) \in Nat /\ DOMAIN s = 1..Len(s)
  BY <1>3, LenProperties
<1> QED
  BY <1>1, <1>3, <1>4 DEF IsSequence

\* What a sequence has become when an element is appended to it.
LEMMA AppendedSequence ==
  ASSUME NEW s, NEW e, IsSequence(s)
  PROVE  /\ IsSequence(Append(s, e))
         /\ Len(s) \in Nat
         /\ Len(Append(s, e)) = Len(s) + 1
         /\ \A i \in 1..Len(Append(s, e)) :
              Append(s, e)[i] = IF i <= Len(s) THEN s[i] ELSE e
<1> DEFINE T == ToSet(s) \cup {e}
<1>1. s \in Seq(T)
  BY SeqMonotonic DEF IsSequence
<1>2. e \in T
  OBVIOUS
<1> HIDE DEF T
<1>3. Append(s, e) \in Seq(T) /\ Len(s) \in Nat /\ Len(Append(s, e)) = Len(s) + 1
  BY <1>1, <1>2, LenProperties
<1>4. \A i \in 1..Len(Append(s, e)) : Append(s, e)[i] = IF i <= Len(s) THEN s[i] ELSE e
  BY <1>1, <1>2, <1>3
<1> QED
  BY <1>3, <1>4, SequenceOfItsElements

\* The length of a sequence and its index set.
LEMMA SequenceDomain ==
  ASSUME NEW s, IsSequence(s)
  PROVE  Len(s) \in Nat /\ DOMAIN s = 1..Len(s)
BY LenProperties DEF IsSequence

\* The empty sequence.
LEMMA EmptyCandidates == IsCandidates(<<>>) /\ Len(<<>>) = 0
BY EmptySeq DEF IsCandidates, IsSequence, ToSet

-----------------------------------------------------------------------------
(* The operators that the stages are built from. *)

\* A job that is idle, or that starts over, carries nothing.
LEMMA IdleFields ==
  ASSUME NEW t, NEW p
  PROVE  /\ JobShaped(Idle(t, p))
         /\ Idle(t, p).pc = p /\ Idle(t, p).cands = <<>> /\ Idle(t, p).stored = 0
<1>1. Total(Idle(t, p), JobFields)
  BY DEF Idle, Total, JobFields
<1>2. Idle(t, p).pc = p /\ Idle(t, p).cands = <<>> /\ Idle(t, p).stored = 0
  BY DEF Idle
<1> QED
  BY <1>1, <1>2, EmptyCandidates DEF JobShaped

\* A job that is delivered again, or given up, is not running.
LEMMA RetryFields ==
  ASSUME NEW j
  PROVE  JobShaped(Retry(j)) /\ Retry(j).pc \in {"queued", "failed"}
BY IdleFields DEF Retry

\* What characterize makes of a cluster, as far as name and prefix go.
LEMMA CharacterizedFields ==
  ASSUME NEW ws, NEW i, NEW p
  PROVE  /\ Total(characterize(ws, i, p), CandidateFields)
         /\ characterize(ws, i, p).name = NameOf(ws, i)
         /\ characterize(ws, i, p).prefix = p
BY DEF characterize, Total, CandidateFields

\* The dependencies that foreign keys add change no name and no prefix.
LEMMA AugmentKeeps ==
  ASSUME NEW s, NEW fks, IsCandidates(s)
  PROVE  LET a == augmentDataDeps(s, fks) IN
         /\ IsCandidates(a)
         /\ Len(a) = Len(s)
         /\ \A i \in 1..Len(s) : a[i].name = s[i].name /\ a[i].prefix = s[i].prefix
<1> DEFINE D(i) == s[i].deps \cup
             {fk.ref : fk \in {x \in fks : x.ref # NoService /\ LastNamed(s, x.owner) = i}}
           a == [i \in 1..Len(s) |-> [s[i] EXCEPT !.deps = D(i)]]
<1>1. augmentDataDeps(s, fks) = a
  BY DEF augmentDataDeps
<1> HIDE DEF D
<1>2. Len(s) \in Nat
  BY SequenceDomain DEF IsCandidates
<1>3. a = [i \in 1..Len(s) |-> a[i]]
  OBVIOUS
<1>4. IsSequence(a) /\ Len(a) = Len(s)
  BY <1>2, <1>3, FunctionIsSequence
<1>5. ASSUME NEW i \in 1..Len(s)
      PROVE  /\ Total(a[i], CandidateFields)
             /\ a[i].name = s[i].name /\ a[i].prefix = s[i].prefix
  <2>1. a[i] = [s[i] EXCEPT !.deps = D(i)]
    OBVIOUS
  <2>2. Total(s[i], CandidateFields)
    BY DEF IsCandidates
  <2> QED
    BY <2>1, <2>2 DEF Total, CandidateFields
<1> HIDE DEF a
<1> QED
  BY <1>1, <1>4, <1>5 DEF IsCandidates

\* The plan has one service per candidate, with its name and its prefix.
LEMMA AssembledServices ==
  ASSUME NEW s, NEW fks, IsCandidates(s)
  PROVE  LET p == assemblePlan(s, fks) IN
         /\ IsSequence(p)
         /\ Len(s) \in Nat /\ Len(p) = Len(s) /\ DOMAIN p = 1..Len(s)
         /\ \A i \in 1..Len(s) : p[i].name = s[i].name /\ p[i].prefix = s[i].prefix
<1> DEFINE p == [i \in 1..Len(s) |->
                   [name |-> s[i].name, prefix |-> s[i].prefix, resources |-> s[i].resources,
                    deps |-> s[i].deps, fks |-> {fk \in fks : fk.owner = s[i].name}]]
<1>1. assemblePlan(s, fks) = p
  BY DEF assemblePlan, Mapped
<1>2. Len(s) \in Nat
  BY SequenceDomain DEF IsCandidates
<1>3. p = [i \in 1..Len(s) |-> p[i]]
  OBVIOUS
<1>4. \A i \in 1..Len(s) : p[i].name = s[i].name /\ p[i].prefix = s[i].prefix
  OBVIOUS
<1> HIDE DEF p
<1>5. IsSequence(p) /\ Len(p) = Len(s) /\ DOMAIN p = 1..Len(s)
  BY <1>2, <1>3, FunctionIsSequence
<1> QED
  BY <1>1, <1>2, <1>4, <1>5

\* A claim keeps every entry of the table and adds its own: a prefix that has
\* an owner is only usable to that owner.
LEMMA ClaimKeepsOwners ==
  ASSUME NEW name, NEW k, Claim(name, k)
  PROVE  /\ Candidate(name, k) \in DOMAIN assigned'
         /\ assigned'[Candidate(name, k)] = name
         /\ \A p \in DOMAIN assigned : p \in DOMAIN assigned' /\ assigned'[p] = assigned[p]
BY DEF Claim, Settles, Usable

-----------------------------------------------------------------------------
(* The steps of one job. *)

\* Only the job of m moves, and it keeps its shape.
Moved(m) == job' = [job EXCEPT ![m] = job'[m]] /\ JobShaped(job'[m])

\* Replacing the job of m by a well-shaped one.
LEMMA ReplaceMoves ==
  ASSUME Shaped, NEW m \in Migrations, NEW k, JobShaped(k), job' = [job EXCEPT ![m] = k]
  PROVE  Moved(m) /\ job'[m] = k
<1>1. job'[m] = k
  BY DEF Shaped, Total
<1> QED
  BY <1>1 DEF Moved

\* A job that starts, fails or ends its storing is idle.
LEMMA StartMoves ==
  ASSUME Shaped, NEW m \in Migrations, StartJob(m)
  PROVE  Moved(m) /\ job'[m].pc = "characterize" /\ job'[m].cands = <<>> /\ job'[m].stored = 0
<1> DEFINE k == Idle(job[m].tries + 1, "characterize")
<1>1. job' = [job EXCEPT ![m] = k]
  BY DEF StartJob
<1>2. JobShaped(k) /\ k.pc = "characterize" /\ k.cands = <<>> /\ k.stored = 0
  BY IdleFields
<1> HIDE DEF k
<1> QED
  BY <1>1, <1>2, ReplaceMoves

\* A failed attempt, whether the allocation or another stage failed.
LEMMA FailureMoves ==
  ASSUME Shaped, NEW m \in Migrations, AllocationExhausted(m) \/ JobFails(m)
  PROVE  Moved(m) /\ job'[m].pc \in {"queued", "failed"}
<1> DEFINE k == Retry(job[m])
<1>1. job' = [job EXCEPT ![m] = k]
  BY DEF AllocationExhausted, JobFails
<1>2. JobShaped(k) /\ k.pc \in {"queued", "failed"}
  BY RetryFields
<1> HIDE DEF k
<1> QED
  BY <1>1, <1>2, ReplaceMoves

\* A job that ends keeps the number of documents that it stored.
LEMMA EndMoves ==
  ASSUME Shaped, NEW m \in Migrations, EndStore(m)
  PROVE  Moved(m) /\ job'[m].pc = "done" /\ job'[m].stored = job[m].stored
<1> DEFINE i == Idle(job[m].tries, "done")
           k == [i EXCEPT !.stored = job[m].stored]
<1>1. job' = [job EXCEPT ![m] = k]
  BY DEF EndStore
<1>2. JobShaped(i) /\ i.pc = "done"
  BY IdleFields
<1>3. job[m].stored \in Nat
  BY DEF Shaped, JobShaped
<1> HIDE DEF i
<1>4. Total(k, JobFields) /\ k.pc = "done" /\ k.stored = job[m].stored /\ k.cands = i.cands
  BY <1>2 DEF JobShaped, Total, JobFields
<1> HIDE DEF k
<1>5. JobShaped(k)
  BY <1>2, <1>3, <1>4 DEF JobShaped
<1> QED
  BY <1>1, <1>4, <1>5, ReplaceMoves

\* Goto changes nothing of a job but its place.
LEMMA GotoMoves ==
  ASSUME Shaped, NEW m \in Migrations, NEW p, Goto(m, p)
  PROVE  Moved(m) /\ job'[m].pc = p /\ job'[m].stored = job[m].stored
<1> DEFINE k == [job[m] EXCEPT !.pc = p]
<1>1. job' = [job EXCEPT ![m] = k]
  BY DEF Goto
<1>2. JobShaped(job[m])
  BY DEF Shaped
<1>3. Total(k, JobFields) /\ k.pc = p /\ k.stored = job[m].stored /\ k.cands = job[m].cands
  BY <1>2 DEF JobShaped, Total, JobFields
<1> HIDE DEF k
<1>4. JobShaped(k)
  BY <1>2, <1>3 DEF JobShaped
<1> QED
  BY <1>1, <1>3, <1>4, ReplaceMoves

\* The contracts are derived and the candidates stay.
LEMMA DeriveMoves ==
  ASSUME Shaped, NEW m \in Migrations, DeriveContracts(m)
  PROVE  /\ Moved(m)
         /\ job'[m].pc = "write" /\ job'[m].stored = job[m].stored
         /\ job'[m].cands = job[m].cands
<1>1. PICK order \in PhpOrders(source[m]), lost \in {{}, {1}} :
        job' = [job EXCEPT ![m].pc = "write",
                           ![m].contracts = DerivedContracts(source[m], order, lost)]
  BY DEF DeriveContracts
<1> DEFINE d == DerivedContracts(source[m], order, lost)
           k == [job[m] EXCEPT !.pc = "write", !.contracts = d]
<1> HIDE DEF d
<1>2. JobShaped(job[m]) /\ Total(job, Migrations)
  BY DEF Shaped
<1>3. job' = [job EXCEPT ![m] = k]
  BY <1>1, <1>2 DEF d, Total
<1>4. /\ Total(k, JobFields) /\ k.pc = "write" /\ k.stored = job[m].stored
      /\ k.cands = job[m].cands
  BY <1>2 DEF JobShaped, Total, JobFields
<1> HIDE DEF k
<1>5. JobShaped(k)
  BY <1>2, <1>4 DEF JobShaped
<1> QED
  BY <1>3, <1>4, <1>5, ReplaceMoves

\* One more candidate, with the prefix that its name has just claimed.
LEMMA CharacterizeMoves ==
  ASSUME Shaped, NEW m \in Migrations, CharacterizeCluster(m)
  PROVE  \E e : \E k \in Ranks :
           /\ Claim(e.name, k)
           /\ Total(e, CandidateFields) /\ e.prefix = Candidate(e.name, k)
           /\ Moved(m)
           /\ job'[m].cands = Append(job[m].cands, e)
           /\ job'[m].pc = job[m].pc /\ job'[m].stored = job[m].stored
<1> DEFINE n == Len(job[m].cands) + 1
           name == NameOf(source[m], n)
<1>1. PICK r \in Ranks :
        /\ Claim(name, r)
        /\ job' = [job EXCEPT ![m].cands =
                     Append(@, characterize(source[m], n, Candidate(name, r)))]
  BY DEF CharacterizeCluster
<1> DEFINE e == characterize(source[m], n, Candidate(name, r))
           cands == Append(job[m].cands, e)
           k == [job[m] EXCEPT !.cands = cands]
<1>2. Total(e, CandidateFields) /\ e.name = name /\ e.prefix = Candidate(name, r)
  BY CharacterizedFields
<1>3. job' = [job EXCEPT ![m] = k]
  BY <1>1
<1> HIDE DEF e, name
<1>4. JobShaped(job[m])
  BY DEF Shaped
<1>5. IsCandidates(cands)
  <2>1. /\ IsSequence(cands) /\ Len(job[m].cands) \in Nat
        /\ Len(cands) = Len(job[m].cands) + 1
        /\ \A i \in 1..Len(cands) :
             cands[i] = IF i <= Len(job[m].cands) THEN job[m].cands[i] ELSE e
    BY <1>4, AppendedSequence DEF JobShaped, IsCandidates
  <2> HIDE DEF cands
  <2> QED
    BY <2>1, <1>2, <1>4 DEF JobShaped, IsCandidates
<1> HIDE DEF cands
<1>6. /\ Total(k, JobFields) /\ k.pc = job[m].pc /\ k.stored = job[m].stored
      /\ k.cands = cands
  BY <1>4 DEF JobShaped, Total, JobFields
<1> HIDE DEF k
<1>7. JobShaped(k)
  BY <1>4, <1>5, <1>6 DEF JobShaped
<1>8. Moved(m) /\ job'[m] = k
  BY <1>3, <1>7, ReplaceMoves
<1>9. /\ Claim(e.name, r)
      /\ Total(e, CandidateFields) /\ e.prefix = Candidate(e.name, r)
      /\ Moved(m)
      /\ job'[m].cands = Append(job[m].cands, e)
      /\ job'[m].pc = job[m].pc /\ job'[m].stored = job[m].stored
  BY <1>1, <1>2, <1>6, <1>8 DEF cands
<1> QED
  BY <1>9, Zenon

\* The plan is written with the dependencies that the foreign keys add.
LEMMA WriteMoves ==
  ASSUME Shaped, NEW m \in Migrations, WritePlan(m)
  PROVE  /\ Moved(m)
         /\ job'[m].pc = "store" /\ job'[m].stored = job[m].stored
         /\ job'[m].cands = Augmented(job[m]) /\ job'[m].contracts = job[m].contracts
         /\ plan' = [plan EXCEPT ![m] = Written(
              assemblePlan(Augmented(job[m]), analyzeDataOwnership(job[m].contracts)))]
<1> DEFINE a == Augmented(job[m])
           k == [job[m] EXCEPT !.pc = "store", !.cands = a]
<1>1. JobShaped(job[m]) /\ Total(job, Migrations)
  BY DEF Shaped
<1>2. IsCandidates(a)
  BY <1>1, AugmentKeeps DEF Augmented, JobShaped
<1>3. job' = [job EXCEPT ![m] = k]
  BY <1>1 DEF WritePlan, Total
<1>4. plan' = [plan EXCEPT ![m] = Written(
              assemblePlan(Augmented(job[m]), analyzeDataOwnership(job[m].contracts)))]
  BY DEF WritePlan
<1> HIDE DEF a
<1>5. /\ Total(k, JobFields) /\ k.pc = "store" /\ k.stored = job[m].stored
      /\ k.cands = a /\ k.contracts = job[m].contracts
  BY <1>1 DEF JobShaped, Total, JobFields
<1> HIDE DEF k
<1>6. JobShaped(k)
  BY <1>1, <1>2, <1>5 DEF JobShaped
<1> QED
  BY <1>3, <1>4, <1>5, <1>6, ReplaceMoves DEF a

\* One more document is stored: the service that the plan has next.
LEMMA StoreMoves ==
  ASSUME Shaped, NEW m \in Migrations, StoreArtifact(m)
  PROVE  LET svcs == assemblePlan(job[m].cands, analyzeDataOwnership(job[m].contracts))
             svc  == svcs[job[m].stored + 1]
         IN /\ Moved(m)
            /\ job[m].pc = "store" /\ job'[m].pc = "store"
            /\ job'[m].stored = job[m].stored + 1
            /\ job'[m].cands = job[m].cands /\ job'[m].contracts = job[m].contracts
            /\ \E doc : /\ doc.spec.service = svc
                        /\ artifact' = [artifact EXCEPT ![m] =
                             UpsertArtifact(artifact[m], svc.name, doc)]
<1> DEFINE svcs == assemblePlan(job[m].cands, analyzeDataOwnership(job[m].contracts))
           svc == svcs[job[m].stored + 1]
           doc == buildArtifact(svc, job[m].cands, job[m].contracts)
           k == [job[m] EXCEPT !.stored = job[m].stored + 1]
<1>1. JobShaped(job[m])
  BY DEF Shaped
<1>2. /\ job[m].pc = "store" /\ job' = [job EXCEPT ![m] = k]
      /\ artifact' = [artifact EXCEPT ![m] = UpsertArtifact(artifact[m], svc.name, doc)]
  BY DEF StoreArtifact
<1> HIDE DEF svcs
<1>3. doc.spec.service = svc
  BY DEF buildArtifact, BuildBoundarySpecYAML
<1> HIDE DEF svc, doc
<1>4. /\ Total(k, JobFields) /\ k.pc = job[m].pc /\ k.stored = job[m].stored + 1
      /\ k.cands = job[m].cands /\ k.contracts = job[m].contracts
  BY <1>1 DEF JobShaped, Total, JobFields
<1> HIDE DEF k
<1>5. JobShaped(k)
  BY <1>1, <1>4 DEF JobShaped
<1>6. Moved(m) /\ job'[m] = k
  BY <1>2, <1>5, ReplaceMoves
<1> QED
  BY <1>2, <1>3, <1>4, <1>6 DEF svc, svcs

\* A crash puts every running job back and leaves the others alone.
LEMMA CrashMoves ==
  ASSUME Shaped, CrashWorker
  PROVE  /\ Total(job', Migrations)
         /\ \A m \in Migrations : JobShaped(job'[m])
         /\ \A m \in Migrations : job'[m].pc \notin Running
         /\ \A m \in Migrations : job'[m].pc = "done" => job'[m] = job[m]
<1>1. job' = [m \in Migrations |-> IF job[m].pc \in Running THEN Retry(job[m]) ELSE job[m]]
  BY DEF CrashWorker
<1>2. Total(job', Migrations)
  BY <1>1 DEF Total
<1>3. ASSUME NEW m \in Migrations
      PROVE  /\ JobShaped(job'[m]) /\ job'[m].pc \notin Running
             /\ job'[m].pc = "done" => job'[m] = job[m]
  <2>1. CASE job[m].pc \in Running
    <3>1. job'[m] = Retry(job[m])
      BY <1>1, <2>1
    <3>2. JobShaped(Retry(job[m])) /\ Retry(job[m]).pc \in {"queued", "failed"}
      BY RetryFields
    <3> QED
      BY <3>1, <3>2 DEF Running
  <2>2. CASE job[m].pc \notin Running
    <3>1. job'[m] = job[m]
      BY <1>1, <2>2
    <3> QED
      BY <3>1, <2>2 DEF Shaped
  <2> QED
    BY <2>1, <2>2
<1> QED
  BY <1>2, <1>3

\* One step of the job of m.
JobStep(m) ==
  \/ StartJob(m) \/ CharacterizeCluster(m) \/ AllocationExhausted(m)
  \/ WriteNoBoundaries(m) \/ DeriveContracts(m) \/ WritePlan(m)
  \/ StoreArtifact(m) \/ EndStore(m) \/ JobFails(m)

\* A step of a job moves that job and touches no other plan or artifact.
LEMMA JobStepMoves ==
  ASSUME Shaped, NEW m \in Migrations, JobStep(m)
  PROVE  /\ Moved(m)
         /\ plan' = [plan EXCEPT ![m] = plan'[m]]
         /\ artifact' = [artifact EXCEPT ![m] = artifact'[m]]
<1>1. Moved(m)
  <2>1. CASE CharacterizeCluster(m)
    BY <2>1, CharacterizeMoves
  <2>2. CASE WriteNoBoundaries(m)
    BY <2>2, GotoMoves DEF WriteNoBoundaries
  <2> QED
    BY <2>1, <2>2, StartMoves, FailureMoves, EndMoves, DeriveMoves, WriteMoves, StoreMoves
       DEF JobStep
<1>2. plan' = plan \/ \E p : plan' = [plan EXCEPT ![m] = p]
  BY DEF JobStep, StartJob, CharacterizeCluster, AllocationExhausted, WriteNoBoundaries,
         DeriveContracts, WritePlan, StoreArtifact, EndStore, JobFails
<1>3. artifact' = artifact \/ \E a : artifact' = [artifact EXCEPT ![m] = a]
  BY DEF JobStep, StartJob, CharacterizeCluster, AllocationExhausted, WriteNoBoundaries,
         DeriveContracts, WritePlan, StoreArtifact, EndStore, JobFails
<1>4. Total(plan, Migrations) /\ Total(artifact, Migrations)
  BY DEF Shaped
<1>5. plan' = [plan EXCEPT ![m] = plan'[m]]
  BY <1>2, <1>4 DEF Total
<1>6. artifact' = [artifact EXCEPT ![m] = artifact'[m]]
  BY <1>3, <1>4 DEF Total
<1> QED
  BY <1>1, <1>5, <1>6

\* Every state is well shaped.
LEMMA InitShaped == PlanInit => Shaped
<1> SUFFICES ASSUME PlanInit PROVE Shaped
  OBVIOUS
<1>1. job = [m \in Migrations |-> Idle(0, "queued")]
  BY DEF PlanInit
<1>2. \A m \in Migrations : JobShaped(job[m])
  BY <1>1, IdleFields
<1>3. Total(job, Migrations)
  BY <1>1 DEF Total
<1>4. Total(plan, Migrations) /\ Total(artifact, Migrations)
  BY DEF PlanInit, Total
<1> QED
  BY <1>2, <1>3, <1>4 DEF Shaped

\* No step takes the shape away.
LEMMA NextShaped ==
  ASSUME Shaped, [PlanNext]_planVars
  PROVE  Shaped'
<1>1. CASE UNCHANGED planVars
  BY <1>1 DEF planVars, Shaped, Total, JobShaped
<1>2. CASE CrashWorker
  <2>1. plan' = plan /\ artifact' = artifact
    BY <1>2 DEF CrashWorker
  <2>2. Total(job', Migrations) /\ \A m \in Migrations : JobShaped(job'[m])
    BY <1>2, CrashMoves
  <2> QED
    BY <2>1, <2>2 DEF Shaped
<1>3. ASSUME NEW m \in Migrations, JobStep(m)
      PROVE  Shaped'
  <2>1. /\ job' = [job EXCEPT ![m] = job'[m]] /\ JobShaped(job'[m])
        /\ plan' = [plan EXCEPT ![m] = plan'[m]]
        /\ artifact' = [artifact EXCEPT ![m] = artifact'[m]]
    BY <1>3, JobStepMoves DEF Moved
  <2>2. Total(job, Migrations) /\ Total(plan, Migrations) /\ Total(artifact, Migrations)
    BY DEF Shaped
  <2>3. Total(job', Migrations)
    BY <2>1, <2>2 DEF Total
  <2>4. Total(plan', Migrations)
    BY <2>1, <2>2 DEF Total
  <2>5. Total(artifact', Migrations)
    BY <2>1, <2>2 DEF Total
  <2>6. ASSUME NEW x \in Migrations PROVE JobShaped(job'[x])
    <3>1. CASE x = m
      BY <3>1, <2>1
    <3>2. CASE x # m
      <4>1. job'[x] = job[x]
        BY <3>2, <2>1, <2>2 DEF Total
      <4> QED
        BY <4>1 DEF Shaped
    <3> QED
      BY <3>1, <3>2
  <2> QED
    BY <2>3, <2>4, <2>5, <2>6 DEF Shaped
<1> QED
  BY <1>1, <1>2, <1>3 DEF PlanNext, JobStep

-----------------------------------------------------------------------------
(* The prefixes of a plan. *)

\* Candidates whose prefixes the table holds under their names stay so while
\* the table only gains entries.
LEMMA ClaimsSurvive ==
  ASSUME NEW f, NEW g, NEW s, Claimed(f, s),
         \A p \in DOMAIN f : p \in DOMAIN g /\ g[p] = f[p]
  PROVE  Claimed(g, s)
BY DEF Claimed

\* The candidate that claims joins the claimed ones.
LEMMA ClaimsGrow ==
  ASSUME NEW g, NEW s, NEW e, IsSequence(s), Claimed(g, s),
         e.prefix \in DOMAIN g, g[e.prefix] = e.name
  PROVE  Claimed(g, Append(s, e))
<1> DEFINE a == Append(s, e)
<1>1. /\ Len(s) \in Nat /\ Len(a) = Len(s) + 1
      /\ \A i \in 1..Len(a) : a[i] = IF i <= Len(s) THEN s[i] ELSE e
  BY AppendedSequence
<1> HIDE DEF a
<1>2. ASSUME NEW i \in 1..Len(a)
      PROVE  a[i].prefix \in DOMAIN g /\ g[a[i].prefix] = a[i].name
  <2>1. CASE i <= Len(s)
    <3>1. a[i] = s[i] /\ i \in 1..Len(s)
      BY <1>1, <2>1
    <3> QED
      BY <3>1 DEF Claimed
  <2>2. CASE ~(i <= Len(s))
    <3>1. a[i] = e
      BY <1>1, <2>2
    <3> QED
      BY <3>1
  <2> QED
    BY <2>1, <2>2
<1>3. Claimed(g, a)
  BY <1>2 DEF Claimed
<1> QED
  BY <1>3 DEF a

\* A plan of claimed candidates has distinct prefixes for distinct names: a
\* prefix has one owner in the table.
LEMMA ClaimedPlanIsDistinct ==
  ASSUME NEW f, NEW s, NEW fks, IsCandidates(s), Claimed(f, s)
  PROVE  LET p == assemblePlan(s, fks) IN
         \A i, j \in DOMAIN p : p[i].prefix = p[j].prefix => p[i].name = p[j].name
<1> DEFINE p == assemblePlan(s, fks)
<1>1. /\ DOMAIN p = 1..Len(s)
      /\ \A i \in 1..Len(s) : p[i].name = s[i].name /\ p[i].prefix = s[i].prefix
  BY AssembledServices
<1> HIDE DEF p
<1>2. \A i, j \in DOMAIN p : p[i].prefix = p[j].prefix => p[i].name = p[j].name
  BY <1>1 DEF Claimed
<1> QED
  BY <1>2 DEF p

\* The claims of the running jobs hold after every step: the table only grows
\* while the process lives, and when it dies no job is left running.
LEMMA NextClaims ==
  ASSUME Shaped, ClaimsHold, [PlanNext]_planVars
  PROVE  ClaimsHold'
<1>1. CASE UNCHANGED planVars
  BY <1>1 DEF planVars, ClaimsHold, Claimed
<1>2. CASE CrashWorker
  BY <1>2, CrashMoves DEF ClaimsHold
<1>3. ASSUME NEW m \in Migrations, JobStep(m)
      PROVE  ClaimsHold'
  <2>1. /\ job' = [job EXCEPT ![m] = job'[m]] /\ Total(job, Migrations)
        /\ IsCandidates(job[m].cands) /\ Len(job[m].cands) \in Nat
    BY <1>3, JobStepMoves, SequenceDomain DEF Moved, Shaped, JobShaped, IsCandidates
  <2>2. \A p \in DOMAIN assigned : p \in DOMAIN assigned' /\ assigned'[p] = assigned[p]
    <3>1. CASE CharacterizeCluster(m)
      BY <3>1, ClaimKeepsOwners DEF CharacterizeCluster
    <3>2. CASE ~CharacterizeCluster(m)
      <4>1. assigned' = assigned
        BY <1>3, <3>2 DEF JobStep, StartJob, AllocationExhausted, WriteNoBoundaries,
           DeriveContracts, WritePlan, StoreArtifact, EndStore, JobFails
      <4> QED
        BY <4>1
    <3> QED
      BY <3>1, <3>2
  <2>3. job'[m].pc \in Running => Claimed(assigned', job'[m].cands)
    <3>1. CASE CharacterizeCluster(m)
      <4>1. job[m].pc = "characterize"
        BY <3>1 DEF CharacterizeCluster
      <4>2. PICK e : \E k \in Ranks :
              /\ Claim(e.name, k)
              /\ e.prefix = Candidate(e.name, k)
              /\ job'[m].cands = Append(job[m].cands, e)
        BY <3>1, CharacterizeMoves
      <4>3. e.prefix \in DOMAIN assigned' /\ assigned'[e.prefix] = e.name
        BY <4>2, ClaimKeepsOwners
      <4>4. Claimed(assigned', job[m].cands)
        BY <4>1, <2>2, ClaimsSurvive DEF ClaimsHold, Running
      <4> QED
        BY <4>2, <4>3, <4>4, <2>1, ClaimsGrow DEF IsCandidates
    <3>2. CASE StartJob(m)
      <4>1. job'[m].cands = <<>>
        BY <3>2, StartMoves
      <4> QED
        BY <4>1, EmptyCandidates DEF Claimed
    <3>3. CASE DeriveContracts(m)
      <4>1. job'[m].cands = job[m].cands /\ job[m].pc = "characterize"
        BY <3>3, DeriveMoves DEF DeriveContracts
      <4> QED
        BY <4>1, <2>2, ClaimsSurvive DEF ClaimsHold, Running
    <3>4. CASE StoreArtifact(m)
      <4>1. job'[m].cands = job[m].cands /\ job[m].pc = "store"
        BY <3>4, StoreMoves
      <4> QED
        BY <4>1, <2>2, ClaimsSurvive DEF ClaimsHold, Running
    <3>5. CASE WritePlan(m)
      <4> DEFINE a == Augmented(job[m])
      <4>1. job'[m].cands = a /\ job[m].pc = "write"
        BY <3>5, WriteMoves DEF WritePlan
      <4>2. Claimed(assigned', job[m].cands)
        BY <4>1, <2>2, ClaimsSurvive DEF ClaimsHold, Running
      <4>3. /\ Len(a) = Len(job[m].cands)
            /\ \A i \in 1..Len(job[m].cands) :
                 a[i].name = job[m].cands[i].name /\ a[i].prefix = job[m].cands[i].prefix
        BY <2>1, AugmentKeeps DEF Augmented
      <4> HIDE DEF a
      <4> QED
        BY <4>1, <4>2, <4>3 DEF Claimed
    <3>6. CASE AllocationExhausted(m) \/ JobFails(m) \/ EndStore(m) \/ WriteNoBoundaries(m)
      <4>1. job'[m].pc \notin Running
        BY <3>6, FailureMoves, EndMoves, GotoMoves DEF WriteNoBoundaries, Running
      <4> QED
        BY <4>1
    <3> QED
      BY <1>3, <3>1, <3>2, <3>3, <3>4, <3>5, <3>6 DEF JobStep
  <2>4. ASSUME NEW x \in Migrations, x # m, job'[x].pc \in Running
        PROVE  Claimed(assigned', job'[x].cands)
    <3>1. job'[x] = job[x]
      BY <2>1, <2>4 DEF Total
    <3> QED
      BY <3>1, <2>2, <2>4, ClaimsSurvive DEF ClaimsHold
  <2> QED
    BY <2>3, <2>4 DEF ClaimsHold
<1> QED
  BY <1>1, <1>2, <1>3 DEF PlanNext, JobStep

\* A plan that is written is one of claimed candidates.
LEMMA NextPrefixes ==
  ASSUME PrefixInv, [PlanNext]_planVars
  PROVE  PlanPrefixesAreDistinct'
<1> USE DEF PrefixInv
<1>1. CASE plan' = plan
  BY <1>1 DEF PlanPrefixesAreDistinct
<1>2. ASSUME NEW m \in Migrations, NEW p,
             plan' = [plan EXCEPT ![m] = Written(p)],
             \A i, j \in DOMAIN p : p[i].prefix = p[j].prefix => p[i].name = p[j].name
      PROVE  PlanPrefixesAreDistinct'
  <2>1. Total(plan, Migrations)
    BY DEF Shaped
  <2>2. plan'[m].services = p
    BY <1>2, <2>1 DEF Total, Written
  <2>3. \A x \in Migrations : x # m => plan'[x] = plan[x]
    BY <1>2, <2>1 DEF Total
  <2> QED
    BY <1>2, <2>2, <2>3 DEF PlanPrefixesAreDistinct
<1>3. ASSUME NEW m \in Migrations, WriteNoBoundaries(m)
      PROVE  PlanPrefixesAreDistinct'
  <2>1. plan' = [plan EXCEPT ![m] = Written(<<>>)]
    BY <1>3 DEF WriteNoBoundaries
  <2>2. DOMAIN <<>> = {}
    OBVIOUS
  <2> QED
    BY <1>2, <2>1, <2>2
<1>4. ASSUME NEW m \in Migrations, WritePlan(m)
      PROVE  PlanPrefixesAreDistinct'
  <2> DEFINE a == Augmented(job[m])
             fks == analyzeDataOwnership(job[m].contracts)
             p == assemblePlan(a, fks)
  <2>1. plan' = [plan EXCEPT ![m] = Written(p)]
    BY <1>4, WriteMoves
  <2>2. job'[m].cands = a /\ job'[m].pc = "store"
    BY <1>4, WriteMoves
  <2>3. Claimed(assigned', a)
    BY <2>2, NextClaims DEF ClaimsHold, Running
  <2>4. IsCandidates(a)
    BY AugmentKeeps DEF Augmented, Shaped, JobShaped
  <2> HIDE DEF a, fks
  <2>5. \A i, j \in DOMAIN p : p[i].prefix = p[j].prefix => p[i].name = p[j].name
    BY <2>3, <2>4, ClaimedPlanIsDistinct
  <2> HIDE DEF p
  <2> QED
    BY <1>2, <2>1, <2>5
<1>5. \/ plan' = plan
      \/ \E m \in Migrations : WriteNoBoundaries(m) \/ WritePlan(m)
  BY DEF PlanNext, planVars, CrashWorker, StartJob, CharacterizeCluster, AllocationExhausted,
         DeriveContracts, StoreArtifact, EndStore, JobFails
<1> QED
  BY <1>1, <1>3, <1>4, <1>5

\* Two services of one plan that have different names have different error
\* prefixes, in every state of the worker: Allocate gives a prefix to one name
\* only for as long as the process lives, and a plan is never put together from
\* the candidates of two processes.
THEOREM PrefixesAreDistinct == PlanSpec => []PlanPrefixesAreDistinct
<1>1. PlanInit => PrefixInv
  <2>1. ASSUME PlanInit PROVE ClaimsHold /\ PlanPrefixesAreDistinct
    <3>1. \A m \in Migrations : job[m].pc = "queued"
      BY <2>1, IdleFields DEF PlanInit
    <3>2. \A m \in Migrations : plan[m].services = <<>>
      BY <2>1 DEF PlanInit, NoPlan
    <3> QED
      BY <3>1, <3>2 DEF ClaimsHold, Running, PlanPrefixesAreDistinct
  <2> QED
    BY <2>1, InitShaped DEF PrefixInv
<1>2. PrefixInv /\ [PlanNext]_planVars => PrefixInv'
  BY NextShaped, NextClaims, NextPrefixes DEF PrefixInv
<1>3. PrefixInv => PlanPrefixesAreDistinct
  BY DEF PrefixInv
<1> QED
  BY <1>1, <1>2, <1>3, PTL DEF PlanSpec

-----------------------------------------------------------------------------
(* The artifacts of a plan. *)

\* A document that is stored keeps what was carried before it, and carries its
\* own service: the last document of a name replaces the earlier ones.
LEMMA UpsertCarries ==
  ASSUME NEW docs, NEW services, NEW n \in DOMAIN services, NEW doc,
         doc.spec.service = services[n]
  PROVE  LET new == UpsertArtifact(docs, services[n].name, doc) IN
         /\ Carried(new, services, n)
         /\ \A i : Carried(docs, services, i) => Carried(new, services, i)
<1> DEFINE name == services[n].name
           new == UpsertArtifact(docs, name, doc)
<1>1. /\ name \in DOMAIN new /\ new[name] = doc
      /\ \A x \in DOMAIN docs : x \in DOMAIN new /\ (x # name => new[x] = docs[x])
  BY DEF UpsertArtifact
<1>2. services[n] \in ToSet(services)
  BY DEF ToSet
<1> HIDE DEF new
<1>3. Carried(new, services, n)
  BY <1>1, <1>2 DEF Carried
<1>4. ASSUME NEW i, Carried(docs, services, i)
      PROVE  Carried(new, services, i)
  <2>1. CASE services[i].name = name
    BY <2>1, <1>1, <1>2 DEF Carried
  <2>2. CASE services[i].name # name
    <3>1. PICK t \in ToSet(services) :
            /\ t.name = services[i].name /\ services[i].name \in DOMAIN docs
            /\ docs[services[i].name].spec.service = t
      BY <1>4 DEF Carried
    <3>2. services[i].name \in DOMAIN new /\ new[services[i].name] = docs[services[i].name]
      BY <1>1, <2>2, <3>1
    <3> QED
      BY <3>1, <3>2 DEF Carried
  <2> QED
    BY <2>1, <2>2
<1> QED
  BY <1>3, <1>4 DEF new

\* Every step of a job keeps the plan, the count and the documents together.
LEMMA JobStepStores ==
  ASSUME ArtifactsInv, NEW m \in Migrations, JobStep(m)
  PROVE  Storing(job'[m], plan'[m].services, artifact'[m]) /\ IsSequence(plan'[m].services)
<1>1. /\ Shaped /\ JobShaped(job[m]) /\ job[m].stored \in Nat
      /\ Storing(job[m], plan[m].services, artifact[m]) /\ IsSequence(plan[m].services)
      /\ Total(plan, Migrations) /\ Total(artifact, Migrations)
  BY DEF ArtifactsInv, Shaped, JobShaped
<1>2. CASE StartJob(m)
  BY <1>1, <1>2, StartMoves DEF StartJob, Storing
<1>3. CASE CharacterizeCluster(m)
  <2>1. job'[m].pc = job[m].pc /\ job'[m].stored = job[m].stored
    BY <1>1, <1>3, CharacterizeMoves
  <2>2. job[m].pc = "characterize" /\ plan' = plan
    BY <1>3 DEF CharacterizeCluster
  <2> QED
    BY <1>1, <2>1, <2>2 DEF Storing
<1>4. CASE AllocationExhausted(m) \/ JobFails(m)
  BY <1>1, <1>4, FailureMoves DEF AllocationExhausted, JobFails, Storing
<1>5. CASE WriteNoBoundaries(m)
  <2>1. plan'[m].services = <<>>
    BY <1>1, <1>5 DEF WriteNoBoundaries, Written, Total
  <2>2. job'[m].pc = "done"
    BY <1>1, <1>5, GotoMoves DEF WriteNoBoundaries
  <2>3. DOMAIN <<>> = {}
    OBVIOUS
  <2> QED
    BY <2>1, <2>2, <2>3, EmptyCandidates DEF Storing, IsCandidates
<1>6. CASE DeriveContracts(m)
  <2>1. job'[m].pc = "write" /\ job'[m].stored = job[m].stored
    BY <1>1, <1>6, DeriveMoves
  <2>2. job[m].pc = "characterize" /\ plan' = plan
    BY <1>6 DEF DeriveContracts
  <2> QED
    BY <1>1, <2>1, <2>2 DEF Storing
<1>7. CASE WritePlan(m)
  <2> DEFINE a == Augmented(job[m])
             fks == analyzeDataOwnership(job[m].contracts)
             p == assemblePlan(a, fks)
  <2>1. /\ job'[m].pc = "store" /\ job'[m].stored = job[m].stored
        /\ job'[m].cands = a /\ job'[m].contracts = job[m].contracts
        /\ plan' = [plan EXCEPT ![m] = Written(p)]
    BY <1>1, <1>7, WriteMoves
  <2>2. job[m].stored = 0
    BY <1>1, <1>7 DEF WritePlan, Storing
  <2>3. IsCandidates(a)
    BY <1>1, AugmentKeeps DEF Augmented, JobShaped
  <2> HIDE DEF a
  <2>4. IsSequence(p)
    BY <2>3, AssembledServices
  <2>5. plan'[m].services = p
    BY <1>1, <2>1 DEF Total, Written
  <2>6. p = assemblePlan(job'[m].cands, analyzeDataOwnership(job'[m].contracts))
    BY <2>1
  <2> HIDE DEF p
  <2> QED
    BY <2>1, <2>2, <2>4, <2>5, <2>6 DEF Storing
<1>8. CASE StoreArtifact(m)
  <2> DEFINE p == assemblePlan(job[m].cands, analyzeDataOwnership(job[m].contracts))
             n == job[m].stored + 1
  <2>1. /\ job[m].pc = "store" /\ job'[m].pc = "store" /\ job'[m].stored = n
        /\ job'[m].cands = job[m].cands /\ job'[m].contracts = job[m].contracts
        /\ \E doc : /\ doc.spec.service = p[n]
                    /\ artifact' = [artifact EXCEPT ![m] =
                         UpsertArtifact(artifact[m], p[n].name, doc)]
    BY <1>1, <1>8, StoreMoves
  <2>2. plan' = plan /\ job[m].stored < Len(p)
    BY <1>8 DEF StoreArtifact
  <2>3. DOMAIN p = 1..Len(p) /\ Len(p) \in Nat
    BY <1>1, AssembledServices DEF JobShaped
  <2>4. p = plan[m].services
    BY <1>1, <2>1 DEF Storing
  <2>5. p = assemblePlan(job'[m].cands, analyzeDataOwnership(job'[m].contracts))
    BY <2>1
  <2> HIDE DEF p
  <2>6. n \in DOMAIN p
    BY <1>1, <2>2, <2>3
  <2>7. PICK doc : /\ doc.spec.service = p[n]
                   /\ artifact' = [artifact EXCEPT ![m] =
                        UpsertArtifact(artifact[m], p[n].name, doc)]
    BY <2>1
  <2>8. artifact'[m] = UpsertArtifact(artifact[m], p[n].name, doc)
    BY <1>1, <2>7 DEF Total
  <2>9. /\ Carried(artifact'[m], p, n)
        /\ \A i : Carried(artifact[m], p, i) => Carried(artifact'[m], p, i)
    BY <2>6, <2>7, <2>8, UpsertCarries
  <2>10. \A i \in 1..n : i \in DOMAIN p => Carried(artifact'[m], p, i)
    <3>1. \A i \in 1..job[m].stored : i \in DOMAIN p => Carried(artifact[m], p, i)
      BY <1>1, <2>1, <2>4 DEF Storing
    <3>2. \A i \in 1..n : i = n \/ i \in 1..job[m].stored
      BY <1>1
    <3> HIDE DEF n
    <3> QED
      BY <2>9, <3>1, <3>2
  <2> QED
    BY <1>1, <2>1, <2>2, <2>4, <2>5, <2>10 DEF Storing
<1>9. CASE EndStore(m)
  <2>1. job'[m].pc = "done" /\ job'[m].stored = job[m].stored
    BY <1>1, <1>9, EndMoves
  <2>2. job[m].pc = "store" /\ plan' = plan /\ artifact' = artifact
    BY <1>9 DEF EndStore
  <2> QED
    BY <1>1, <2>1, <2>2 DEF Storing
<1> QED
  BY <1>2, <1>3, <1>4, <1>5, <1>6, <1>7, <1>8, <1>9 DEF JobStep

\* Every step keeps the plans, the counts and the documents together.
LEMMA NextArtifacts ==
  ASSUME ArtifactsInv, [PlanNext]_planVars
  PROVE  ArtifactsInv'
<1>0. Shaped /\ Shaped'
  BY NextShaped DEF ArtifactsInv
<1>1. CASE UNCHANGED planVars
  <2>1. job' = job /\ plan' = plan /\ artifact' = artifact
    BY <1>1 DEF planVars
  <2> QED
    BY <1>0, <2>1 DEF ArtifactsInv
<1>2. CASE CrashWorker
  <2>1. plan' = plan /\ artifact' = artifact
    BY <1>2 DEF CrashWorker
  <2>2. ASSUME NEW m \in Migrations
        PROVE  Storing(job'[m], plan'[m].services, artifact'[m])
    <3>1. /\ job'[m].pc \notin Running
          /\ job'[m].pc = "done" => job'[m] = job[m]
      BY <1>0, <1>2, CrashMoves
    <3>2. Storing(job[m], plan[m].services, artifact[m])
      BY DEF ArtifactsInv
    <3> QED
      BY <2>1, <3>1, <3>2 DEF Storing, Running
  <2> QED
    BY <1>0, <2>1, <2>2 DEF ArtifactsInv
<1>3. ASSUME NEW m \in Migrations, JobStep(m)
      PROVE  ArtifactsInv'
  <2>1. /\ job' = [job EXCEPT ![m] = job'[m]]
        /\ plan' = [plan EXCEPT ![m] = plan'[m]]
        /\ artifact' = [artifact EXCEPT ![m] = artifact'[m]]
    BY <1>0, <1>3, JobStepMoves DEF Moved
  <2>2. \A x \in Migrations :
          x # m => job'[x] = job[x] /\ plan'[x] = plan[x] /\ artifact'[x] = artifact[x]
    BY <1>0, <2>1 DEF Shaped, Total
  <2>3. Storing(job'[m], plan'[m].services, artifact'[m]) /\ IsSequence(plan'[m].services)
    BY <1>3, JobStepStores
  <2>4. ASSUME NEW x \in Migrations
        PROVE  /\ Storing(job'[x], plan'[x].services, artifact'[x])
               /\ IsSequence(plan'[x].services)
    <3>1. CASE x = m
      BY <3>1, <2>3
    <3>2. CASE x # m
      BY <3>2, <2>2 DEF ArtifactsInv
    <3> QED
      BY <3>1, <3>2
  <2> QED
    BY <1>0, <2>4 DEF ArtifactsInv
<1> QED
  BY <1>1, <1>2, <1>3 DEF PlanNext, JobStep

\* When a job has stored all its artifacts, every service of the plan has an
\* artifact that carries the service as the plan has it, in every state and
\* whatever earlier attempts and restarts left in the store: UpsertArtifacts
\* replaces a document whole, and the pipeline builds the documents from the
\* plan that it wrote.
THEOREM ArtifactsAreOfThePlan == PlanSpec => []ArtifactsMatchPlan
<1>1. PlanInit => ArtifactsInv
  <2>1. ASSUME PlanInit, NEW m \in Migrations
        PROVE  Storing(job[m], plan[m].services, artifact[m]) /\ IsSequence(plan[m].services)
    <3>1. job[m].pc = "queued"
      BY <2>1, IdleFields DEF PlanInit
    <3>2. plan[m].services = <<>>
      BY <2>1 DEF PlanInit, NoPlan
    <3> QED
      BY <3>1, <3>2, EmptyCandidates DEF Storing, IsCandidates
  <2> QED
    BY <2>1, InitShaped DEF ArtifactsInv
<1>2. ArtifactsInv /\ [PlanNext]_planVars => ArtifactsInv'
  BY NextArtifacts
<1>3. ArtifactsInv => ArtifactsMatchPlan
  <2>1. ASSUME ArtifactsInv, NEW m \in Migrations,
               job[m].pc = "done", job[m].stored = Len(plan[m].services),
               NEW s \in ToSet(plan[m].services)
        PROVE  \E t \in ToSet(plan[m].services) :
                 /\ t.name = s.name /\ s.name \in DOMAIN artifact[m]
                 /\ artifact[m][s.name].spec.service = t
    <3>1. DOMAIN plan[m].services = 1..Len(plan[m].services)
      BY <2>1, SequenceDomain DEF ArtifactsInv
    <3>2. PICK i \in DOMAIN plan[m].services : s = plan[m].services[i]
      BY DEF ToSet
    <3>3. Carried(artifact[m], plan[m].services, i)
      BY <2>1, <3>1, <3>2 DEF ArtifactsInv, Storing
    <3> QED
      BY <3>2, <3>3 DEF Carried
  <2> QED
    BY <2>1 DEF ArtifactsMatchPlan
<1> QED
  BY <1>1, <1>2, <1>3, PTL DEF PlanSpec
===============================================================================
