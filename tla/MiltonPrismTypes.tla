-------------------------- MODULE MiltonPrismTypes ---------------------------
(***************************************************************************)
(* Type correctness of MiltonPrism, for every value of its constants.      *)
(***************************************************************************)
EXTENDS MiltonPrism, TLAPS

-----------------------------------------------------------------------------
(* The task queue keeps its type.                                          *)

\* A fresh task is a well-formed job.
LEMMA NewJobType ==
  ASSUME NEW kind \in JobKinds, NEW m \in MigrationRef, NEW s \in SummaryRef,
         NEW filter \in SUBSET Services
  PROVE  NewJob(kind, m, s, filter) \in Job
  BY StoreAssumption DEF NewJob, Job, JobPcs, SummaryRef, CommitRef

\* An empty slot is a well-formed job.
LEMMA NoJobType == NoJob \in Job
  BY NewJobType, StoreAssumption DEF NoJob, JobKinds, MigrationRef, SummaryRef

\* A redelivered task is a well-formed job, as long as a retry is left.
LEMMA RedeliveredType ==
  ASSUME NEW job \in Job, ~isLastAttempt(job)
  PROVE  Redelivered(job) \in Job
<1>1. NewJob(job.kind, job.m, job.s, job.filter) \in Job
  BY NewJobType DEF Job
<1>2. job.retried + 1 \in 0 .. MaxRetry
  BY StoreAssumption DEF Job, isLastAttempt
<1> QED
  BY <1>1, <1>2 DEF Redelivered, Job

\* Moving a job to another step keeps the queue's type.
LEMMA GotoType ==
  ASSUME jobs \in [JobIds -> Job], NEW j \in JobIds, NEW pc \in JobPcs, Goto(j, pc)
  PROVE  jobs' \in [JobIds -> Job]
  BY DEF Goto, Job

\* Replacing the job of a slot keeps the queue's type.
LEMMA ReplaceType ==
  ASSUME jobs \in [JobIds -> Job], NEW j \in JobIds, NEW job \in Job,
         jobs' = [jobs EXCEPT ![j] = job]
  PROVE  jobs' \in [JobIds -> Job]
  OBVIOUS

\* So does a failed attempt, whatever the handler does after the last one.
LEMMA AttemptFailsType ==
  ASSUME jobs \in [JobIds -> Job], NEW j \in JobIds, NEW onLast,
         onLast = "archive" \/ onLast \in JobPcs, AttemptFails(j, onLast)
  PROVE  jobs' \in [JobIds -> Job]
<1> DEFINE next == IF ~isLastAttempt(jobs[j]) THEN Redelivered(jobs[j])
                   ELSE IF onLast = "archive" THEN NoJob
                   ELSE [jobs[j] EXCEPT !.pc = onLast]
<1>1. jobs[j] \in Job
  OBVIOUS
<1>2. CASE ~isLastAttempt(jobs[j])
  <2>1. Redelivered(jobs[j]) \in Job
    BY <1>1, <1>2, RedeliveredType
  <2> QED
    BY <1>2, <2>1 DEF AttemptFails
<1>3. CASE isLastAttempt(jobs[j]) /\ onLast = "archive"
  BY <1>3, NoJobType DEF AttemptFails
<1>4. CASE isLastAttempt(jobs[j]) /\ onLast # "archive"
  <2>1. [jobs[j] EXCEPT !.pc = onLast] \in Job
    BY <1>1, <1>4 DEF Job
  <2> QED
    BY <1>4, <2>1 DEF AttemptFails
<1> QED
  BY <1>2, <1>3, <1>4

\* And an enqueue, whether the task is stored or lost.
LEMMA EnqueuedType ==
  ASSUME NEW js \in [JobIds -> Job], NEW job \in Job, Enqueued(js, job)
  PROVE  jobs' \in [JobIds -> Job]
  BY DEF Enqueued

-----------------------------------------------------------------------------
(* The other updates keep their collection's type.                         *)

\* The states that are assigned are states.
LEMMA StateNames ==
  /\ "PENDING" \in MigrationState /\ "ANALYZING" \in MigrationState
  /\ "DESIGNING" \in MigrationState /\ "AWAITING_APPROVAL" \in MigrationState
  /\ "GENERATING" \in MigrationState /\ "READY" \in MigrationState
  /\ "PUSHED" \in MigrationState /\ "FAILED" \in MigrationState
  /\ "CANCELLED" \in MigrationState /\ "RESTRUCTURING_READY" \in MigrationState
  BY DEF MigrationState

\* The steps that jobs are moved to are steps.
LEMMA PcNames ==
  /\ "ack" \in JobPcs /\ "reuse_migration" \in JobPcs /\ "reuse_link" \in JobPcs
  /\ "reuse_close" \in JobPcs /\ "acquire" \in JobPcs /\ "write_summary" \in JobPcs
  /\ "write_migration" \in JobPcs /\ "enqueue" \in JobPcs /\ "mark_summary" \in JobPcs
  /\ "mark_migration" \in JobPcs /\ "write_plan" \in JobPcs /\ "artifacts" \in JobPcs
  /\ "generate" \in JobPcs /\ "mark_ready" \in JobPcs /\ "mark_failed" \in JobPcs
  BY DEF JobPcs

\* A live migration is one of the migrations, not the proto's zero.
LEMMA LiveIsMigration ==
  ASSUME NEW m \in MigrationRef, Live(m)
  PROVE  m \in Migrations
  BY StoreAssumption DEF Live, MigrationRef, Migrations

\* A created migration is a well-formed document, and so is a free slot for one.
LEMMA NewMigrationType ==
  ASSUME NEW d \in Draft
  PROVE  NewMigration(d) \in MigrationDoc
  BY StateNames DEF NewMigration, MigrationDoc, Draft

\* A slot for a migration that was not created yet.
LEMMA NoMigrationType == NoMigration \in MigrationDoc
<1>1. "none" \in Verdicts /\ "none" \in Roadmaps /\ 0 \in SummaryRef
  BY StoreAssumption DEF Verdicts, Roadmaps, SummaryRef
<1>2. EmptyDraft \in Draft
  BY <1>1 DEF EmptyDraft, Draft
<1>3. NewMigration(EmptyDraft) \in MigrationDoc
  BY <1>2, NewMigrationType
<1> QED
  BY <1>3 DEF NoMigration, MigrationDoc

\* Replacing a migration's document keeps the collection's type.
LEMMA DocType ==
  ASSUME mig \in [Migrations -> MigrationDoc], NEW m \in Migrations, NEW d \in MigrationDoc,
         mig' = [mig EXCEPT ![m] = d]
  PROVE  mig' \in [Migrations -> MigrationDoc]
  OBVIOUS

\* So does a write of the state alone.
LEMMA StateType ==
  ASSUME mig \in [Migrations -> MigrationDoc], NEW m \in MigrationRef,
         NEW st \in MigrationState, mig' = [mig EXCEPT ![m].state = st]
  PROVE  mig' \in [Migrations -> MigrationDoc]
  BY DEF MigrationDoc

\* The analysis worker's advance to DESIGNING.
LEMMA AdvanceType ==
  ASSUME mig \in [Migrations -> MigrationDoc], NEW m \in MigrationRef, NEW s \in SummaryRef,
         NEW b \in BOOLEAN, AdvanceToDesigning(m, s, b)
  PROVE  mig' \in [Migrations -> MigrationDoc]
<1>1. CASE Live(m) /\ mig[m].state = "ANALYZING"
  <2> DEFINE d == [mig[m] EXCEPT !.state = "DESIGNING", !.summary = s, !.reused = @ \/ b]
  <2>1. m \in Migrations
    BY <1>1, LiveIsMigration
  <2>2. mig[m] \in MigrationDoc /\ mig[m].reused \in BOOLEAN
    BY <2>1 DEF MigrationDoc
  <2>3. d \in MigrationDoc
    BY <2>2, StateNames, Zenon DEF MigrationDoc
  <2>4. mig' = [mig EXCEPT ![m] = d]
    BY <1>1, <2>1 DEF AdvanceToDesigning
  <2> QED
    BY <2>1, <2>3, <2>4
<1> QED
  BY <1>1 DEF AdvanceToDesigning

\* The decomposition worker's plan.
LEMMA PlanType ==
  ASSUME mig \in [Migrations -> MigrationDoc], NEW m \in Migrations,
         NEW svcs \in SUBSET Services, StorePlan(m, svcs)
  PROVE  mig' \in [Migrations -> MigrationDoc]
<1> DEFINE d == [mig[m] EXCEPT !.state = "AWAITING_APPROVAL", !.planned = TRUE,
                               !.services = svcs]
<1>1. d \in MigrationDoc
  BY StateNames DEF MigrationDoc
<1>2. mig' = [mig EXCEPT ![m] = d]
  BY DEF StorePlan
<1> QED
  BY <1>1, <1>2

\* Closing a summary that is RUNNING.
LEMMA CloseType ==
  ASSUME sums \in [SummaryIds -> SummaryDoc], NEW s \in SummaryRef, MarkAnalysisFailed(s)
  PROVE  sums' \in [SummaryIds -> SummaryDoc]
<1>1. "FAILED" \in SummaryState
  BY DEF SummaryState
<1> QED
  BY <1>1 DEF MarkAnalysisFailed, SummaryDoc

-----------------------------------------------------------------------------
(* Type correctness.                                                       *)

\* A push is always for a migration: what TypeOK lacks to be inductive.
PushTarget == \A c \in Callers : calls[c].pc = "push" => calls[c].m # 0

TypeInv == TypeOK /\ PushTarget

USE DEF TypeInv, TypeOK, StoreTypeOK, ServiceTypeOK

\* The initial state is typed.
LEMMA InitType == Init => TypeInv
<1> SUFFICES ASSUME Init PROVE TypeInv
  OBVIOUS
<1>1. jobs \in [JobIds -> Job]
  BY NoJobType DEF Init, StoreInit
<1>2. mig \in [Migrations -> MigrationDoc]
  BY NoMigrationType DEF Init, StoreInit
<1>3. sums \in [SummaryIds -> SummaryDoc]
  BY StoreAssumption DEF Init, StoreInit, NoSummary, SummaryDoc, SummaryState,
       MigrationRef, CommitRef
<1>4. ServiceTypeOK /\ PushTarget
  BY StoreAssumption DEF Init, ServiceInit, Idle, Call, CallPcs, MigrationRef, SummaryRef,
       Verdicts, PushTarget
<1>5. head \in Commits /\ remote \in SUBSET Migrations
  BY StoreAssumption DEF Init, StoreInit, Commits
<1>6. /\ design \in [Migrations -> [Services -> DesignStatus]]
      /\ recs \in [Migrations -> [Services -> RecordStatus]]
      /\ files \in [Migrations -> SUBSET (Services \cup {Aggregator})]
  BY DEF Init, StoreInit, DesignStatus, RecordStatus
<1> QED
  BY <1>1, <1>2, <1>3, <1>4, <1>5, <1>6

\* The steps of the analysis worker keep the type.
LEMMA AnalysisStepType ==
  ASSUME TypeInv, NEW j \in JobIds, AnalysisStep(j), UNCHANGED serviceVars
  PROVE  TypeInv'
<1> USE DEF Running, OnlyJobs, JobsAndMig, JobsAndSums, serviceVars, PushTarget
<1>0. /\ jobs[j] \in Job
      /\ jobs[j].m \in MigrationRef /\ jobs[j].s \in SummaryRef
      /\ jobs[j].ref \in SummaryRef /\ jobs[j].sha \in CommitRef
  BY DEF Job
<1>1. CASE \E s \in SummaryIds : DedupHit(j, s)
  <2>1. PICK s \in SummaryIds : DedupHit(j, s)
    BY <1>1
  <2>2. s \in SummaryRef
    BY DEF SummaryIds, SummaryRef
  <2>3. [jobs[j] EXCEPT !.pc = "reuse_migration", !.ref = s] \in Job
    BY <1>0, <2>2, PcNames DEF Job
  <2>4. jobs' = [jobs EXCEPT ![j] = [jobs[j] EXCEPT !.pc = "reuse_migration", !.ref = s]]
    BY <2>1 DEF DedupHit
  <2> QED
    BY <2>1, <2>3, <2>4, ReplaceType DEF DedupHit
<1>2. CASE DedupMiss(j)
  BY <1>2, GotoType, PcNames DEF DedupMiss
<1>3. CASE ReuseMigration(j)
  BY <1>0, <1>3, AdvanceType, GotoType, PcNames DEF ReuseMigration
<1>4. CASE ReuseLink(j)
  <2>1. sums' \in [SummaryIds -> SummaryDoc]
    BY <1>0, <1>4 DEF ReuseLink, SummaryDoc
  <2> QED
    BY <1>4, <2>1, GotoType, PcNames DEF ReuseLink
<1>5. CASE ReuseClose(j)
  BY <1>0, <1>5, CloseType, GotoType, PcNames DEF ReuseClose
<1>6. CASE AcquireAndAnalyze(j)
  <2>0. PICK sha \in ResolvedHead :
          jobs' = [jobs EXCEPT ![j].pc = "write_summary", ![j].sha = sha, ![j].ref = jobs[j].s]
    BY <1>6 DEF AcquireAndAnalyze
  <2> DEFINE job == [jobs[j] EXCEPT !.pc = "write_summary", !.sha = sha, !.ref = jobs[j].s]
  <2>1. sha \in CommitRef
    BY <2>0, StoreAssumption DEF ResolvedHead, Commits, CommitRef
  <2>2. job \in Job
    BY <1>0, <2>1, PcNames DEF Job
  <2>3. jobs' = [jobs EXCEPT ![j] = job]
    BY <2>0
  <2> QED
    BY <1>6, <2>2, <2>3, ReplaceType DEF AcquireAndAnalyze
<1>7. CASE WriteSummary(j)
  <2> DEFINE s == jobs[j].s
             done == [sums[s] EXCEPT !.state = "COMPLETED", !.sha = jobs[j].sha]
  <2>1. sums' \in [SummaryIds -> SummaryDoc]
    <3>1. "COMPLETED" \in SummaryState
      BY DEF SummaryState
    <3>2. CASE s \in SummaryIds /\ sums[s].state = "RUNNING"
      <4>1. done \in SummaryDoc
        BY <1>0, <3>1, <3>2 DEF SummaryDoc
      <4>2. sums' = [sums EXCEPT ![s] = done]
        BY <1>7, <3>2 DEF WriteSummary
      <4> QED
        BY <3>2, <4>1, <4>2
    <3>3. CASE ~(s \in SummaryIds /\ sums[s].state = "RUNNING")
      <4>1. sums' = sums
        BY <1>7, <3>3 DEF WriteSummary
      <4> QED
        BY <4>1
    <3> QED
      BY <3>2, <3>3
  <2>2. jobs' \in [JobIds -> Job]
    BY <1>7, GotoType, PcNames DEF WriteSummary
  <2> QED
    BY <1>7, <2>1, <2>2 DEF WriteSummary
<1>8. CASE WriteMigration(j)
  BY <1>0, <1>8, AdvanceType, GotoType, PcNames DEF WriteMigration
<1>9. CASE EnqueueDecompose(j)
  <2>0. [jobs[j] EXCEPT !.pc = "ack"] \in Job
    BY <1>0, PcNames DEF Job
  <2>1. [jobs EXCEPT ![j].pc = "ack"] \in [JobIds -> Job]
    BY <2>0
  <2>2. NewJob("decompose", jobs[j].m, jobs[j].ref, {}) \in Job
    BY <1>0, NewJobType DEF JobKinds
  <2>3. jobs' \in [JobIds -> Job]
    BY <1>9, <2>1, <2>2, EnqueuedType DEF EnqueueDecompose
  <2> QED
    BY <1>9, <2>3 DEF EnqueueDecompose
<1>10. CASE AnalysisFails(j)
  BY <1>10, AttemptFailsType, PcNames DEF AnalysisFails
<1>11. CASE MarkSummaryFailed(j)
  <2>1. sums' \in [SummaryIds -> SummaryDoc]
    BY <1>0, <1>11, CloseType DEF MarkSummaryFailed
  <2>2. [jobs[j] EXCEPT !.pc = "mark_migration"] \in Job
    BY <1>0, PcNames DEF Job
  <2>3. jobs' \in [JobIds -> Job]
    BY <1>11, <2>2, NoJobType DEF MarkSummaryFailed
  <2> QED
    BY <1>11, <2>1, <2>3 DEF MarkSummaryFailed
<1>12. CASE MarkMigrationFailed(j)
  <2>1. mig' \in [Migrations -> MigrationDoc]
    BY <1>0, <1>12, StateType, StateNames DEF MarkMigrationFailed
  <2> QED
    BY <1>12, <2>1, NoJobType DEF MarkMigrationFailed
<1> QED
  BY <1>1, <1>2, <1>3, <1>4, <1>5, <1>6, <1>7, <1>8, <1>9, <1>10, <1>11, <1>12
     DEF AnalysisStep

\* The steps of the decomposition worker keep the type.
LEMMA DecompositionStepType ==
  ASSUME TypeInv, NEW j \in JobIds, DecompositionStep(j), UNCHANGED serviceVars
  PROVE  TypeInv'
<1> USE DEF Running, OnlyJobs, JobsAndMig, serviceVars, PushTarget
<1>0. /\ jobs[j] \in Job /\ jobs[j].m \in MigrationRef
      /\ jobs[j].svcs \in SUBSET Services /\ jobs[j].todo \in SUBSET Services
  BY DEF Job
<1>1. CASE \E svcs, full \in SUBSET Services : Decompose(j, svcs, full)
  <2>1. PICK svcs \in SUBSET Services, full \in SUBSET Services : Decompose(j, svcs, full)
    BY <1>1
  <2> DEFINE job == [jobs[j] EXCEPT !.pc = "write_plan", !.svcs = svcs, !.full = full,
                                    !.todo = svcs]
  <2>2. job \in Job
    BY <1>0, PcNames DEF Job
  <2>3. jobs' = [jobs EXCEPT ![j] = job]
    BY <2>1 DEF Decompose
  <2> QED
    BY <2>1, <2>2, <2>3, ReplaceType DEF Decompose
<1>2. CASE WritePlan(j)
  <2>1. mig' \in [Migrations -> MigrationDoc]
    BY <1>0, <1>2, LiveIsMigration, PlanType DEF WritePlan
  <2>2. jobs' \in [JobIds -> Job]
    BY <1>2, GotoType, PcNames DEF WritePlan
  <2> QED
    BY <1>2, <2>1, <2>2 DEF WritePlan
<1>3. CASE \E x \in Services : UpsertArtifact(j, x)
  <2>1. PICK x \in Services : UpsertArtifact(j, x)
    BY <1>3
  <2>2. [jobs[j] EXCEPT !.todo = @ \ {x}] \in Job
    BY <1>0 DEF Job
  <2>3. jobs' \in [JobIds -> Job]
    BY <2>1, <2>2 DEF UpsertArtifact
  <2>4. design' \in [Migrations -> [Services -> DesignStatus]]
    BY <2>1 DEF UpsertArtifact, DesignStatus
  <2> QED
    BY <2>1, <2>3, <2>4 DEF UpsertArtifact
<1>4. CASE ArtifactsEnd(j)
  BY <1>4, GotoType, PcNames DEF ArtifactsEnd
<1>5. CASE DecompositionFails(j)
  BY <1>5, AttemptFailsType, PcNames DEF DecompositionFails
<1>6. CASE MarkDesignFailed(j)
  <2>1. mig' \in [Migrations -> MigrationDoc]
    BY <1>0, <1>6, StateType, StateNames DEF MarkDesignFailed
  <2> QED
    BY <1>6, <2>1, NoJobType DEF MarkDesignFailed
<1> QED
  BY <1>1, <1>2, <1>3, <1>4, <1>5, <1>6 DEF DecompositionStep

\* A generation record keeps the type of its collection.
LEMMA RecordType ==
  ASSUME recs \in [Migrations -> [Services -> RecordStatus]],
         NEW m \in MigrationRef, NEW x \in Services, NEW status \in RecordStatus,
         UpsertRecord(m, x, status)
  PROVE  recs' \in [Migrations -> [Services -> RecordStatus]]
  BY DEF UpsertRecord

\* The steps of the generation worker keep the type.
LEMMA GenerationStepType ==
  ASSUME TypeInv, NEW j \in JobIds, GenerationStep(j), UNCHANGED serviceVars
  PROVE  TypeInv'
<1> USE DEF Running, OnlyJobs, JobsAndMig, serviceVars, PushTarget
<1>0. /\ jobs[j] \in Job /\ jobs[j].m \in MigrationRef
      /\ jobs[j].todo \in SUBSET Services /\ jobs[j].busy \in SUBSET Services
      /\ jobs[j].saving \in SUBSET Services
  BY DEF Job
<1>a. "generating" \in RecordStatus /\ "done" \in RecordStatus /\ "failed" \in RecordStatus
  BY DEF RecordStatus
<1>1. CASE ReadPackage(j)
  <2> DEFINE m == jobs[j].m
             full == {x \in Services : design[m][x] = "complete"}
             todo == NotDone(m, Selected(Packaged(m), jobs[j].filter))
             job == [jobs[j] EXCEPT !.pc = "generate", !.full = full, !.todo = todo]
  <2>1. full \in SUBSET Services
    OBVIOUS
  <2>2. todo \in SUBSET Services
    BY DEF NotDone, Selected, Packaged
  <2>3. job \in Job
    <3> HIDE DEF full, todo
    <3> QED
      BY <1>0, <2>1, <2>2, PcNames DEF Job
  <2>4. jobs' = [jobs EXCEPT ![j] = job]
    BY <1>1 DEF ReadPackage
  <2> QED
    BY <1>1, <2>3, <2>4, ReplaceType DEF ReadPackage
<1>2. CASE \E x \in Services : SkipIncomplete(j, x)
  <2>1. PICK x \in Services : SkipIncomplete(j, x)
    BY <1>2
  <2>2. [jobs[j] EXCEPT !.todo = @ \ {x}] \in Job
    BY <1>0 DEF Job
  <2>3. jobs' \in [JobIds -> Job]
    BY <2>1, <2>2 DEF SkipIncomplete
  <2>4. recs' \in [Migrations -> [Services -> RecordStatus]]
    BY <1>0, <1>a, <2>1, RecordType DEF SkipIncomplete
  <2> QED
    BY <2>1, <2>3, <2>4 DEF SkipIncomplete
<1>3. CASE \E x \in Services : StartService(j, x)
  <2>1. PICK x \in Services : StartService(j, x)
    BY <1>3
  <2> DEFINE job == [jobs[j] EXCEPT !.todo = @ \ {x}, !.busy = @ \cup {x}]
  <2>2. job \in Job
    BY <1>0 DEF Job
  <2>3. jobs' = [jobs EXCEPT ![j] = job]
    BY <2>1 DEF StartService
  <2>4. recs' \in [Migrations -> [Services -> RecordStatus]]
    BY <1>0, <1>a, <2>1, RecordType DEF StartService
  <2> QED
    BY <2>1, <2>2, <2>3, <2>4, ReplaceType DEF StartService
<1>4. CASE \E x \in Services, status \in {"done", "failed"} : FinishService(j, x, status)
  <2>1. PICK x \in Services, status \in {"done", "failed"} : FinishService(j, x, status)
    BY <1>4
  <2> DEFINE job == [jobs[j] EXCEPT !.busy = @ \ {x}, !.saving = @ \cup {x}]
  <2>2. job \in Job
    BY <1>0 DEF Job
  <2>3. jobs' \in [JobIds -> Job]
    <3>1. jobs' = [jobs EXCEPT ![j] = job]
      BY <2>1 DEF FinishService
    <3> QED
      BY <2>2, <3>1, ReplaceType
  <2>4. recs' \in [Migrations -> [Services -> RecordStatus]]
    BY <1>0, <1>a, <2>1, RecordType DEF FinishService
  <2> QED
    BY <2>1, <2>3, <2>4 DEF FinishService
<1>8. CASE \E x \in Services : SaveFiles(j, x)
  <2>1. PICK x \in Services : SaveFiles(j, x)
    BY <1>8
  <2>2. [jobs[j] EXCEPT !.saving = @ \ {x}] \in Job
    BY <1>0 DEF Job
  <2>3. jobs' \in [JobIds -> Job]
    BY <2>1, <2>2 DEF SaveFiles
  <2>4. files' \in [Migrations -> SUBSET (Services \cup {Aggregator})]
    BY <2>1 DEF SaveFiles
  <2> QED
    BY <2>1, <2>3, <2>4 DEF SaveFiles
<1>5. CASE Decide(j)
  <2>1. jobs' \in [JobIds -> Job]
    BY <1>5, GotoType, PcNames DEF Decide
  <2>2. files' \in [Migrations -> SUBSET (Services \cup {Aggregator})]
    BY <1>5 DEF Decide
  <2> QED
    BY <1>5, <2>1, <2>2 DEF Decide
<1>6. CASE SetFinalState(j)
  <2>1. mig' \in [Migrations -> MigrationDoc]
    BY <1>0, <1>6, StateType, StateNames DEF SetFinalState
  <2> QED
    BY <1>6, <2>1, GotoType, PcNames DEF SetFinalState
<1>7. CASE GenerationFails(j)
  BY <1>7, AttemptFailsType DEF GenerationFails
<1> QED
  BY <1>1, <1>2, <1>3, <1>4, <1>8, <1>5, <1>6, <1>7 DEF GenerationStep

-----------------------------------------------------------------------------
(* The calls of the migration service.                                     *)

\* The idle call is well-formed.
LEMMA IdleType == Idle \in Call
<1>1. "idle" \in CallPcs /\ "none" \in Verdicts /\ 0 \in MigrationRef /\ 0 \in SummaryRef
  BY StoreAssumption DEF CallPcs, Verdicts, MigrationRef, SummaryRef
<1> QED
  BY <1>1 DEF Idle, Call

\* The steps of the service that calls are moved to are steps.
LEMMA CallPcNames ==
  /\ "idle" \in CallPcs /\ "delete" \in CallPcs /\ "analyzing" \in CallPcs
  /\ "dispatch" \in CallPcs /\ "dispatched" \in CallPcs /\ "rollback" \in CallPcs
  /\ "reuse_analyzing" \in CallPcs /\ "adopt" \in CallPcs /\ "reuse_enqueue" \in CallPcs
  /\ "approve" \in CallPcs /\ "approve_enqueue" \in CallPcs /\ "reject" \in CallPcs
  /\ "assess" \in CallPcs /\ "override" \in CallPcs /\ "cancel" \in CallPcs
  /\ "push" \in CallPcs /\ "pushed" \in CallPcs /\ "roadmap" \in CallPcs
  /\ "enrich" \in CallPcs /\ "blueprint" \in CallPcs
  BY DEF CallPcs

\* The part of the type invariant that is about calls.
CallsOK == calls \in [Callers -> Call] /\ PushTarget

\* Answering a call keeps it.
LEMMA ReturnType ==
  ASSUME CallsOK, NEW c \in Callers, Return(c)
  PROVE  CallsOK'
<1>1. calls' \in [Callers -> Call]
  BY IdleType DEF CallsOK, Return
<1>2. PushTarget'
  BY DEF CallsOK, Return, Idle, PushTarget
<1> QED
  BY <1>1, <1>2 DEF CallsOK

\* Moving a call to another step than a push keeps it.
LEMMA GotoCallType ==
  ASSUME CallsOK, NEW c \in Callers, NEW pc \in CallPcs, pc # "push", Goto_(c, pc)
  PROVE  CallsOK'
<1>1. calls' \in [Callers -> Call]
  BY DEF CallsOK, Goto_, Call
<1>2. PushTarget'
  BY DEF CallsOK, Goto_, PushTarget, Call
<1> QED
  BY <1>1, <1>2 DEF CallsOK

\* Replacing a call by one that only pushes for a migration keeps it.
LEMMA ReplaceCallType ==
  ASSUME CallsOK, NEW c \in Callers, NEW call \in Call, call.pc = "push" => call.m # 0,
         calls' = [calls EXCEPT ![c] = call]
  PROVE  CallsOK'
  BY DEF CallsOK, PushTarget

\* Accepting a call for migration m, or for none, keeps it.
LEMMA ProceedType ==
  ASSUME CallsOK, NEW c \in Callers, NEW pc \in CallPcs, NEW m \in MigrationRef,
         pc = "push" => m # 0, Proceed(c, pc, m)
  PROVE  CallsOK'
<1> DEFINE call == [Idle EXCEPT !.pc = pc, !.m = m]
<1>1. call \in Call
  BY IdleType DEF Call
<1>2. call.pc = pc /\ call.m = m
  BY DEF Idle
<1>3. calls' = [calls EXCEPT ![c] = call]
  BY DEF Proceed
<1> HIDE DEF call
<1> QED
  BY <1>1, <1>2, <1>3, ReplaceCallType

\* The service's state update keeps the collection's type.
LEMMA UpdateStateType ==
  ASSUME mig \in [Migrations -> MigrationDoc], NEW m \in MigrationRef,
         NEW st \in MigrationState, UpdateState(m, st)
  PROVE  mig' \in [Migrations -> MigrationDoc]
  BY StateType DEF UpdateState

\* So do the writes of single fields,
LEMMA FieldType ==
  ASSUME mig \in [Migrations -> MigrationDoc], NEW m \in MigrationRef,
         NEW v \in Verdicts, NEW b \in BOOLEAN,
         \/ SoftDelete(m) \/ SetMigrabilityAssessment(m, v) \/ SetMigrabilityOverride(m, b)
         \/ SetRoadmapEnrichment(m) \/ SetServiceBlueprint(m)
  PROVE  mig' \in [Migrations -> MigrationDoc]
<1>1. CASE ~Live(m)
  BY <1>1 DEF SoftDelete, SetMigrabilityAssessment, SetMigrabilityOverride,
       SetRoadmapEnrichment, SetServiceBlueprint
<1>2. CASE Live(m)
  <2>1. m \in Migrations
    BY <1>2, LiveIsMigration
  <2>2. /\ [mig[m] EXCEPT !.deleted = TRUE] \in MigrationDoc
        /\ [mig[m] EXCEPT !.verdict = v] \in MigrationDoc
        /\ [mig[m] EXCEPT !.override = b] \in MigrationDoc
        /\ [mig[m] EXCEPT !.enriched = TRUE] \in MigrationDoc
        /\ [mig[m] EXCEPT !.blueprint = TRUE] \in MigrationDoc
    BY <2>1 DEF MigrationDoc
  <2> QED
    BY <1>2, <2>1, <2>2 DEF SoftDelete, SetMigrabilityAssessment, SetMigrabilityOverride,
         SetRoadmapEnrichment, SetServiceBlueprint
<1> QED
  BY <1>1, <1>2

\* the adoption of an analysis,
LEMMA AdoptType ==
  ASSUME mig \in [Migrations -> MigrationDoc], NEW m \in MigrationRef,
         NEW s \in SummaryRef, AdoptAnalysis(m, s)
  PROVE  mig' \in [Migrations -> MigrationDoc]
<1> DEFINE d == [mig[m] EXCEPT !.state = "DESIGNING", !.summary = s, !.reused = TRUE]
<1>1. m \in Migrations
  BY LiveIsMigration DEF AdoptAnalysis, CanAdopt
<1>2. d \in MigrationDoc
  BY <1>1, StateNames DEF MigrationDoc
<1>3. mig' = [mig EXCEPT ![m] = d]
  BY <1>1 DEF AdoptAnalysis
<1> QED
  BY <1>1, <1>2, <1>3

\* and the roadmap.
LEMMA RoadmapType ==
  ASSUME mig \in [Migrations -> MigrationDoc], NEW m \in MigrationRef,
         NEW r \in Roadmaps, SetRestructuringRoadmap(m, r)
  PROVE  mig' \in [Migrations -> MigrationDoc]
<1> DEFINE d == [mig[m] EXCEPT !.state = "RESTRUCTURING_READY", !.roadmap = r]
<1>1. CASE Live(m) /\ mig[m].state = "AWAITING_APPROVAL"
  <2>1. m \in Migrations
    BY <1>1, LiveIsMigration
  <2>2. d \in MigrationDoc
    BY <2>1, StateNames DEF MigrationDoc
  <2>3. mig' = [mig EXCEPT ![m] = d]
    BY <1>1, <2>1 DEF SetRestructuringRoadmap
  <2> QED
    BY <2>1, <2>2, <2>3
<1> QED
  BY <1>1 DEF SetRestructuringRoadmap

\* What a call that only touches the migrations must show.
LEMMA MigStepType ==
  ASSUME TypeInv, OnlyMig, UNCHANGED approved, CallsOK',
         mig' \in [Migrations -> MigrationDoc]
  PROVE  TypeInv'
  BY DEF OnlyMig, CallsOK

\* What a call that touches nothing stored must show.
LEMMA QuietStepType ==
  ASSUME TypeInv, UNCHANGED storeVars, UNCHANGED approved, CallsOK'
  PROVE  TypeInv'
  BY DEF storeVars, CallsOK

\* What a call that only queues a task must show.
LEMMA QueueStepType ==
  ASSUME TypeInv, OnlyJobs, UNCHANGED approved, CallsOK', jobs' \in [JobIds -> Job]
  PROVE  TypeInv'
  BY DEF OnlyJobs, CallsOK

\* Accepting an RPC keeps the type.
LEMMA ClientStepType ==
  ASSUME TypeInv, ClientStep
  PROVE  TypeInv'
<1>0. CallsOK /\ Migrations \subseteq MigrationRef
  BY DEF CallsOK, Migrations, MigrationRef
<1> USE DEF May
<1>1. CASE \E m \in Migrations, d \in Drafts : CreateMigration(m, d)
  <2>1. PICK m \in Migrations, d \in Drafts : CreateMigration(m, d)
    BY <1>1
  <2>a. NewMigration(d) \in MigrationDoc
    BY NewMigrationType, DraftsAssumption
  <2>2. mig' \in [Migrations -> MigrationDoc]
    BY <2>1, <2>a, DocType DEF CreateMigration
  <2>3. CallsOK'
    BY <1>0, <2>1 DEF CreateMigration, serviceVars, CallsOK, PushTarget
  <2> QED
    BY <2>1, <2>2, <2>3, MigStepType DEF CreateMigration, serviceVars
<1>2. CASE \E c \in Callers : RunAnalysis(c)
  <2>1. 0 \in MigrationRef
    BY StoreAssumption DEF MigrationRef
  <2> QED
    BY <1>0, <1>2, <2>1, ProceedType, CallPcNames, QuietStepType DEF RunAnalysis
<1>3. ASSUME NEW c \in Callers, NEW m \in Migrations,
             \/ DeleteMigration(c, m) \/ StartMigration(c, m) \/ RejectDesign(c, m)
             \/ CancelMigration(c, m) \/ GenerateRestructuringRoadmap(c, m)
             \/ EnrichRoadmap(c, m) \/ GenerateBlueprint(c, m)
      PROVE  TypeInv'
  <2>1. UNCHANGED storeVars /\ UNCHANGED approved
    BY <1>3 DEF DeleteMigration, StartMigration, RejectDesign, CancelMigration,
         GenerateRestructuringRoadmap, EnrichRoadmap, GenerateBlueprint
  <2>2. \E pc \in CallPcs \ {"push"} : Proceed(c, pc, m)
    BY <1>3, CallPcNames DEF DeleteMigration, StartMigration, RejectDesign, CancelMigration,
         GenerateRestructuringRoadmap, EnrichRoadmap, GenerateBlueprint
  <2> QED
    BY <1>0, <2>1, <2>2, ProceedType, QuietStepType
<1>4. ASSUME NEW c \in Callers, NEW m \in Migrations, StartWithReuse(c, m)
      PROVE  TypeInv'
  <2> DEFINE call == [Idle EXCEPT !.pc = "reuse_analyzing", !.m = m, !.s = mig[m].source]
  <2>1. mig[m].source \in SummaryRef
    BY DEF MigrationDoc
  <2>2. call \in Call
    BY <1>0, <2>1, IdleType, CallPcNames DEF Call
  <2>3. call.pc # "push"
    BY DEF Idle
  <2>4. calls' = [calls EXCEPT ![c] = call]
    BY <1>4 DEF StartWithReuse
  <2> HIDE DEF call
  <2> QED
    BY <1>0, <1>4, <2>2, <2>3, <2>4, ReplaceCallType, QuietStepType DEF StartWithReuse
<1>5. ASSUME NEW c \in Callers, NEW m \in Migrations, NEW f \in Filters,
             ApproveDesign(c, m, f)
      PROVE  TypeInv'
  <2> DEFINE call == [Idle EXCEPT !.pc = "approve", !.m = m, !.filter = f]
  <2>1. call \in Call
    BY <1>0, IdleType, CallPcNames, ServiceAssumption DEF Call
  <2>2. call.pc # "push"
    BY DEF Idle
  <2>3. calls' = [calls EXCEPT ![c] = call]
    BY <1>5 DEF ApproveDesign
  <2>4. CallsOK'
    <3> HIDE DEF call
    <3> QED
      BY <1>0, <2>1, <2>2, <2>3, ReplaceCallType
  <2>5. approved' \in SUBSET Migrations
    BY <1>5 DEF ApproveDesign
  <2> QED
    BY <1>5, <2>4, <2>5 DEF ApproveDesign, storeVars, CallsOK
<1>6. ASSUME NEW c \in Callers, NEW m \in Migrations, NEW v \in Verdicts \ {"none"},
             AssessMigrability(c, m, v)
      PROVE  TypeInv'
  <2> DEFINE call == [Idle EXCEPT !.pc = "assess", !.m = m, !.verdict = v]
  <2>1. call \in Call
    BY <1>0, IdleType, CallPcNames DEF Call
  <2>2. call.pc # "push"
    BY DEF Idle
  <2>3. calls' = [calls EXCEPT ![c] = call]
    BY <1>6 DEF AssessMigrability
  <2> HIDE DEF call
  <2> QED
    BY <1>0, <1>6, <2>1, <2>2, <2>3, ReplaceCallType, QuietStepType DEF AssessMigrability
<1>7. ASSUME NEW c \in Callers, NEW m \in Migrations, NEW b \in BOOLEAN, SetOverride(c, m, b)
      PROVE  TypeInv'
  <2> DEFINE call == [Idle EXCEPT !.pc = "override", !.m = m, !.on = b]
  <2>1. call \in Call
    BY <1>0, IdleType, CallPcNames DEF Call
  <2>2. call.pc # "push"
    BY DEF Idle
  <2>3. calls' = [calls EXCEPT ![c] = call]
    BY <1>7 DEF SetOverride
  <2> HIDE DEF call
  <2> QED
    BY <1>0, <1>7, <2>1, <2>2, <2>3, ReplaceCallType, QuietStepType DEF SetOverride
<1>8. ASSUME NEW c \in Callers, NEW m \in Migrations, PublishMigration(c, m)
      PROVE  TypeInv'
  <2> DEFINE again == (mig[m].state = "PUSHED")
             call == [Idle EXCEPT !.pc = "push", !.m = m, !.on = again]
  <2>1. call \in Call
    <3>1. again \in BOOLEAN
      OBVIOUS
    <3> HIDE DEF again
    <3> QED
      BY <1>0, <3>1, IdleType, CallPcNames DEF Call
  <2>2. call.m # 0
    BY StoreAssumption DEF Idle, Migrations
  <2>3. calls' = [calls EXCEPT ![c] = call]
    BY <1>8 DEF PublishMigration
  <2> HIDE DEF call
  <2> QED
    BY <1>0, <1>8, <2>1, <2>2, <2>3, ReplaceCallType, QuietStepType DEF PublishMigration
<1> QED
  BY <1>1, <1>2, <1>3, <1>4, <1>5, <1>6, <1>7, <1>8 DEF ClientStep

\* Continuing an RPC keeps the type.
LEMMA CallStepType ==
  ASSUME TypeInv, NEW c \in Callers, CallStep(c)
  PROVE  TypeInv'
<1>0. /\ CallsOK /\ calls[c] \in Call
      /\ calls[c].m \in MigrationRef /\ calls[c].s \in SummaryRef
      /\ calls[c].filter \in SUBSET Services /\ calls[c].verdict \in Verdicts
      /\ calls[c].on \in BOOLEAN
  BY DEF CallsOK, Call
<1> USE DEF At
<1>1. CASE DeleteWrite(c)
  <2>1. mig' \in [Migrations -> MigrationDoc]
    BY <1>0, <1>1, FieldType DEF DeleteWrite
  <2> QED
    BY <1>0, <1>1, <2>1, ReturnType, MigStepType DEF DeleteWrite
<1>2. CASE StartAnalyzing(c)
  <2>1. mig' \in [Migrations -> MigrationDoc]
    BY <1>0, <1>2, UpdateStateType, StateNames DEF StartAnalyzing
  <2>2. CallsOK'
    BY <1>0, <1>2, ReturnType, GotoCallType, CallPcNames DEF StartAnalyzing
  <2> QED
    BY <1>2, <2>1, <2>2, MigStepType DEF StartAnalyzing
<1>3. CASE \E s \in SummaryIds : StartDispatch(c, s)
  <2>1. PICK s \in SummaryIds : StartDispatch(c, s)
    BY <1>3
  <2> DEFINE call == [calls[c] EXCEPT !.pc = "dispatched", !.s = s]
  <2>2. s \in SummaryRef
    BY DEF SummaryIds, SummaryRef
  <2>3. call \in Call
    BY <1>0, <2>2, CallPcNames DEF Call
  <2>4. call.pc # "push"
    BY <1>0 DEF Call
  <2>5. calls' = [calls EXCEPT ![c] = call]
    BY <2>1 DEF StartDispatch
  <2>6. CallsOK'
    <3> HIDE DEF call
    <3> QED
      BY <1>0, <2>3, <2>4, <2>5, ReplaceCallType
  <2>7. [state |-> "RUNNING", m |-> calls[c].m, sha |-> 0] \in SummaryDoc
    BY <1>0, StoreAssumption DEF SummaryDoc, SummaryState, CommitRef
  <2>8. sums' \in [SummaryIds -> SummaryDoc]
    BY <2>1, <2>7 DEF StartDispatch, CreateSummary
  <2> QED
    BY <2>1, <2>6, <2>8 DEF StartDispatch, CallsOK
<1>4. CASE StartDispatchFails(c)
  BY <1>0, <1>4, ReturnType, GotoCallType, CallPcNames, QuietStepType DEF StartDispatchFails
<1>5. CASE StartDispatched(c)
  <2>1. NewJob("analysis", calls[c].m, calls[c].s, {}) \in Job
    BY <1>0, NewJobType DEF JobKinds
  <2>2. jobs' \in [JobIds -> Job]
    BY <1>5, <2>1, EnqueuedType DEF StartDispatched, EnqueueAnalysis
  <2>3. CallsOK'
    BY <1>0, <1>5, ReturnType, GotoCallType, CallPcNames DEF StartDispatched
  <2> QED
    BY <1>5, <2>2, <2>3, QueueStepType DEF StartDispatched
<1>6. CASE StartAdopt(c)
  <2>1. mig' \in [Migrations -> MigrationDoc]
    BY <1>0, <1>6, AdoptType DEF StartAdopt
  <2>2. CallsOK'
    BY <1>0, <1>6, GotoCallType, CallPcNames DEF StartAdopt
  <2> QED
    BY <1>6, <2>1, <2>2, MigStepType DEF StartAdopt
<1>7. CASE StartRollback(c)
  BY <1>0, <1>7, UpdateStateType, StateNames, ReturnType, MigStepType DEF StartRollback
<1>8. CASE StartReuseEnqueue(c)
  <2>1. NewJob("decompose", calls[c].m, calls[c].s, {}) \in Job
    BY <1>0, NewJobType DEF JobKinds
  <2>2. jobs' \in [JobIds -> Job]
    BY <1>8, <2>1, EnqueuedType DEF StartReuseEnqueue
  <2> QED
    BY <1>0, <1>8, <2>2, ReturnType, QueueStepType DEF StartReuseEnqueue
<1>9. CASE ApproveWrite(c)
  <2>1. mig' \in [Migrations -> MigrationDoc]
    BY <1>0, <1>9, UpdateStateType, StateNames DEF ApproveWrite
  <2>2. CallsOK'
    BY <1>0, <1>9, ReturnType, GotoCallType, CallPcNames DEF ApproveWrite
  <2> QED
    BY <1>9, <2>1, <2>2, MigStepType DEF ApproveWrite
<1>10. CASE ApproveEnqueue(c)
  <2>0. 0 \in SummaryRef /\ "generation" \in JobKinds
    BY StoreAssumption DEF JobKinds, SummaryRef
  <2>1. NewJob("generation", calls[c].m, 0, calls[c].filter) \in Job
    BY <1>0, <2>0, NewJobType
  <2>2. jobs' \in [JobIds -> Job]
    BY <1>10, <2>1, EnqueuedType DEF ApproveEnqueue
  <2> QED
    BY <1>0, <1>10, <2>2, ReturnType, QueueStepType DEF ApproveEnqueue
<1>11. CASE CancelWrite(c)
  BY <1>0, <1>11, UpdateStateType, StateNames, ReturnType, MigStepType DEF CancelWrite
<1>12. CASE AssessWrite(c)
  <2>1. mig' \in [Migrations -> MigrationDoc]
    BY <1>0, <1>12, FieldType DEF AssessWrite
  <2> QED
    BY <1>0, <1>12, <2>1, ReturnType, MigStepType DEF AssessWrite
<1>13. CASE OverrideWrite(c)
  <2>1. mig' \in [Migrations -> MigrationDoc]
    BY <1>0, <1>13, FieldType DEF OverrideWrite
  <2> QED
    BY <1>0, <1>13, <2>1, ReturnType, MigStepType DEF OverrideWrite
<1>14. CASE \E r \in Roadmaps \ {"none"} : RoadmapWrite(c, r)
  <2>1. PICK r \in Roadmaps : RoadmapWrite(c, r)
    BY <1>14
  <2>2. mig' \in [Migrations -> MigrationDoc]
    BY <1>0, <2>1, RoadmapType DEF RoadmapWrite
  <2> QED
    BY <1>0, <2>1, <2>2, ReturnType, MigStepType DEF RoadmapWrite
<1>15. CASE EnrichWrite(c)
  <2>1. mig' \in [Migrations -> MigrationDoc]
    BY <1>0, <1>15, FieldType DEF EnrichWrite
  <2> QED
    BY <1>0, <1>15, <2>1, ReturnType, MigStepType DEF EnrichWrite
<1>16. CASE PublishPush(c)
  <2>1. calls[c].m \in Migrations
    BY <1>0, <1>16, StoreAssumption DEF PublishPush, CallsOK, PushTarget, MigrationRef, Migrations
  <2>2. remote' \in SUBSET Migrations
    BY <1>16, <2>1 DEF PublishPush
  <2>3. CallsOK'
    BY <1>0, <1>16, ReturnType, GotoCallType, CallPcNames DEF PublishPush
  <2> QED
    BY <1>16, <2>2, <2>3 DEF PublishPush, CallsOK
<1>17. CASE PublishWrite(c)
  BY <1>0, <1>17, UpdateStateType, StateNames, ReturnType, MigStepType DEF PublishWrite
<1>18. CASE CallFails(c)
  BY <1>0, <1>18, ReturnType, QuietStepType DEF CallFails
<1> QED
  BY <1>1, <1>2, <1>3, <1>4, <1>5, <1>6, <1>7, <1>8, <1>9, <1>10, <1>11, <1>12, <1>13,
     <1>14, <1>15, <1>16, <1>17, <1>18 DEF CallStep

-----------------------------------------------------------------------------

\* Every step of the system keeps the type.
LEMMA NextType == TypeInv /\ [Next]_vars => TypeInv'
<1> SUFFICES ASSUME TypeInv, [Next]_vars PROVE TypeInv'
  OBVIOUS
<1>1. CASE ClientStep
  BY <1>1, ClientStepType
<1>2. CASE \E c \in Callers : CallStep(c)
  BY <1>2, CallStepType
<1>3. ASSUME NEW j \in JobIds, WorkerStep(j)
      PROVE  TypeInv'
  <2>1. CASE Ack(j)
    BY <1>3, <2>1, NoJobType DEF WorkerStep, Ack, OnlyJobs, serviceVars, PushTarget
  <2> QED
    BY <1>3, <2>1, AnalysisStepType, DecompositionStepType, GenerationStepType DEF WorkerStep
<1>4. ASSUME NEW j \in JobIds, WorkerCrash(j), UNCHANGED serviceVars
      PROVE  TypeInv'
  BY <1>4, AttemptFailsType DEF WorkerCrash, OnlyJobs, serviceVars, PushTarget
<1>5. CASE SourcePush /\ UNCHANGED serviceVars
  BY <1>5, StoreAssumption DEF SourcePush, serviceVars, PushTarget, Commits
<1>6. CASE UNCHANGED vars
  BY <1>6 DEF vars, storeVars, serviceVars, PushTarget
<1> QED
  BY <1>1, <1>2, <1>3, <1>4, <1>5, <1>6 DEF Next

\* The type invariant holds throughout.
LEMMA TypeInvariant == Spec => []TypeInv
<1>1. Init => TypeInv
  BY InitType
<1>2. TypeInv /\ [Next]_vars => TypeInv'
  BY NextType
<1> QED
  BY <1>1, <1>2, PTL DEF Spec

\* In every behaviour, for all bounds, services, callers and faults, every
\* collection, task and call is well-formed; in particular a task is never
\* delivered more than MaxRetry + 1 times.
THEOREM TypeCorrect == Spec => []TypeOK
<1>1. TypeInv => TypeOK
  OBVIOUS
<1> QED
  BY <1>1, TypeInvariant, PTL
=============================================================================
