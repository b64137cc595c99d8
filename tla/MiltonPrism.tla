----------------------------- MODULE MiltonPrism -----------------------------
(***************************************************************************)
(* The migration engine: the migration and analysis services and the       *)
(* analysis, decomposition and generation workers over one store and one   *)
(* task queue, with the faults the constant Faults admits.                 *)
(***************************************************************************)
EXTENDS MigrationService, AnalysisWorker, DecompositionWorker, GenerationWorker

vars == <<storeVars, serviceVars>>

Init == StoreInit /\ ServiceInit

\* A worker process goes on with the task in slot j.
WorkerStep(j) ==
  /\ \/ AnalysisStep(j)
     \/ DecompositionStep(j)
     \/ GenerationStep(j)
     \/ Ack(j)
  /\ UNCHANGED serviceVars

Next ==
  \/ ClientStep
  \/ \E c \in Callers : CallStep(c)
  \/ \E j \in JobIds : WorkerStep(j)
  \/ \E j \in JobIds : WorkerCrash(j) /\ UNCHANGED serviceVars
  \/ SourcePush /\ UNCHANGED serviceVars

\* A handler and a worker that can go on do: goroutines are scheduled fairly and
\* asynq delivers every queued task. Clients, crashes and pushes owe nothing.
Fairness ==
  /\ \A c \in Callers : WF_vars(CallStep(c))
  /\ \A j \in JobIds : WF_vars(WorkerStep(j))

Spec     == Init /\ [][Next]_vars
FairSpec == Spec /\ Fairness

-----------------------------------------------------------------------------
(* Safety.                                                                 *)

\* Every variable holds a document of its collection.
TypeOK == StoreTypeOK /\ ServiceTypeOK

\* Analysis s is COMPLETED.
Completed(s) == s \in SummaryIds /\ sums[s].state = "COMPLETED"

\* The engine links a migration only to a COMPLETED analysis, and DESIGNING and
\* analysis_reused stand for such a link. Three writers set the reference
\* (WriteMigration, ReuseMigration, StartAdopt), each some steps after it looked
\* at the summary; the reference that a client supplied may be anything.
LinkedAnalysisCompleted ==
  /\ [](\A m \in Migrations :
          mig[m].state = "DESIGNING" \/ mig[m].reused => Completed(mig[m].summary))
  /\ [][\A m \in Migrations :
          mig[m].exists /\ mig'[m].summary # mig[m].summary
            => Completed(mig[m].summary)']_vars

\* A migration open for approval, or beyond it, has a plan, however late the
\* unguarded state updates of approvals, publications and workers land.
PlanBeforeApproval ==
  \A m \in Migrations :
    mig[m].state \in {"AWAITING_APPROVAL", "GENERATING", "READY", "PUSHED",
                      "RESTRUCTURING_READY"} => mig[m].planned

\* The human gate: code is generated, stored or published only for a migration
\* that was approved on a document with services and without a blocking verdict.
GeneratedOnlyAfterApproval ==
  \A m \in Migrations :
    \/ m \in approved
    \/ /\ mig[m].state \notin {"GENERATING", "READY", "PUSHED"}
       /\ files[m] = {} /\ m \notin remote
       /\ \A x \in Services : recs[m][x] = "none"

\* A service with a generation record was designed: an agent never runs for a
\* service the decomposition worker has not stored a contract or a hole for.
GeneratedWasDesigned ==
  \A m \in Migrations, x \in Services : recs[m][x] # "none" => design[m][x] # "none"

\* PUSHED is only claimed for a migration whose files reached their target.
PushedWasPushed == \A m \in Migrations : mig[m].state = "PUSHED" => m \in remote

\* RESTRUCTURING_READY has its roadmap, and enrichment and blueprint never stand
\* without the roadmap they were derived from, although they are written by calls
\* that checked an older copy of the document. (A client may supply all three when
\* it creates the migration.)
RoadmapBeforeDerived ==
  \A m \in Migrations :
    mig[m].state = "RESTRUCTURING_READY" \/ mig[m].enriched \/ mig[m].blueprint
      => mig[m].roadmap # "none"

-----------------------------------------------------------------------------
(* What the steps in flight rely on. A call or an attempt that has passed   *)
(* its checks acts later on what it saw then; these facts are the ones that *)
(* nobody can have taken away in between. They make the safety properties   *)
(* inductive.                                                              *)

\* Analysis s was created.
Stored(s) == s \in SummaryIds /\ sums[s].state # "none"

\* Migration m was approved and still has a plan.
Cleared(m) == m \in approved /\ mig[m].planned

\* A call dispatches an analysis that was stored, adopts a COMPLETED one, approves
\* or publishes a migration that is cleared, and claims PUSHED only after its push.
CallIsJustified(call) ==
  /\ call.pc \in {"dispatched", "reuse_enqueue"} => Stored(call.s)
  /\ call.pc \in {"reuse_analyzing", "adopt"} => Completed(call.s)
  /\ call.pc \in {"approve", "approve_enqueue", "push", "pushed"} => Cleared(call.m)
  /\ call.pc = "pushed" => call.m \in remote

\* The analysis that a task names or hands on was stored; a reuse links a COMPLETED
\* one; a generation task is for a cleared migration and for designed services.
JobIsJustified(job) ==
  /\ job.kind \in {"analysis", "decompose"} => Stored(job.s)
  /\ job.kind = "analysis" /\ job.pc \in {"write_summary", "write_migration", "enqueue"} =>
       Stored(job.ref)
  /\ job.kind = "analysis" /\ job.pc \in {"reuse_migration", "reuse_link", "reuse_close"} =>
       Completed(job.ref)
  /\ job.kind = "analysis" /\ job.pc = "write_migration" => Completed(job.s)
  /\ job.kind = "generation" =>
       /\ Cleared(job.m)
       /\ \A x \in job.todo \cup job.busy \cup job.saving : design[job.m][x] # "none"

\* Whatever is in flight still stands on what its checks found, although every
\* other call and task wrote in between.
InFlightIsJustified ==
  /\ \A c \in Callers : CallIsJustified(calls[c])
  /\ \A j \in JobIds : JobIsJustified(jobs[j])

-----------------------------------------------------------------------------
(* What a step may never do.                                               *)

\* A deleted migration's document never changes again, whatever RPC or task is
\* still under way for it.
DeletedIsFrozen == [][\A m \in Migrations : mig[m].deleted => mig'[m] = mig[m]]_vars

\* The analyses as their readers see them.
Analyses == INSTANCE AnalysisLifecycle WITH
  Ids    <- SummaryIds,
  Owners <- Migrations,
  Shas   <- CommitRef,
  state  <- [s \in SummaryIds |-> sums[s].state],
  owner  <- [s \in SummaryIds |-> sums[s].m],
  sha    <- [s \in SummaryIds |-> sums[s].sha]

\* Retries, duplicates of a task, reuse by other migrations and the clean-up of a
\* superseded run leave every analysis with the life its readers count on: one
\* creation, one end, no rewrite after it, and at most one owner.
AnalysesKeepTheirLifecycle == Analyses!Spec

-----------------------------------------------------------------------------
(* Liveness, under FairSpec.                                               *)

\* A started analysis ends, COMPLETED or FAILED.
AnalysisEnds == \A s \in SummaryIds : (sums[s].state = "RUNNING") ~> (sums[s].state # "RUNNING")

\* A migration does not stay in a state only a worker can take it out of.
DesignEnds ==
  \A m \in Migrations :
    (mig[m].state \in {"ANALYZING", "DESIGNING"}) ~>
      (mig[m].state \notin {"ANALYZING", "DESIGNING"})

-----------------------------------------------------------------------------
(* A claim of the repository that the code does not keep. *)

\* generation/application/pipeline.go: "READY only if every service is done".
ReadyMeansAllDone ==
  \A m \in Migrations : mig[m].state = "READY" =>
    \A x \in mig[m].services : recs[m][x] = "done"
=============================================================================
