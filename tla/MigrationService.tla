--------------------------- MODULE MigrationService ---------------------------
(***************************************************************************)
(* The migration service: every RPC reads the document, decides on that    *)
(* snapshot, and then writes. The read with its checks is one action, each *)
(* later write, dispatch or external call is another, so that calls of     *)
(* several clients and steps of the workers interleave between them.       *)
(* A call that its checks reject changes nothing and has no action.        *)
(***************************************************************************)
EXTENDS AnalysisService

CONSTANTS
  Callers,     \* RPCs in flight at the same time
  ClientOps,   \* the RPCs clients issue
  Filters      \* the service filters they approve with

AllOps == { "Create", "Delete", "Start", "Approve", "Reject", "Assess", "Override",
            "Cancel", "Publish", "Roadmap", "Enrich", "Blueprint",
            "RunAnalysis", "ForceAnalysis" }

ASSUME ServiceAssumption ==
  /\ ClientOps \subseteq AllOps
  /\ Filters \subseteq SUBSET Services

VARIABLES
  calls,     \* the RPC each caller has in flight
  approved   \* history: migrations approved on a document that passes the gate

serviceVars == <<calls, approved>>

CallPcs ==
  { "idle", "delete", "analyzing", "dispatch", "dispatched", "rollback",
    "reuse_analyzing", "adopt", "reuse_enqueue", "approve", "approve_enqueue",
    "reject", "assess", "override", "cancel", "push", "pushed", "roadmap",
    "enrich", "blueprint" }

Call ==
  [ pc      : CallPcs,
    m       : MigrationRef,
    s       : SummaryRef,        \* summary to adopt, or just created
    filter  : SUBSET Services,   \* ApproveDesign's service_filter
    verdict : Verdicts,          \* what the assessor answered
    on      : BOOLEAN ]          \* the override; Publish: the snapshot was PUSHED

Idle == [pc |-> "idle", m |-> 0, s |-> 0, filter |-> {}, verdict |-> "none", on |-> FALSE]

\* Caller c may issue op.
May(c, op) == calls[c].pc = "idle" /\ op \in ClientOps

\* The call passed its checks on migration m and goes on at pc.
Proceed(c, pc, m) == calls' = [calls EXCEPT ![c] = [Idle EXCEPT !.pc = pc, !.m = m]]
At(c, pc)         == calls[c].pc = pc
Goto_(c, pc)      == calls' = [calls EXCEPT ![c].pc = pc]
Return(c)         == calls' = [calls EXCEPT ![c] = Idle]

-----------------------------------------------------------------------------
(* The writes of MongoMigrationRepository: each is one UpdateOne, filtered *)
(* by identifier and delete_time; a filter that matches nothing changes    *)
(* nothing. Only AdoptAnalysis and SetRestructuringRoadmap also filter by  *)
(* the current state.                                                      *)

\* mutant: the filter on delete_time is forgotten
UpdateStateOfDeleted(m, st) ==
  mig' = IF mig[m].exists THEN [mig EXCEPT ![m].state = st] ELSE mig

UpdateState(m, st) ==
  mig' = IF Live(m) THEN [mig EXCEPT ![m].state = st] ELSE mig

SoftDelete(m) ==
  mig' = IF Live(m) THEN [mig EXCEPT ![m].deleted = TRUE] ELSE mig

SetMigrabilityAssessment(m, v) ==
  mig' = IF Live(m) THEN [mig EXCEPT ![m].verdict = v] ELSE mig

SetMigrabilityOverride(m, b) ==
  mig' = IF Live(m) THEN [mig EXCEPT ![m].override = b] ELSE mig

SetRoadmapEnrichment(m) ==
  mig' = IF Live(m) THEN [mig EXCEPT ![m].enriched = TRUE] ELSE mig

SetServiceBlueprint(m) ==
  mig' = IF Live(m) THEN [mig EXCEPT ![m].blueprint = TRUE] ELSE mig

SetRestructuringRoadmap(m, r) ==
  mig' = IF Live(m) /\ mig[m].state = "AWAITING_APPROVAL"
         THEN [mig EXCEPT ![m].state = "RESTRUCTURING_READY", ![m].roadmap = r]
         ELSE mig

CanAdopt(m) == Live(m) /\ mig[m].state = "ANALYZING"

AdoptAnalysis(m, s) ==
  /\ CanAdopt(m)
  /\ mig' = [mig EXCEPT ![m].state = "DESIGNING", ![m].summary = s, ![m].reused = TRUE]

-----------------------------------------------------------------------------
(* CreateMigration and DeleteMigration.                                    *)

CreateMigration(m, d) ==
  /\ "Create" \in ClientOps
  /\ ~mig[m].exists
  /\ mig' = [mig EXCEPT ![m] = NewMigration(d)]
  /\ OnlyMig /\ UNCHANGED serviceVars

DeleteMigration(c, m) ==
  /\ May(c, "Delete") /\ Live(m)
  /\ isTerminalState(mig[m].state)
  /\ Proceed(c, "delete", m)
  /\ UNCHANGED storeVars /\ UNCHANGED approved

DeleteWrite(c) ==
  /\ At(c, "delete")
  /\ SoftDelete(calls[c].m)
  /\ Return(c)
  /\ OnlyMig /\ UNCHANGED approved

-----------------------------------------------------------------------------
(* StartMigration.                                                         *)

\* Bound: an RPC that will store a summary starts only while one is left for it.
SummaryBudget ==
  Cardinality({s \in SummaryIds : sums[s].state # "none"})
    + Cardinality({c \in Callers : calls[c].pc \in {"analyzing", "dispatch"}}) < MaxSummaries

\* startNormal: PENDING, no source analysis, and the connection probe passed.
StartMigration(c, m) ==
  /\ May(c, "Start") /\ Live(m)
  /\ mig[m].state = "PENDING" /\ mig[m].source = 0
  /\ SummaryBudget
  /\ Proceed(c, "analyzing", m)
  /\ UNCHANGED storeVars /\ UNCHANGED approved

\* mutant: the source analysis is adopted whatever its state
StartWithReuseOfAny(c, m) ==
  /\ May(c, "Start") /\ Live(m)
  /\ mig[m].state = "PENDING" /\ mig[m].source # 0
  /\ sums[mig[m].source].state # "none"
  /\ calls' = [calls EXCEPT ![c] = [Idle EXCEPT !.pc = "reuse_analyzing", !.m = m,
                                                !.s = mig[m].source]]
  /\ UNCHANGED storeVars /\ UNCHANGED approved

\* startWithReuse: the named analysis exists and is COMPLETED.
StartWithReuse(c, m) ==
  /\ May(c, "Start") /\ Live(m)
  /\ mig[m].state = "PENDING" /\ mig[m].source # 0
  /\ sums[mig[m].source].state = "COMPLETED"
  /\ calls' = [calls EXCEPT ![c] = [Idle EXCEPT !.pc = "reuse_analyzing", !.m = m,
                                                !.s = mig[m].source]]
  /\ UNCHANGED storeVars /\ UNCHANGED approved

StartAnalyzing(c) ==
  /\ calls[c].pc \in {"analyzing", "reuse_analyzing"}
  /\ UpdateState(calls[c].m, "ANALYZING")
  /\ IF Live(calls[c].m)
     THEN Goto_(c, IF At(c, "analyzing") THEN "dispatch" ELSE "adopt")
     ELSE Return(c)
  /\ OnlyMig /\ UNCHANGED approved

\* analysis.RunAnalysis reaches the analysis service, which stores the summary.
StartDispatch(c, s) ==
  /\ At(c, "dispatch")
  /\ CreateSummary(calls[c].m, s)
  /\ calls' = [calls EXCEPT ![c].pc = "dispatched", ![c].s = s]
  /\ UNCHANGED <<mig, jobs, head, design, recs, files, remote, approved>>

\* The dispatch RPC fails, before it had any effect.
StartDispatchFails(c) ==
  /\ At(c, "dispatch")
  /\ Faults \cap {"stage", "io"} # {}
  /\ IF calls[c].m = 0 THEN Return(c) ELSE Goto_(c, "rollback")
  /\ UNCHANGED storeVars /\ UNCHANGED approved

\* The analysis service enqueues the task and answers; when the answer is lost
\* StartMigration takes the dispatch for failed and rolls back.
StartDispatched(c) ==
  /\ At(c, "dispatched")
  /\ EnqueueAnalysis(calls[c].m, calls[c].s)
  /\ \/ Return(c)
     \/ "lostReply" \in Faults /\ calls[c].m # 0 /\ Goto_(c, "rollback")
  /\ OnlyJobs /\ UNCHANGED approved

StartAdopt(c) ==
  /\ At(c, "adopt")
  /\ \/ AdoptAnalysis(calls[c].m, calls[c].s) /\ Goto_(c, "reuse_enqueue")
     \/ /\ ~CanAdopt(calls[c].m) \/ "io" \in Faults
        /\ mig' = mig /\ Goto_(c, "rollback")
  /\ OnlyMig /\ UNCHANGED approved

\* Back to PENDING "so the migration remains retryable"; the error is ignored.
StartRollback(c) ==
  /\ At(c, "rollback")
  /\ UpdateState(calls[c].m, "PENDING")
  /\ Return(c)
  /\ OnlyMig /\ UNCHANGED approved

StartReuseEnqueue(c) ==
  /\ At(c, "reuse_enqueue")
  /\ Enqueued(jobs, NewJob("decompose", calls[c].m, calls[c].s, {}))
  /\ Return(c)
  /\ OnlyJobs /\ UNCHANGED approved

\* RunAnalysis without a migration, called by a client: skipped when the branch
\* head is analysed already, unless it is forced or the lookup fails.
RunAnalysis(c) ==
  /\ May(c, "RunAnalysis") /\ SummaryBudget
  /\ \/ ~DuplicateAnalysis
     \/ "ForceAnalysis" \in ClientOps
     \/ Faults \cap {"stage", "io"} # {}
  /\ Proceed(c, "dispatch", 0)
  /\ UNCHANGED storeVars /\ UNCHANGED approved

-----------------------------------------------------------------------------
(* ApproveDesign and the migrability gate.                                 *)

migrabilityBlocked(d) == d.verdict = "NOT_MIGRABLE" /\ ~d.override

\* What the gate means: the plan proposes services and no verdict forbids it.
MayGenerate(d) ==
  /\ d.state = "AWAITING_APPROVAL" /\ d.planned /\ d.services # {}
  /\ (d.verdict = "NOT_MIGRABLE" => d.override)

\* mutant: approving skips the check of the verdict
ApproveWithoutGate(d) ==
  d.state = "AWAITING_APPROVAL" /\ ~NoServiceBoundaries(d)

\* mutant: approving does not check the state of the migration
ApproveInAnyState(d) == ~NoServiceBoundaries(d) /\ ~migrabilityBlocked(d)

ApproveGate(d) ==
  /\ d.state = "AWAITING_APPROVAL"
  /\ ~NoServiceBoundaries(d)
  /\ ~migrabilityBlocked(d)

ApproveDesign(c, m, filter) ==
  /\ May(c, "Approve") /\ Live(m)
  /\ ApproveGate(mig[m])
  /\ calls' = [calls EXCEPT ![c] = [Idle EXCEPT !.pc = "approve", !.m = m, !.filter = filter]]
  /\ approved' = IF MayGenerate(mig[m]) THEN approved \cup {m} ELSE approved
  /\ UNCHANGED storeVars

ApproveWrite(c) ==
  /\ At(c, "approve")
  /\ UpdateState(calls[c].m, "GENERATING")
  /\ IF Live(calls[c].m) THEN Goto_(c, "approve_enqueue") ELSE Return(c)
  /\ OnlyMig /\ UNCHANGED approved

\* EnqueueGeneration: a failure is logged and the call still succeeds.
ApproveEnqueue(c) ==
  /\ At(c, "approve_enqueue")
  /\ Enqueued(jobs, NewJob("generation", calls[c].m, 0, calls[c].filter))
  /\ Return(c)
  /\ OnlyJobs /\ UNCHANGED approved

RejectDesign(c, m) ==
  /\ May(c, "Reject") /\ Live(m)
  /\ mig[m].state = "AWAITING_APPROVAL"
  /\ Proceed(c, "reject", m)
  /\ UNCHANGED storeVars /\ UNCHANGED approved

CancelMigration(c, m) ==
  /\ May(c, "Cancel") /\ Live(m)
  /\ ~isTerminalState(mig[m].state)
  /\ Proceed(c, "cancel", m)
  /\ UNCHANGED storeVars /\ UNCHANGED approved

\* Both ApproveDesign(approved = false) and CancelMigration end here.
CancelWrite(c) ==
  /\ calls[c].pc \in {"reject", "cancel"}
  /\ UpdateState(calls[c].m, "CANCELLED")
  /\ Return(c)
  /\ OnlyMig /\ UNCHANGED approved

-----------------------------------------------------------------------------
(* AssessMigrability, SetMigrabilityOverride and the restructuring RPCs.   *)

\* Some analysis has the identifier that m refers to: loading it is no error.
Loads(m) == mig[m].summary # 0 /\ sums[mig[m].summary].state # "none"

\* The assessor (an LLM) answers any verdict for an analysis that has structural
\* data; only a COMPLETED one can have them.
AssessMigrability(c, m, v) ==
  /\ May(c, "Assess") /\ Live(m)
  /\ Loads(m)
  /\ sums[mig[m].summary].state # "COMPLETED" => v = "INCOMPLETE"
  /\ calls' = [calls EXCEPT ![c] = [Idle EXCEPT !.pc = "assess", !.m = m, !.verdict = v]]
  /\ UNCHANGED storeVars /\ UNCHANGED approved

AssessWrite(c) ==
  /\ At(c, "assess")
  /\ SetMigrabilityAssessment(calls[c].m, calls[c].verdict)
  /\ Return(c)
  /\ OnlyMig /\ UNCHANGED approved

SetOverride(c, m, b) ==
  /\ May(c, "Override") /\ Live(m)
  /\ calls' = [calls EXCEPT ![c] = [Idle EXCEPT !.pc = "override", !.m = m, !.on = b]]
  /\ UNCHANGED storeVars /\ UNCHANGED approved

OverrideWrite(c) ==
  /\ At(c, "override")
  /\ SetMigrabilityOverride(calls[c].m, calls[c].on)
  /\ Return(c)
  /\ OnlyMig /\ UNCHANGED approved

\* Offered when the verdict is NOT_MIGRABLE or the plan has no boundaries.
GenerateRestructuringRoadmap(c, m) ==
  /\ May(c, "Roadmap") /\ Live(m)
  /\ mig[m].state = "AWAITING_APPROVAL"
  /\ mig[m].verdict = "NOT_MIGRABLE" \/ NoServiceBoundaries(mig[m])
  /\ Proceed(c, "roadmap", m)
  /\ UNCHANGED storeVars /\ UNCHANGED approved

\* The roadmap has no steps when no score signal carries a penalty.
RoadmapWrite(c, r) ==
  /\ At(c, "roadmap")
  /\ SetRestructuringRoadmap(calls[c].m, r)
  /\ Return(c)
  /\ OnlyMig /\ UNCHANGED approved

\* mutant: the derived documents are offered whatever the state
HasRoadmapStepsAny(d) == d.planned

HasRoadmapSteps(d) == d.state = "RESTRUCTURING_READY" /\ d.roadmap = "steps"

EnrichRoadmap(c, m) ==
  /\ May(c, "Enrich") /\ Live(m) /\ HasRoadmapSteps(mig[m])
  /\ Proceed(c, "enrich", m)
  /\ UNCHANGED storeVars /\ UNCHANGED approved

GenerateBlueprint(c, m) ==
  /\ May(c, "Blueprint") /\ Live(m) /\ HasRoadmapSteps(mig[m])
  /\ Loads(m)
  /\ Proceed(c, "blueprint", m)
  /\ UNCHANGED storeVars /\ UNCHANGED approved

EnrichWrite(c) ==
  /\ \/ At(c, "enrich") /\ SetRoadmapEnrichment(calls[c].m)
     \/ At(c, "blueprint") /\ SetServiceBlueprint(calls[c].m)
  /\ Return(c)
  /\ OnlyMig /\ UNCHANGED approved

-----------------------------------------------------------------------------
(* PublishMigration.                                                       *)

\* The stored files are listed at the same time; a path conflict is an error.
PublishMigration(c, m) ==
  /\ May(c, "Publish") /\ Live(m)
  /\ mig[m].state \in {"READY", "PUSHED"}
  /\ files[m] # {}
  /\ calls' = [calls EXCEPT ![c] = [Idle EXCEPT !.pc = "push", !.m = m,
                                                !.on = (mig[m].state = "PUSHED")]]
  /\ UNCHANGED storeVars /\ UNCHANGED approved

\* mutant: the state is written before the push, whose failure comes later
PublishStateFirst(c) ==
  /\ At(c, "push")
  /\ UNCHANGED remote
  /\ IF calls[c].on THEN Return(c) ELSE Goto_(c, "pushed")
  /\ UNCHANGED <<mig, sums, jobs, head, design, recs, files, approved>>

PublishPush(c) ==
  /\ At(c, "push")
  /\ remote' = remote \cup {calls[c].m}
  /\ IF calls[c].on THEN Return(c) ELSE Goto_(c, "pushed")
  /\ UNCHANGED <<mig, sums, jobs, head, design, recs, files, approved>>

PublishWrite(c) ==
  /\ At(c, "pushed")
  /\ UpdateState(calls[c].m, "PUSHED")
  /\ Return(c)
  /\ OnlyMig /\ UNCHANGED approved

-----------------------------------------------------------------------------

\* The call ends without its next write: the store or an external call fails,
\* or the service process dies. A failed adopt or dispatch rolls back instead
\* (StartAdopt, StartDispatchFails), and a rollback that fails is ignored.
CallFails(c) ==
  /\ calls[c].pc # "idle"
  /\ \/ "crash" \in Faults
     \/ "stage" \in Faults /\ At(c, "push")
     \/ "io" \in Faults /\ calls[c].pc \notin {"dispatch", "dispatched", "adopt"}
  /\ Return(c)
  /\ UNCHANGED storeVars /\ UNCHANGED approved

ServiceTypeOK ==
  /\ calls \in [Callers -> Call]
  /\ approved \in SUBSET Migrations

ServiceInit ==
  /\ calls = [c \in Callers |-> Idle]
  /\ approved = {}

\* A client issues an RPC whose checks pass.
ClientStep ==
  \/ \E m \in Migrations, d \in Drafts : CreateMigration(m, d)
  \/ \E c \in Callers : RunAnalysis(c)
  \/ \E c \in Callers, m \in Migrations :
       \/ DeleteMigration(c, m)
       \/ StartMigration(c, m)
       \/ StartWithReuse(c, m)
       \/ \E f \in Filters : ApproveDesign(c, m, f)
       \/ RejectDesign(c, m)
       \/ CancelMigration(c, m)
       \/ \E v \in Verdicts \ {"none"} : AssessMigrability(c, m, v)
       \/ \E b \in BOOLEAN : SetOverride(c, m, b)
       \/ GenerateRestructuringRoadmap(c, m)
       \/ EnrichRoadmap(c, m)
       \/ GenerateBlueprint(c, m)
       \/ PublishMigration(c, m)

\* The service continues a call: fair, since the handler runs to its end.
CallStep(c) ==
  \/ DeleteWrite(c)
  \/ StartAnalyzing(c)
  \/ \E s \in SummaryIds : StartDispatch(c, s)
  \/ StartDispatchFails(c)
  \/ StartDispatched(c)
  \/ StartAdopt(c)
  \/ StartRollback(c)
  \/ StartReuseEnqueue(c)
  \/ ApproveWrite(c)
  \/ ApproveEnqueue(c)
  \/ CancelWrite(c)
  \/ AssessWrite(c)
  \/ OverrideWrite(c)
  \/ \E r \in Roadmaps \ {"none"} : RoadmapWrite(c, r)
  \/ EnrichWrite(c)
  \/ PublishPush(c)
  \/ PublishWrite(c)
  \/ CallFails(c)
=============================================================================
