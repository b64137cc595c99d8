------------------------- MODULE MiltonPrismDocuments -------------------------
(***************************************************************************)
(* What becomes of the documents of the migrations, for every value of the *)
(* constants: who may write one (DocumentWriters), that a deleted one is   *)
(* never written again, and that nothing is derived from a roadmap that is *)
(* not there.                                                              *)
(***************************************************************************)
EXTENDS MiltonPrismTypes

USE DEF TypeInv, TypeOK, StoreTypeOK, ServiceTypeOK

Deriving == {"enrich", "blueprint"}

\* What holds of a migration's document.
DocumentOK(m) ==
  /\ mig[m].state = "RESTRUCTURING_READY" \/ mig[m].enriched \/ mig[m].blueprint
       => mig[m].roadmap # "none"
  /\ mig[m].roadmap # "none" => mig[m].exists
  /\ mig[m].deleted => mig[m].exists

\* What a call that will store a derived document relies on.
DerivesFromRoadmap(c) ==
  calls[c].pc \in Deriving => calls[c].m \in Migrations /\ mig[calls[c].m].roadmap # "none"

DocumentsInv ==
  /\ \A m \in Migrations : DocumentOK(m)
  /\ \A c \in Callers : DerivesFromRoadmap(c)

-----------------------------------------------------------------------------
(* The writers of a document. *)

\* The document of the live migration m is replaced by d, which refers to another
\* analysis only if the write takes it to DESIGNING.
Written(m, d) ==
  /\ m \in Migrations /\ Live(m)
  /\ mig' = [mig EXCEPT ![m] = d]
  /\ d.summary = mig[m].summary \/ d.state = "DESIGNING"

\* d keeps the roadmap of m and what is derived from it,
KeepsRoadmap(m, d) ==
  /\ d.exists = mig[m].exists /\ d.roadmap = mig[m].roadmap
  /\ d.enriched = mig[m].enriched /\ d.blueprint = mig[m].blueprint
  /\ d.state = mig[m].state \/ d.state # "RESTRUCTURING_READY"

\* or brings one,
TakesRoadmap(m, d) == d.exists = mig[m].exists /\ d.roadmap # "none"

\* or is what a call derived from it.
Derives(m, d) ==
  /\ d.exists = mig[m].exists /\ d.roadmap = mig[m].roadmap
  /\ \E c \in Callers : calls[c].pc \in Deriving /\ calls[c].m = m

\* The three forms of a write to a live document.
Rewritten(m) ==
  \E d : Written(m, d) /\ (KeepsRoadmap(m, d) \/ TakesRoadmap(m, d) \/ Derives(m, d))

\* A write of the state alone is one to a live document that keeps its roadmap.
LEMMA StateWritten ==
  ASSUME TypeInv, NEW m \in MigrationRef, NEW st, Live(m), st # "RESTRUCTURING_READY",
         mig' = [mig EXCEPT ![m].state = st]
  PROVE  Rewritten(m)
<1> DEFINE d == [mig[m] EXCEPT !.state = st]
<1>1. m \in Migrations
  BY LiveIsMigration
<1>2. KeepsRoadmap(m, d) /\ d.summary = mig[m].summary
  BY <1>1 DEF KeepsRoadmap, MigrationDoc
<1>3. mig' = [mig EXCEPT ![m] = d]
  OBVIOUS
<1> HIDE DEF d
<1> QED  BY <1>1, <1>2, <1>3 DEF Rewritten, Written

\* UpdateState of the service.
LEMMA UpdateStateWrites ==
  ASSUME TypeInv, NEW m \in MigrationRef, NEW st, UpdateState(m, st),
         st # "RESTRUCTURING_READY"
  PROVE  mig' = mig \/ Rewritten(m)
BY StateWritten DEF UpdateState

\* The writes of one field that belongs to neither roadmap nor state.
LEMMA FieldWrites ==
  ASSUME TypeInv, NEW m \in MigrationRef, NEW v, NEW b,
         SoftDelete(m) \/ SetMigrabilityAssessment(m, v) \/ SetMigrabilityOverride(m, b)
  PROVE  mig' = mig \/ Rewritten(m)
<1>1. CASE ~Live(m)
  BY <1>1 DEF SoftDelete, SetMigrabilityAssessment, SetMigrabilityOverride
<1>2. CASE Live(m)
  <2> DEFINE d1 == [mig[m] EXCEPT !.deleted = TRUE]
             d2 == [mig[m] EXCEPT !.verdict = v]
             d3 == [mig[m] EXCEPT !.override = b]
  <2>1. m \in Migrations
    BY <1>2, LiveIsMigration
  <2>2. /\ KeepsRoadmap(m, d1) /\ KeepsRoadmap(m, d2) /\ KeepsRoadmap(m, d3)
        /\ d1.summary = mig[m].summary /\ d2.summary = mig[m].summary
        /\ d3.summary = mig[m].summary
    BY <2>1 DEF KeepsRoadmap, MigrationDoc
  <2>3. \/ mig' = [mig EXCEPT ![m] = d1]
        \/ mig' = [mig EXCEPT ![m] = d2]
        \/ mig' = [mig EXCEPT ![m] = d3]
    BY <1>2 DEF SoftDelete, SetMigrabilityAssessment, SetMigrabilityOverride
  <2> HIDE DEF d1, d2, d3
  <2> QED  BY <1>2, <2>1, <2>2, <2>3 DEF Rewritten, Written
<1> QED  BY <1>1, <1>2

\* The advance of the analysis worker and the adoption of an analysis.
LEMMA AdvanceWrites ==
  ASSUME TypeInv, NEW m \in MigrationRef, NEW s, NEW b,
         AdvanceToDesigning(m, s, b) \/ AdoptAnalysis(m, s)
  PROVE  mig' = mig \/ Rewritten(m)
<1>1. CASE ~Live(m)
  BY <1>1 DEF AdvanceToDesigning, AdoptAnalysis, CanAdopt
<1>2. CASE Live(m)
  <2> DEFINE d1 == [mig[m] EXCEPT !.state = "DESIGNING", !.summary = s, !.reused = @ \/ b]
             d2 == [mig[m] EXCEPT !.state = "DESIGNING", !.summary = s, !.reused = TRUE]
  <2>1. m \in Migrations
    BY <1>2, LiveIsMigration
  <2>2. /\ KeepsRoadmap(m, d1) /\ KeepsRoadmap(m, d2)
        /\ d1.state = "DESIGNING" /\ d2.state = "DESIGNING"
    BY <2>1 DEF KeepsRoadmap, MigrationDoc
  <2>3. \/ mig' = mig
        \/ mig' = [mig EXCEPT ![m] = d1]
        \/ mig' = [mig EXCEPT ![m] = d2]
    BY <1>2, <2>1 DEF AdvanceToDesigning, AdoptAnalysis
  <2> HIDE DEF d1, d2
  <2> QED  BY <1>2, <2>1, <2>2, <2>3 DEF Rewritten, Written
<1> QED  BY <1>1, <1>2

\* The plan of the decomposition worker.
LEMMA PlanWrites ==
  ASSUME TypeInv, NEW m \in MigrationRef, NEW svcs, Live(m), StorePlan(m, svcs)
  PROVE  Rewritten(m)
<1> DEFINE d == [mig[m] EXCEPT !.state = "AWAITING_APPROVAL", !.planned = TRUE, !.services = svcs]
<1>1. m \in Migrations
  BY LiveIsMigration
<1>2. KeepsRoadmap(m, d) /\ d.summary = mig[m].summary
  BY <1>1 DEF KeepsRoadmap, MigrationDoc
<1>3. mig' = [mig EXCEPT ![m] = d]
  BY <1>1 DEF StorePlan
<1> HIDE DEF d
<1> QED  BY <1>1, <1>2, <1>3 DEF Rewritten, Written

\* The roadmap itself.
LEMMA RoadmapWrites ==
  ASSUME TypeInv, NEW m \in MigrationRef, NEW r, r # "none", SetRestructuringRoadmap(m, r)
  PROVE  mig' = mig \/ Rewritten(m)
<1>1. CASE Live(m) /\ mig[m].state = "AWAITING_APPROVAL"
  <2> DEFINE d == [mig[m] EXCEPT !.state = "RESTRUCTURING_READY", !.roadmap = r]
  <2>1. m \in Migrations
    BY <1>1, LiveIsMigration
  <2>2. TakesRoadmap(m, d) /\ d.summary = mig[m].summary
    BY <2>1 DEF TakesRoadmap, MigrationDoc
  <2>3. mig' = [mig EXCEPT ![m] = d]
    BY <1>1, <2>1 DEF SetRestructuringRoadmap
  <2> HIDE DEF d
  <2> QED  BY <1>1, <2>1, <2>2, <2>3 DEF Rewritten, Written
<1> QED  BY <1>1 DEF SetRestructuringRoadmap

\* The documents derived from it, stored by a call that began with one.
LEMMA DerivedWrites ==
  ASSUME TypeInv, NEW c \in Callers, calls[c].pc \in Deriving,
         SetRoadmapEnrichment(calls[c].m) \/ SetServiceBlueprint(calls[c].m)
  PROVE  mig' = mig \/ Rewritten(calls[c].m)
<1>0. PICK m \in MigrationRef : m = calls[c].m
  BY DEF Call
<1>1. CASE ~Live(m)
  BY <1>0, <1>1 DEF SetRoadmapEnrichment, SetServiceBlueprint
<1>2. CASE Live(m)
  <2> DEFINE d1 == [mig[m] EXCEPT !.enriched = TRUE]
             d2 == [mig[m] EXCEPT !.blueprint = TRUE]
  <2>1. m \in Migrations
    BY <1>2, LiveIsMigration
  <2>2. /\ Derives(m, d1) /\ Derives(m, d2)
        /\ d1.summary = mig[m].summary /\ d2.summary = mig[m].summary
    BY <1>0, <2>1 DEF Derives, MigrationDoc
  <2>3. mig' = [mig EXCEPT ![m] = d1] \/ mig' = [mig EXCEPT ![m] = d2]
    BY <1>0, <1>2 DEF SetRoadmapEnrichment, SetServiceBlueprint
  <2> HIDE DEF d1, d2
  <2> QED  BY <1>0, <1>2, <2>1, <2>2, <2>3 DEF Rewritten, Written
<1> QED  BY <1>1, <1>2

\* A migration that was not stored yet is created.
Created(m) ==
  /\ m \in Migrations /\ ~mig[m].exists
  /\ \E d \in Drafts : mig' = [mig EXCEPT ![m] = NewMigration(d)]

\* Every write to a document, by an RPC or by a worker, is one to a live document
\* that keeps its roadmap, brings it or is derived from it, or creates it.
LEMMA DocumentWriters ==
  ASSUME TypeInv, [Next]_vars
  PROVE  mig' = mig \/ \E m \in MigrationRef : Created(m) \/ Rewritten(m)
<1>0. /\ \A c \in Callers : calls[c].m \in MigrationRef
      /\ \A j \in JobIds : jobs[j].m \in MigrationRef
      /\ Migrations \subseteq MigrationRef
  BY StoreAssumption DEF Call, Job, Migrations, MigrationRef
<1>1. CASE ClientStep
  <2>1. ASSUME NEW m \in Migrations, NEW d \in Drafts, CreateMigration(m, d)
        PROVE  Created(m)
    BY <2>1 DEF CreateMigration, Created
  <2>2. ASSUME NEW c \in Callers, NEW m \in Migrations,
               \/ DeleteMigration(c, m) \/ StartMigration(c, m) \/ StartWithReuse(c, m)
               \/ RejectDesign(c, m) \/ CancelMigration(c, m)
               \/ GenerateRestructuringRoadmap(c, m) \/ EnrichRoadmap(c, m)
               \/ GenerateBlueprint(c, m) \/ PublishMigration(c, m)
        PROVE  mig' = mig
    BY <2>2 DEF DeleteMigration, StartMigration, StartWithReuse, RejectDesign,
         CancelMigration, GenerateRestructuringRoadmap, EnrichRoadmap, GenerateBlueprint,
         PublishMigration, storeVars
  <2>3. ASSUME NEW c \in Callers, NEW m \in Migrations, NEW a,
               ApproveDesign(c, m, a) \/ AssessMigrability(c, m, a) \/ SetOverride(c, m, a)
        PROVE  mig' = mig
    BY <2>3 DEF ApproveDesign, AssessMigrability, SetOverride, storeVars
  <2>4. ASSUME NEW c \in Callers, RunAnalysis(c)
        PROVE  mig' = mig
    BY <2>4 DEF RunAnalysis, storeVars
  <2> QED  BY <1>0, <1>1, <2>1, <2>2, <2>3, <2>4 DEF ClientStep
<1>2. ASSUME NEW c \in Callers, CallStep(c)
      PROVE  mig' = mig \/ Rewritten(calls[c].m)
  <2>1. CASE DeleteWrite(c) \/ AssessWrite(c) \/ OverrideWrite(c)
    BY <1>0, <2>1, FieldWrites DEF DeleteWrite, AssessWrite, OverrideWrite
  <2>2. CASE \/ StartAnalyzing(c) \/ StartRollback(c) \/ ApproveWrite(c) \/ CancelWrite(c)
             \/ PublishWrite(c)
    BY <1>0, <2>2, UpdateStateWrites
       DEF StartAnalyzing, StartRollback, ApproveWrite, CancelWrite, PublishWrite
  <2>3. CASE StartAdopt(c)
    BY <1>0, <2>3, AdvanceWrites DEF StartAdopt
  <2>4. CASE \E r \in Roadmaps \ {"none"} : RoadmapWrite(c, r)
    BY <1>0, <2>4, RoadmapWrites DEF RoadmapWrite
  <2>5. CASE EnrichWrite(c)
    BY <2>5, DerivedWrites DEF EnrichWrite, At, Deriving
  <2>6. CASE \/ (\E s \in SummaryIds : StartDispatch(c, s)) \/ StartDispatchFails(c)
             \/ StartDispatched(c) \/ StartReuseEnqueue(c) \/ ApproveEnqueue(c)
             \/ PublishPush(c) \/ CallFails(c)
    BY <2>6 DEF StartDispatch, StartDispatchFails, StartDispatched, StartReuseEnqueue,
         ApproveEnqueue, PublishPush, CallFails, OnlyJobs, storeVars
  <2> QED  BY <1>2, <2>1, <2>2, <2>3, <2>4, <2>5, <2>6 DEF CallStep
<1>3. ASSUME NEW j \in JobIds, WorkerStep(j)
      PROVE  mig' = mig \/ Rewritten(jobs[j].m)
  <2>1. CASE ReuseMigration(j) \/ WriteMigration(j)
    BY <1>0, <2>1, AdvanceWrites DEF ReuseMigration, WriteMigration
  <2>2. CASE MarkMigrationFailed(j) \/ MarkDesignFailed(j)
    BY <1>0, <2>2, StateWritten DEF MarkMigrationFailed, MarkDesignFailed
  <2>3. CASE WritePlan(j)
    BY <1>0, <2>3, PlanWrites DEF WritePlan
  <2>4. CASE SetFinalState(j)
    <3> DEFINE st == IF jobs[j].pc = "mark_ready" THEN "READY" ELSE "FAILED"
    <3>1. mig' = [mig EXCEPT ![jobs[j].m].state = st] /\ st # "RESTRUCTURING_READY" /\ Live(jobs[j].m)
      BY <2>4 DEF SetFinalState
    <3> HIDE DEF st
    <3> QED  BY <1>0, <3>1, StateWritten
  <2>5. CASE AnalysisStep(j) /\ ~(ReuseMigration(j) \/ WriteMigration(j) \/ MarkMigrationFailed(j))
    BY <2>5 DEF AnalysisStep, DedupHit, DedupMiss, ReuseLink, ReuseClose, AcquireAndAnalyze,
         WriteSummary, EnqueueDecompose, AnalysisFails, MarkSummaryFailed, OnlyJobs, JobsAndSums
  <2>6. CASE DecompositionStep(j) /\ ~(WritePlan(j) \/ MarkDesignFailed(j))
    BY <2>6 DEF DecompositionStep, Decompose, UpsertArtifact, ArtifactsEnd,
         DecompositionFails, OnlyJobs
  <2>7. CASE GenerationStep(j) /\ ~SetFinalState(j)
    BY <2>7 DEF GenerationStep, ReadPackage, SkipIncomplete, StartService, FinishService,
         SaveFiles, Decide, GenerationFails, OnlyJobs
  <2>8. CASE Ack(j)
    BY <2>8 DEF Ack, OnlyJobs
  <2> QED  BY <1>3, <2>1, <2>2, <2>3, <2>4, <2>5, <2>6, <2>7, <2>8 DEF WorkerStep
<1>4. CASE \/ \E j \in JobIds : WorkerCrash(j) /\ UNCHANGED serviceVars
           \/ SourcePush /\ UNCHANGED serviceVars
           \/ UNCHANGED vars
  BY <1>4 DEF WorkerCrash, SourcePush, OnlyJobs, vars, storeVars
<1> QED  BY <1>0, <1>1, <1>2, <1>3, <1>4 DEF Next

\* Whoever gives a migration another analysis takes it to DESIGNING.
LEMMA LinkWriters ==
  ASSUME TypeInv, [Next]_vars, NEW m \in Migrations, mig[m].exists,
         mig'[m].summary # mig[m].summary
  PROVE  mig'[m].state = "DESIGNING"
<1>1. PICK n \in MigrationRef : Created(n) \/ Rewritten(n)
  BY DocumentWriters
<1>2. n = m
  BY <1>1 DEF Created, Rewritten, Written
<1>3. PICK d : Written(m, d)
  BY <1>1, <1>2 DEF Created, Rewritten
<1> QED  BY <1>3 DEF Written

\* A call comes to derive only by the checks of EnrichRoadmap and GenerateBlueprint.
LEMMA DerivingCalls ==
  ASSUME TypeInv, [Next]_vars, NEW c \in Callers, calls'[c].pc \in Deriving
  PROVE  \/ calls'[c] = calls[c]
         \/ calls'[c].m \in Migrations /\ mig[calls'[c].m].roadmap = "steps" /\ mig' = mig
<1> USE DEF Deriving
<1>1. CASE calls' = calls
  BY <1>1
<1>2. ASSUME NEW e \in Callers, NEW pc, NEW m, Proceed(e, pc, m)
      PROVE  /\ \A f \in Callers \ {e} : calls'[f] = calls[f]
             /\ calls'[e].pc = pc /\ calls'[e].m = m
  BY <1>2 DEF Proceed, Idle
<1>3. ASSUME NEW e \in Callers, NEW m \in Migrations,
             EnrichRoadmap(e, m) \/ GenerateBlueprint(e, m)
      PROVE  \/ calls'[c] = calls[c]
             \/ calls'[c].m \in Migrations /\ mig[calls'[c].m].roadmap = "steps" /\ mig' = mig
  BY <1>2, <1>3 DEF EnrichRoadmap, GenerateBlueprint, HasRoadmapSteps, storeVars
<1>4. ASSUME NEW e \in Callers, NEW k, calls' = [calls EXCEPT ![e] = k], k.pc \notin Deriving
      PROVE  calls'[c] = calls[c]
  BY <1>4
<1>5. ASSUME NEW e \in Callers, NEW pc, Goto_(e, pc), pc \notin Deriving
      PROVE  calls'[c] = calls[c]
  BY <1>5 DEF Goto_, Call
<1>6. Idle.pc \notin Deriving
  BY DEF Idle
<1>7. CASE ClientStep
  <2>1. ASSUME NEW e \in Callers, NEW m \in Migrations,
               \/ DeleteMigration(e, m) \/ StartMigration(e, m) \/ RejectDesign(e, m)
               \/ CancelMigration(e, m) \/ GenerateRestructuringRoadmap(e, m)
        PROVE  calls'[c] = calls[c]
    BY <1>2, <2>1 DEF DeleteMigration, StartMigration, RejectDesign, CancelMigration,
         GenerateRestructuringRoadmap
  <2>2. ASSUME NEW e \in Callers, NEW m \in Migrations, NEW a,
               \/ StartWithReuse(e, m) \/ ApproveDesign(e, m, a)
               \/ AssessMigrability(e, m, a) \/ SetOverride(e, m, a)
        PROVE  calls'[c] = calls[c]
    <3>1. CASE StartWithReuse(e, m)
      BY <3>1 DEF StartWithReuse, Idle
    <3>2. CASE ApproveDesign(e, m, a)
      BY <3>2 DEF ApproveDesign, Idle
    <3>3. CASE AssessMigrability(e, m, a)
      BY <3>3 DEF AssessMigrability, Idle
    <3>4. CASE SetOverride(e, m, a)
      BY <3>4 DEF SetOverride, Idle
    <3> QED  BY <2>2, <3>1, <3>2, <3>3, <3>4
  <2>3. ASSUME NEW e \in Callers, NEW m \in Migrations, PublishMigration(e, m)
        PROVE  calls'[c] = calls[c]
    BY <2>3 DEF PublishMigration, Idle
  <2>4. ASSUME NEW e \in Callers, RunAnalysis(e)
        PROVE  calls'[c] = calls[c]
    BY <1>2, <2>4 DEF RunAnalysis
  <2>5. ASSUME NEW m \in Migrations, NEW d \in Drafts, CreateMigration(m, d)
        PROVE  calls'[c] = calls[c]
    BY <2>5 DEF CreateMigration, serviceVars
  <2> QED  BY <1>3, <1>7, <2>1, <2>2, <2>3, <2>4, <2>5 DEF ClientStep
<1>8. ASSUME NEW e \in Callers, CallStep(e)
      PROVE  calls'[c] = calls[c]
  <2>0. ASSUME Return(e) PROVE calls'[c] = calls[c]
    BY <1>4, <1>6, <2>0 DEF Return
  <2>1. CASE \/ DeleteWrite(e) \/ StartRollback(e) \/ StartReuseEnqueue(e) \/ ApproveEnqueue(e)
             \/ CancelWrite(e) \/ AssessWrite(e) \/ OverrideWrite(e) \/ EnrichWrite(e)
             \/ (\E r \in Roadmaps \ {"none"} : RoadmapWrite(e, r)) \/ PublishWrite(e)
             \/ CallFails(e)
    <3>1. Return(e)
      BY <2>1 DEF DeleteWrite, StartRollback, StartReuseEnqueue, ApproveEnqueue, CancelWrite,
           AssessWrite, OverrideWrite, EnrichWrite, RoadmapWrite, PublishWrite, CallFails
    <3> QED  BY <2>0, <3>1
  <2>2. CASE StartDispatchFails(e) \/ StartDispatched(e) \/ StartAdopt(e) \/ ApproveWrite(e)
             \/ PublishPush(e) \/ StartAnalyzing(e)
    <3>1. \/ Return(e) \/ Goto_(e, "rollback") \/ Goto_(e, "reuse_enqueue")
          \/ Goto_(e, "approve_enqueue") \/ Goto_(e, "pushed")
          \/ Goto_(e, IF At(e, "analyzing") THEN "dispatch" ELSE "adopt")
      BY <2>2 DEF StartDispatchFails, StartDispatched, StartAdopt, ApproveWrite, PublishPush,
           StartAnalyzing
    <3> QED  BY <1>5, <2>0, <3>1
  <2>3. CASE \E s \in SummaryIds : StartDispatch(e, s)
    BY <2>3 DEF StartDispatch, Call
  <2> QED  BY <1>8, <2>1, <2>2, <2>3 DEF CallStep
<1>9. CASE \/ \E j \in JobIds : WorkerStep(j)
           \/ \E j \in JobIds : WorkerCrash(j) /\ UNCHANGED serviceVars
           \/ SourcePush /\ UNCHANGED serviceVars
           \/ UNCHANGED vars
  BY <1>1, <1>9 DEF WorkerStep, serviceVars, vars
<1> QED  BY <1>7, <1>8, <1>9 DEF Next

-----------------------------------------------------------------------------
(* The theorems. *)

\* There is no document, and no call, at first.
LEMMA InitDocuments == Init => DocumentsInv
<1> SUFFICES ASSUME Init PROVE DocumentsInv
  OBVIOUS
<1>1. \A m \in Migrations : DocumentOK(m)
  BY DEF Init, StoreInit, NoMigration, NewMigration, EmptyDraft, DocumentOK
<1>2. \A c \in Callers : DerivesFromRoadmap(c)
  BY DEF Init, ServiceInit, Idle, DerivesFromRoadmap, Deriving
<1> QED  BY <1>1, <1>2 DEF DocumentsInv

\* Every step keeps the documents in order; a roadmap is never taken back.
LEMMA NextDocuments == TypeInv /\ DocumentsInv /\ [Next]_vars => DocumentsInv'
<1> SUFFICES ASSUME TypeInv, DocumentsInv, [Next]_vars PROVE DocumentsInv'
  OBVIOUS
<1>1. ASSUME NEW m \in Migrations
      PROVE  DocumentOK(m)' /\ (mig[m].roadmap # "none" => mig'[m].roadmap # "none")
  <2>0. DocumentOK(m) /\ \A c \in Callers : DerivesFromRoadmap(c)
    BY DEF DocumentsInv
  <2>1. CASE mig'[m] = mig[m]
    BY <2>0, <2>1 DEF DocumentOK
  <2>2. CASE Created(m)
    <3>1. PICK d \in Drafts : mig' = [mig EXCEPT ![m] = NewMigration(d)]
      BY <2>2 DEF Created
    <3>2. mig'[m] = NewMigration(d)
      BY <3>1
    <3>3. d.enriched \/ d.blueprint => d.roadmap # "none"
      BY DraftsAssumption
    <3> QED  BY <2>0, <2>2, <3>2, <3>3 DEF DocumentOK, Created, NewMigration
  <2>3. CASE Rewritten(m)
    <3>1. PICK d : /\ Written(m, d)
                   /\ KeepsRoadmap(m, d) \/ TakesRoadmap(m, d) \/ Derives(m, d)
      BY <2>3 DEF Rewritten
    <3>2. mig'[m] = d /\ mig[m].exists
      BY <3>1 DEF Written, Live
    <3>3. CASE KeepsRoadmap(m, d)
      BY <2>0, <3>2, <3>3 DEF KeepsRoadmap, DocumentOK
    <3>4. CASE TakesRoadmap(m, d)
      BY <3>2, <3>4 DEF TakesRoadmap, DocumentOK
    <3>5. CASE Derives(m, d)
      BY <2>0, <3>2, <3>5 DEF Derives, DerivesFromRoadmap, DocumentOK
    <3> QED  BY <3>1, <3>3, <3>4, <3>5
  <2>4. \A n : n # m /\ (Created(n) \/ Rewritten(n)) => mig'[m] = mig[m]
    BY DEF Created, Rewritten, Written
  <2> QED  BY <2>1, <2>2, <2>3, <2>4, DocumentWriters
<1>2. ASSUME NEW c \in Callers PROVE DerivesFromRoadmap(c)'
  <2>1. CASE calls'[c].pc \notin Deriving
    BY <2>1 DEF DerivesFromRoadmap
  <2>2. CASE calls'[c].pc \in Deriving
    BY <1>1, <2>2, DerivingCalls DEF DerivesFromRoadmap, DocumentsInv
  <2> QED  BY <2>1, <2>2
<1> QED  BY <1>1, <1>2 DEF DocumentsInv

\* The documents are in order throughout.
LEMMA DocumentsInvariant == Spec => [](TypeInv /\ DocumentsInv)
<1>1. Init => TypeInv /\ DocumentsInv
  BY InitType, InitDocuments
<1>2. TypeInv /\ DocumentsInv /\ [Next]_vars => (TypeInv /\ DocumentsInv)'
  BY NextType, NextDocuments
<1> QED  BY <1>1, <1>2, PTL DEF Spec

\* RoadmapBeforeDerived for any number of clients, migrations and tasks: the
\* enrichment and the blueprint are stored without a look at the document they
\* were derived from, and still never stand without its roadmap.
THEOREM DerivedHaveARoadmap == Spec => []RoadmapBeforeDerived
<1>1. DocumentsInv => RoadmapBeforeDerived
  BY DEF DocumentsInv, DocumentOK, RoadmapBeforeDerived
<1> QED  BY <1>1, DocumentsInvariant, PTL

\* DeletedIsFrozen: no RPC in flight and no task, retry or duplicate of one ever
\* writes the document of a deleted migration, because each of the dozen writes
\* filters by delete_time.
THEOREM DeletedStaysFrozen == Spec => DeletedIsFrozen
<1>1. TypeInv /\ DocumentsInv /\ [Next]_vars =>
        [\A m \in Migrations : mig[m].deleted => mig'[m] = mig[m]]_vars
  <2> SUFFICES ASSUME TypeInv, DocumentsInv, [Next]_vars, NEW m \in Migrations, mig[m].deleted
               PROVE  mig'[m] = mig[m]
    OBVIOUS
  <2>1. mig[m].exists
    BY DEF DocumentsInv, DocumentOK
  <2>2. ~Created(m) /\ ~Rewritten(m)
    BY <2>1 DEF Created, Rewritten, Written, Live
  <2>3. \A n : n # m /\ (Created(n) \/ Rewritten(n)) => mig'[m] = mig[m]
    BY DEF Created, Rewritten, Written
  <2> QED  BY <2>2, <2>3, DocumentWriters
<1> QED  BY <1>1, DocumentsInvariant, PTL DEF Spec, DeletedIsFrozen
=============================================================================
