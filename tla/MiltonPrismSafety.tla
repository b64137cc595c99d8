-------------------------- MODULE MiltonPrismSafety --------------------------
(***************************************************************************)
(* Safety of MiltonPrism, for every value of its constants.                *)
(*                                                                         *)
(* The invariant Inv says of every migration document, of what was         *)
(* generated for it, of every call and of every task what the safety       *)
(* properties need. It is kept because the facts that a call or a task     *)
(* relies on only ever grow (Grows), whoever takes the step; each action   *)
(* then only answers for the one document, call and task it writes.        *)
(***************************************************************************)
EXTENDS MiltonPrismDocuments

\* What holds of the document of migration m.
DocOK(m) ==
  /\ mig[m].state = "DESIGNING" \/ mig[m].reused => Completed(mig[m].summary)
  /\ mig[m].state \in {"AWAITING_APPROVAL", "GENERATING", "READY", "PUSHED",
                       "RESTRUCTURING_READY"} => mig[m].planned
  /\ mig[m].planned => mig[m].exists
  /\ mig[m].state \in {"GENERATING", "READY", "PUSHED"} => m \in approved
  /\ mig[m].state = "PUSHED" => m \in remote

\* What holds of the output of migration m.
OutputOK(m) ==
  /\ files[m] # {} => m \in approved
  /\ m \in remote => m \in approved
  /\ \A x \in Services : recs[m][x] # "none" => m \in approved /\ design[m][x] # "none"

Inv ==
  /\ \A m \in Migrations : DocOK(m)
  /\ \A m \in Migrations : OutputOK(m)
  /\ InFlightIsJustified

\* The facts that calls and tasks rely on are never taken back.
Grows ==
  /\ \A s \in SummaryIds : sums[s].state # "none" => sums'[s].state # "none"
  /\ \A s \in SummaryIds : sums[s].state = "COMPLETED" => sums'[s].state = "COMPLETED"
  /\ \A m \in Migrations : mig[m].planned => mig'[m].planned
  /\ approved \subseteq approved'
  /\ remote \subseteq remote'
  /\ \A m \in Migrations, x \in Services : design[m][x] # "none" => design'[m][x] # "none"

USE DEF TypeInv, TypeOK, StoreTypeOK, ServiceTypeOK

-----------------------------------------------------------------------------
(* Frames: what is not written stays justified.                            *)

\* A call that is not touched stays justified.
LEMMA CallFrame ==
  ASSUME TypeInv, Inv, Grows, NEW c \in Callers, calls'[c] = calls[c]
  PROVE  CallIsJustified(calls[c])'
<1>1. CallIsJustified(calls[c])
  BY DEF Inv, InFlightIsJustified
<1>2. /\ Completed(calls[c].s) => Completed(calls[c].s)'
      /\ Stored(calls[c].s) => Stored(calls[c].s)'
  BY DEF Grows, Completed, Stored
<1>3. Cleared(calls[c].m) => Cleared(calls[c].m)'
  BY DEF Grows, Cleared
<1> QED
  BY <1>1, <1>2, <1>3 DEF Grows, CallIsJustified

\* A task that is not touched stays justified.
LEMMA JobFrame ==
  ASSUME TypeInv, Inv, Grows, NEW j \in JobIds, jobs'[j] = jobs[j]
  PROVE  JobIsJustified(jobs[j])'
<1>0. /\ jobs[j].todo \in SUBSET Services /\ jobs[j].busy \in SUBSET Services
      /\ jobs[j].saving \in SUBSET Services
  BY DEF Job
<1>1. JobIsJustified(jobs[j])
  BY DEF Inv, InFlightIsJustified
<1>2. /\ Completed(jobs[j].s) => Completed(jobs[j].s)'
      /\ Completed(jobs[j].ref) => Completed(jobs[j].ref)'
      /\ Stored(jobs[j].s) => Stored(jobs[j].s)'
      /\ Stored(jobs[j].ref) => Stored(jobs[j].ref)'
  BY DEF Grows, Completed, Stored
<1>3. Cleared(jobs[j].m) => Cleared(jobs[j].m)'
  BY DEF Grows, Cleared
<1>4. Cleared(jobs[j].m) => jobs[j].m \in Migrations
  BY DEF Cleared
<1>5. \A x \in jobs[j].todo \cup jobs[j].busy \cup jobs[j].saving :
        jobs[j].m \in Migrations /\ design[jobs[j].m][x] # "none" => design'[jobs[j].m][x] # "none"
  BY <1>0 DEF Grows
<1> QED
  BY <1>1, <1>2, <1>3, <1>4, <1>5 DEF JobIsJustified

\* A document that is not touched stays in order.
LEMMA DocFrame ==
  ASSUME TypeInv, Inv, Grows, NEW m \in Migrations, mig'[m] = mig[m]
  PROVE  DocOK(m)'
<1>1. DocOK(m)
  BY DEF Inv
<1>2. Completed(mig[m].summary) => Completed(mig[m].summary)'
  BY DEF Grows, Completed
<1> QED
  BY <1>1, <1>2 DEF DocOK, Grows

\* Output that is not touched stays in order.
LEMMA OutputFrame ==
  ASSUME TypeInv, Inv, Grows, NEW m \in Migrations,
         files'[m] = files[m], recs'[m] = recs[m], m \in remote' => m \in remote
  PROVE  OutputOK(m)'
  BY DEF Inv, OutputOK, Grows

\* A write of the state alone, to a state the migration has earned.
LEMMA StateFrame ==
  ASSUME TypeInv, Inv, Grows, NEW m \in Migrations, NEW st \in MigrationState,
         mig' = [mig EXCEPT ![m].state = st],
         st # "DESIGNING",
         st \in {"AWAITING_APPROVAL", "GENERATING", "READY", "PUSHED",
                 "RESTRUCTURING_READY"} => mig[m].planned,
         st \in {"GENERATING", "READY", "PUSHED"} => m \in approved,
         st = "PUSHED" => m \in remote
  PROVE  \A n \in Migrations : DocOK(n)'
<1> TAKE n \in Migrations
<1>1. CASE n # m
  BY <1>1, DocFrame
<1>2. CASE n = m
  <2>1. DocOK(m)
    BY DEF Inv
  <2>2. /\ mig'[m].state = st /\ mig'[m].summary = mig[m].summary
        /\ mig'[m].planned = mig[m].planned /\ mig'[m].exists = mig[m].exists
        /\ mig'[m].reused = mig[m].reused
    BY DEF MigrationDoc
  <2>3. Completed(mig[m].summary) => Completed(mig[m].summary)'
    BY DEF Grows, Completed
  <2> QED
    BY <1>2, <2>1, <2>2, <2>3 DEF DocOK, Grows
<1> QED
  BY <1>1, <1>2

\* Everything in order but, perhaps, what a step wrote: that must be shown.
LEMMA FromParts ==
  ASSUME TypeInv, Inv, Grows,
         \A m \in Migrations : mig'[m] = mig[m] \/ DocOK(m)',
         \A m \in Migrations :
           \/ files'[m] = files[m] /\ recs'[m] = recs[m] /\ (m \in remote' => m \in remote)
           \/ OutputOK(m)',
         \A c \in Callers : calls'[c] = calls[c] \/ CallIsJustified(calls[c])',
         \A j \in JobIds : jobs'[j] = jobs[j] \/ JobIsJustified(jobs[j])'
  PROVE  Inv'
<1>1. \A m \in Migrations : DocOK(m)'
  BY DocFrame
<1>2. \A m \in Migrations : OutputOK(m)'
  BY OutputFrame
<1>3. \A c \in Callers : CallIsJustified(calls[c])'
  BY CallFrame
<1>4. \A j \in JobIds : JobIsJustified(jobs[j])'
  BY JobFrame
<1> QED
  BY <1>1, <1>2, <1>3, <1>4 DEF Inv, InFlightIsJustified

-----------------------------------------------------------------------------
(* What the operations on tasks do to the fields that matter here.         *)

\* Goto moves the task and changes nothing else.
LEMMA GotoEffect ==
  ASSUME TypeInv, NEW j \in JobIds, NEW pc, Goto(j, pc)
  PROVE  /\ \A i \in JobIds : i # j => jobs'[i] = jobs[i]
         /\ jobs'[j] = [jobs[j] EXCEPT !.pc = pc]
  BY DEF Goto

\* The fields of a task that has been moved.
LEMMA MovedFields ==
  ASSUME NEW job \in Job, NEW pc
  PROVE  LET new == [job EXCEPT !.pc = pc] IN
         /\ new.kind = job.kind /\ new.m = job.m /\ new.s = job.s /\ new.ref = job.ref
         /\ new.pc = pc /\ new.todo = job.todo /\ new.busy = job.busy
         /\ new.saving = job.saving
  BY DEF Job

\* The fields of a task as it is queued.
LEMMA NewJobFields ==
  ASSUME NEW kind, NEW m, NEW s, NEW filter
  PROVE  LET new == NewJob(kind, m, s, filter) IN
         /\ new.kind = kind /\ new.m = m /\ new.s = s /\ new.pc = "queued"
         /\ new.todo = {} /\ new.busy = {} /\ new.saving = {}
  BY DEF NewJob

\* The fields of a task that is delivered again.
LEMMA RedeliveredFields ==
  ASSUME NEW job \in Job
  PROVE  LET new == Redelivered(job) IN
         /\ new.kind = job.kind /\ new.m = job.m /\ new.s = job.s /\ new.pc = "queued"
         /\ new.todo = {} /\ new.busy = {} /\ new.saving = {}
  BY DEF Redelivered, NewJob

\* The empty slot is justified.
LEMMA NoJobJustified ==
  ASSUME NEW j \in JobIds, jobs'[j] = NoJob
  PROVE  JobIsJustified(jobs[j])'
<1>1. jobs'[j].kind = "none"
  BY NewJobFields DEF NoJob
<1> QED
  BY <1>1 DEF JobIsJustified

\* A task that keeps its kind and its migration, and takes on no new service,
\* only answers for the summaries its next step will use.
LEMMA JobKept ==
  ASSUME TypeInv, Inv, Grows, NEW j \in JobIds,
         jobs'[j].kind = jobs[j].kind, jobs'[j].m = jobs[j].m, jobs'[j].s = jobs[j].s,
         jobs'[j].todo \cup jobs'[j].busy \cup jobs'[j].saving
           \subseteq jobs[j].todo \cup jobs[j].busy \cup jobs[j].saving,
         jobs[j].kind = "analysis" =>
           /\ jobs'[j].pc \in {"reuse_migration", "reuse_link", "reuse_close"} =>
                Completed(jobs[j].ref)'
           /\ jobs'[j].pc = "write_migration" => Completed(jobs[j].s)'
           /\ jobs'[j].pc \in {"write_summary", "write_migration", "enqueue"} =>
                Stored(jobs[j].ref)'
  PROVE  JobIsJustified(jobs[j])'
<1>1. JobIsJustified(jobs[j])
  BY DEF Inv, InFlightIsJustified
<1>2. CASE jobs[j].kind = "generation"
  <2>1. Cleared(jobs[j].m)
    BY <1>1, <1>2 DEF JobIsJustified
  <2>2. Cleared(jobs[j].m)'
    BY <2>1 DEF Grows, Cleared
  <2>3. \A x \in jobs[j].todo \cup jobs[j].busy \cup jobs[j].saving : design[jobs[j].m][x] # "none"
    BY <1>1, <1>2 DEF JobIsJustified
  <2>4. /\ jobs[j].todo \in SUBSET Services /\ jobs[j].busy \in SUBSET Services
        /\ jobs[j].saving \in SUBSET Services
    BY DEF Job
  <2>5. jobs[j].m \in Migrations
    BY <2>1 DEF Cleared
  <2>6. \A x \in jobs'[j].todo \cup jobs'[j].busy \cup jobs'[j].saving :
          design'[jobs'[j].m][x] # "none"
    BY <2>3, <2>4, <2>5 DEF Grows
  <2> QED
    BY <1>2, <2>2, <2>6 DEF JobIsJustified
<1>3. CASE jobs[j].kind # "generation"
  <2>1. jobs[j].kind \in {"analysis", "decompose"} => Stored(jobs[j].s)'
    BY <1>1 DEF JobIsJustified, Stored, Grows
  <2> QED
    BY <1>3, <2>1 DEF JobIsJustified
<1> QED
  BY <1>2, <1>3

\* A failed attempt leaves a justified task: queued afresh, archived, or about to
\* mark the failure.
LEMMA FailedAttempt ==
  ASSUME TypeInv, Inv, Grows, NEW j \in JobIds,
         NEW onLast \in {"archive", "mark_summary", "mark_migration"},
         AttemptFails(j, onLast)
  PROVE  /\ \A i \in JobIds : i # j => jobs'[i] = jobs[i]
         /\ JobIsJustified(jobs[j])'
<1>0. jobs[j] \in Job
  OBVIOUS
<1>1. \A i \in JobIds : i # j => jobs'[i] = jobs[i]
  BY DEF AttemptFails
<1>2. \/ jobs'[j] = Redelivered(jobs[j])
      \/ jobs'[j] = NoJob
      \/ onLast # "archive" /\ jobs'[j] = [jobs[j] EXCEPT !.pc = onLast]
  BY DEF AttemptFails
<1>3. CASE jobs'[j] = Redelivered(jobs[j])
  BY <1>0, <1>1, <1>3, RedeliveredFields, JobKept
<1>4. CASE jobs'[j] = NoJob
  BY <1>1, <1>4, NoJobJustified
<1>5. CASE onLast # "archive" /\ jobs'[j] = [jobs[j] EXCEPT !.pc = onLast]
  <2>1. /\ jobs'[j].kind = jobs[j].kind /\ jobs'[j].m = jobs[j].m /\ jobs'[j].pc = onLast /\ jobs'[j].s = jobs[j].s
        /\ jobs'[j].todo = jobs[j].todo /\ jobs'[j].busy = jobs[j].busy
        /\ jobs'[j].saving = jobs[j].saving
    BY <1>0, <1>5, MovedFields
  <2>2. JobIsJustified(jobs[j])'
    BY <2>1, JobKept
  <2> QED
    BY <1>1, <2>2
<1> QED
  BY <1>1, <1>2, <1>3, <1>4, <1>5

-----------------------------------------------------------------------------
(* The steps of the workers.                                               *)

\* A step of a worker that moves its task and writes no document.
LEMMA QuietJobStep ==
  ASSUME TypeInv, Inv, OnlyJobs, UNCHANGED serviceVars, NEW j \in JobIds,
         \A i \in JobIds : i # j => jobs'[i] = jobs[i] \/ JobIsJustified(jobs[i])',
         Grows => JobIsJustified(jobs[j])'
  PROVE  Inv'
<1>1. Grows
  BY DEF Grows, OnlyJobs, serviceVars
<1>2. /\ mig' = mig /\ files' = files /\ recs' = recs /\ remote' = remote /\ calls' = calls
  BY DEF OnlyJobs, serviceVars
<1> QED
  BY <1>1, <1>2, FromParts

\* A step of a worker that also writes summaries or the document of a migration.
LEMMA WritingJobStep ==
  ASSUME TypeInv, Inv, Grows, UNCHANGED <<files, recs, remote>>, UNCHANGED serviceVars,
         NEW j \in JobIds,
         \A i \in JobIds : i # j => jobs'[i] = jobs[i],
         JobIsJustified(jobs[j])',
         \A m \in Migrations : mig'[m] = mig[m] \/ DocOK(m)'
  PROVE  Inv'
<1>1. files' = files /\ recs' = recs /\ remote' = remote /\ calls' = calls
  BY DEF serviceVars
<1> QED
  BY <1>1, FromParts

\* A task moved by Goto to a step that uses no summary.
LEMMA GotoJustified ==
  ASSUME TypeInv, Inv, Grows, NEW j \in JobIds, NEW pc, Goto(j, pc),
         pc \notin {"reuse_migration", "reuse_link", "reuse_close", "write_summary",
                    "write_migration", "enqueue"}
  PROVE  /\ \A i \in JobIds : i # j => jobs'[i] = jobs[i]
         /\ JobIsJustified(jobs[j])'
<1>1. jobs[j] \in Job
  OBVIOUS
<1>2. /\ \A i \in JobIds : i # j => jobs'[i] = jobs[i]
      /\ jobs'[j] = [jobs[j] EXCEPT !.pc = pc]
  BY GotoEffect
<1>3. /\ jobs'[j].kind = jobs[j].kind /\ jobs'[j].m = jobs[j].m /\ jobs'[j].pc = pc /\ jobs'[j].s = jobs[j].s
      /\ jobs'[j].todo = jobs[j].todo /\ jobs'[j].busy = jobs[j].busy
      /\ jobs'[j].saving = jobs[j].saving
  BY <1>1, <1>2, MovedFields
<1>4. JobIsJustified(jobs[j])'
  BY <1>3, JobKept
<1> QED
  BY <1>2, <1>4

\* A reuse task moved by Goto to its next step keeps its COMPLETED analysis.
LEMMA GotoReuse ==
  ASSUME TypeInv, Inv, Grows, NEW j \in JobIds, NEW pc, Goto(j, pc),
         jobs[j].kind = "analysis",
         jobs[j].pc \in {"reuse_migration", "reuse_link", "reuse_close"},
         pc \notin {"write_summary", "write_migration"}
  PROVE  /\ \A i \in JobIds : i # j => jobs'[i] = jobs[i]
         /\ JobIsJustified(jobs[j])'
<1>1. jobs[j] \in Job
  OBVIOUS
<1>2. /\ \A i \in JobIds : i # j => jobs'[i] = jobs[i]
      /\ jobs'[j] = [jobs[j] EXCEPT !.pc = pc]
  BY GotoEffect
<1>3. /\ jobs'[j].kind = jobs[j].kind /\ jobs'[j].m = jobs[j].m /\ jobs'[j].pc = pc /\ jobs'[j].s = jobs[j].s
      /\ jobs'[j].todo = jobs[j].todo /\ jobs'[j].busy = jobs[j].busy
      /\ jobs'[j].saving = jobs[j].saving /\ jobs'[j].ref = jobs[j].ref
  BY <1>1, <1>2, MovedFields
<1>4. Completed(jobs[j].ref)
  BY DEF Inv, InFlightIsJustified, JobIsJustified
<1>5. Completed(jobs[j].ref)' /\ Stored(jobs[j].ref)'
  BY <1>3, <1>4 DEF Completed, Stored, Grows
<1>6. JobIsJustified(jobs[j])'
  BY <1>3, <1>5, JobKept
<1> QED
  BY <1>2, <1>6

\* The fields of a document that the analysis worker advances.
LEMMA AdvancedFields ==
  ASSUME NEW d \in MigrationDoc, NEW s, NEW b
  PROVE  LET new == [d EXCEPT !.state = "DESIGNING", !.summary = s, !.reused = @ \/ b] IN
         /\ new.state = "DESIGNING" /\ new.summary = s
         /\ new.planned = d.planned /\ new.exists = d.exists
  BY DEF MigrationDoc

\* ANALYZING -> DESIGNING on a COMPLETED analysis leaves every document in order.
LEMMA AdvanceOK ==
  ASSUME TypeInv, Inv, NEW m \in MigrationRef, NEW s, NEW b, Completed(s),
         AdvanceToDesigning(m, s, b), sums' = sums, approved' = approved, remote' = remote,
         design' = design
  PROVE  Grows /\ \A n \in Migrations : mig'[n] = mig[n] \/ DocOK(n)'
<1>1. CASE Live(m) /\ mig[m].state = "ANALYZING"
  <2> DEFINE d == [mig[m] EXCEPT !.state = "DESIGNING", !.summary = s, !.reused = @ \/ b]
  <2>1. m \in Migrations
    BY <1>1, LiveIsMigration
  <2>2. mig' = [mig EXCEPT ![m] = d]
    BY <1>1, <2>1 DEF AdvanceToDesigning
  <2>3. mig'[m] = d /\ \A n \in Migrations : n # m => mig'[n] = mig[n]
    <3> HIDE DEF d
    <3> QED
      BY <2>1, <2>2
  <2>4. mig[m] \in MigrationDoc
    BY <2>1
  <2>5. /\ mig'[m].state = "DESIGNING" /\ mig'[m].summary = s
        /\ mig'[m].planned = mig[m].planned /\ mig'[m].exists = mig[m].exists
    BY <2>3, <2>4, AdvancedFields
  <2> HIDE DEF d
  <2>6. Grows
    BY <2>3, <2>5 DEF Grows
  <2>7. DocOK(m)
    BY <2>1 DEF Inv
  <2>8. DocOK(m)'
    BY <2>5, <2>7 DEF DocOK, Completed
  <2> QED
    BY <2>3, <2>6, <2>8
<1>2. CASE ~(Live(m) /\ mig[m].state = "ANALYZING")
  <2>1. mig' = mig
    BY <1>2 DEF AdvanceToDesigning
  <2> QED
    BY <2>1 DEF Grows
<1> QED
  BY <1>1, <1>2

\* A write of the state alone leaves every document in order when the migration
\* has earned the state.
LEMMA StateWriteOK ==
  ASSUME TypeInv, Inv, NEW m \in Migrations, NEW st \in MigrationState,
         mig' = [mig EXCEPT ![m].state = st],
         sums' = sums, approved' = approved, remote' = remote, design' = design,
         st # "DESIGNING",
         st \in {"AWAITING_APPROVAL", "GENERATING", "READY", "PUSHED",
                 "RESTRUCTURING_READY"} => mig[m].planned,
         st \in {"GENERATING", "READY", "PUSHED"} => m \in approved,
         st = "PUSHED" => m \in remote
  PROVE  Grows /\ \A n \in Migrations : DocOK(n)'
<1>1. \A n \in Migrations : mig'[n].planned = mig[n].planned
  BY DEF MigrationDoc
<1>2. Grows
  BY <1>1 DEF Grows
<1> QED
  BY <1>2, StateFrame

\* Marking a live migration FAILED needs nothing to have been earned.
LEMMA FailedWriteOK ==
  ASSUME TypeInv, Inv, NEW m \in MigrationRef, Live(m),
         mig' = [mig EXCEPT ![m].state = "FAILED"],
         sums' = sums, approved' = approved, remote' = remote, design' = design
  PROVE  Grows /\ \A n \in Migrations : DocOK(n)'
<1>1. m \in Migrations
  BY LiveIsMigration
<1> DEFINE st == "FAILED"
<1>2. st \in MigrationState
  BY StateNames
<1>3. /\ mig' = [mig EXCEPT ![m].state = st]
      /\ st # "DESIGNING" /\ st # "PUSHED" /\ st \notin {"GENERATING", "READY", "PUSHED"}
      /\ st \notin {"AWAITING_APPROVAL", "GENERATING", "READY", "PUSHED",
                    "RESTRUCTURING_READY"}
  OBVIOUS
<1> HIDE DEF st
<1> QED
  BY <1>1, <1>2, <1>3, StateWriteOK

\* Closing a summary that is RUNNING takes nothing back.
LEMMA CloseGrows ==
  ASSUME TypeInv, NEW s, MarkAnalysisFailed(s) \/ sums' = sums,
         mig' = mig, approved' = approved, remote' = remote, design' = design
  PROVE  Grows
  BY DEF MarkAnalysisFailed, Grows, SummaryDoc

\* What a queued task relies on; the queue keeps the other tasks as they are.
LEMMA EnqueuedEffect ==
  ASSUME TypeInv, NEW job, NEW js, js \in [JobIds -> Job], Enqueued(js, job)
  PROVE  \/ jobs' = js
         \/ \E k \in JobIds : /\ jobs[k].kind = "none" /\ jobs'[k] = job
                               /\ \A i \in JobIds : i # k => jobs'[i] = js[i]
  BY DEF Enqueued, FreeJob

\* A task queued for a stored analysis is justified.
LEMMA QueuedJustified ==
  ASSUME NEW j \in JobIds, NEW kind \in {"analysis", "decompose"}, NEW m, NEW s, NEW f,
         jobs'[j] = NewJob(kind, m, s, f), s \in SummaryIds, sums'[s].state # "none"
  PROVE  JobIsJustified(jobs[j])'
<1>1. jobs'[j].kind = kind /\ jobs'[j].s = s /\ jobs'[j].pc = "queued"
  BY NewJobFields
<1>2. Stored(jobs[j].s)'
  BY <1>1 DEF Stored
<1> QED
  BY <1>1, <1>2 DEF JobIsJustified

\* The steps of the analysis worker keep the invariant.
LEMMA AnalysisStepInv ==
  ASSUME TypeInv, Inv, NEW j \in JobIds, AnalysisStep(j), UNCHANGED serviceVars
  PROVE  Inv'
<1>0. /\ jobs[j] \in Job
      /\ jobs[j].m \in MigrationRef /\ jobs[j].s \in SummaryRef
      /\ jobs[j].ref \in SummaryRef
  BY DEF Job
<1>a. JobIsJustified(jobs[j])
  BY DEF Inv, InFlightIsJustified
<1>b. calls' = calls /\ approved' = approved
  BY DEF serviceVars
<1>1. CASE \E s \in SummaryIds : DedupHit(j, s)
  <2>1. PICK s \in SummaryIds : DedupHit(j, s)
    BY <1>1
  <2> DEFINE job == [jobs[j] EXCEPT !.pc = "reuse_migration", !.ref = s]
  <2>2. jobs' = [jobs EXCEPT ![j] = job]
    BY <2>1 DEF DedupHit
  <2>3. /\ job.kind = jobs[j].kind /\ job.m = jobs[j].m /\ job.s = jobs[j].s /\ job.ref = s
        /\ job.pc = "reuse_migration" /\ job.todo = jobs[j].todo /\ job.busy = jobs[j].busy
        /\ job.saving = jobs[j].saving
    BY <1>0 DEF Job
  <2> HIDE DEF job
  <2>4. jobs'[j] = job /\ \A i \in JobIds : i # j => jobs'[i] = jobs[i]
    BY <2>2
  <2>5. OnlyJobs /\ sums' = sums /\ sums[s].state = "COMPLETED"
    BY <2>1 DEF DedupHit, OnlyJobs, CoversHead, LatestCompleted
  <2>6. Completed(jobs[j].ref)'
    BY <2>3, <2>4, <2>5 DEF Completed
  <2>7. Grows => JobIsJustified(jobs[j])'
    BY <2>3, <2>4, <2>6, JobKept
  <2> QED
    BY <2>4, <2>5, <2>7, QuietJobStep
<1>2. CASE DedupMiss(j)
  <2>1. OnlyJobs /\ Goto(j, "acquire")
    BY <1>2 DEF DedupMiss
  <2> QED
    BY <2>1, GotoEffect, GotoJustified, QuietJobStep
<1>3. CASE ReuseMigration(j)
  <2>1. /\ jobs[j].kind = "analysis" /\ jobs[j].pc = "reuse_migration"
        /\ AdvanceToDesigning(jobs[j].m, jobs[j].ref, TRUE) /\ Goto(j, "reuse_link")
        /\ sums' = sums /\ design' = design /\ remote' = remote
        /\ files' = files /\ recs' = recs
    BY <1>3 DEF ReuseMigration, Running, JobsAndMig
  <2>2. Completed(jobs[j].ref)
    BY <1>a, <2>1 DEF JobIsJustified
  <2>3. Grows /\ \A n \in Migrations : mig'[n] = mig[n] \/ DocOK(n)'
    BY <1>0, <1>b, <2>1, <2>2, AdvanceOK
  <2>4. (\A i \in JobIds : i # j => jobs'[i] = jobs[i]) /\ JobIsJustified(jobs[j])'
    BY <2>1, <2>3, GotoReuse
  <2> QED
    BY <2>1, <2>3, <2>4, WritingJobStep
<1>4. CASE ReuseLink(j)
  <2>1. /\ jobs[j].kind = "analysis" /\ jobs[j].pc = "reuse_link" /\ Goto(j, "reuse_close")
        /\ mig' = mig /\ design' = design /\ remote' = remote
        /\ files' = files /\ recs' = recs
        /\ sums' = sums \/ sums' = [sums EXCEPT ![jobs[j].ref].m = jobs[j].m]
    BY <1>4 DEF ReuseLink, Running, JobsAndSums
  <2>2. \A s \in SummaryIds : sums'[s].state = sums[s].state
    BY <2>1 DEF SummaryDoc
  <2>3. Grows
    BY <1>b, <2>1, <2>2 DEF Grows
  <2>4. (\A i \in JobIds : i # j => jobs'[i] = jobs[i]) /\ JobIsJustified(jobs[j])'
    BY <2>1, <2>3, GotoReuse
  <2> QED
    BY <2>1, <2>3, <2>4, WritingJobStep
<1>5. CASE ReuseClose(j)
  <2>1. /\ jobs[j].kind = "analysis" /\ jobs[j].pc = "reuse_close" /\ Goto(j, "enqueue")
        /\ mig' = mig /\ design' = design /\ remote' = remote
        /\ files' = files /\ recs' = recs
        /\ MarkAnalysisFailed(jobs[j].s) \/ sums' = sums
    BY <1>5 DEF ReuseClose, Running, JobsAndSums
  <2>3. Grows
    BY <1>b, <2>1, CloseGrows
  <2>4. (\A i \in JobIds : i # j => jobs'[i] = jobs[i]) /\ JobIsJustified(jobs[j])'
    BY <2>1, <2>3, GotoReuse
  <2> QED
    BY <2>1, <2>3, <2>4, WritingJobStep
<1>6. CASE AcquireAndAnalyze(j)
  <2>0. PICK sha \in ResolvedHead :
          jobs' = [jobs EXCEPT ![j].pc = "write_summary", ![j].sha = sha, ![j].ref = jobs[j].s]
    BY <1>6 DEF AcquireAndAnalyze
  <2> DEFINE job == [jobs[j] EXCEPT !.pc = "write_summary", !.sha = sha, !.ref = jobs[j].s]
  <2>1. jobs' = [jobs EXCEPT ![j] = job] /\ OnlyJobs /\ jobs[j].kind = "analysis"
    BY <1>6, <2>0 DEF AcquireAndAnalyze, Running
  <2>2. /\ job.kind = jobs[j].kind /\ job.m = jobs[j].m /\ job.s = jobs[j].s
        /\ job.ref = jobs[j].s /\ job.pc = "write_summary" /\ job.todo = jobs[j].todo
        /\ job.busy = jobs[j].busy /\ job.saving = jobs[j].saving
    BY <1>0 DEF Job
  <2> HIDE DEF job
  <2>3. jobs'[j] = job /\ \A i \in JobIds : i # j => jobs'[i] = jobs[i]
    BY <2>1
  <2>4. Stored(jobs[j].s)
    BY <1>a, <2>1 DEF JobIsJustified
  <2>5. Stored(jobs[j].ref)'
    BY <2>1, <2>2, <2>3, <2>4 DEF Stored, OnlyJobs
  <2>6. Grows => JobIsJustified(jobs[j])'
    BY <2>2, <2>3, <2>5, JobKept
  <2> QED
    BY <2>1, <2>3, <2>6, QuietJobStep
<1>7. CASE WriteSummary(j)
  <2> DEFINE s == jobs[j].s
             won == sums[s].state = "RUNNING"
             pc == IF jobs[j].m = 0 THEN "ack" ELSE IF won THEN "write_migration" ELSE "enqueue"
  <2>1. /\ jobs[j].kind = "analysis" /\ jobs[j].pc = "write_summary" /\ Goto(j, pc)
        /\ mig' = mig /\ design' = design /\ remote' = remote
        /\ files' = files /\ recs' = recs
        /\ sums' = IF won THEN [sums EXCEPT ![s].state = "COMPLETED", ![s].sha = jobs[j].sha]
                   ELSE sums
    BY <1>7 DEF WriteSummary, Running, JobsAndSums
  <2>2. Stored(s) /\ Stored(jobs[j].ref)
    BY <1>a, <2>1 DEF JobIsJustified
  <2>3. /\ won => sums'[s].state = "COMPLETED"
        /\ \A t \in SummaryIds : t # s \/ ~won => sums'[t].state = sums[t].state
    BY <2>1, <2>2 DEF Stored, SummaryDoc
  <2>4. Grows
    BY <1>b, <2>1, <2>3 DEF Grows
  <2>5. /\ \A i \in JobIds : i # j => jobs'[i] = jobs[i]
        /\ jobs'[j] = [jobs[j] EXCEPT !.pc = pc]
    BY <2>1, GotoEffect
  <2>6. /\ jobs'[j].kind = jobs[j].kind /\ jobs'[j].m = jobs[j].m /\ jobs'[j].pc = pc
        /\ jobs'[j].s = s /\ jobs'[j].ref = jobs[j].ref
        /\ jobs'[j].todo = jobs[j].todo /\ jobs'[j].busy = jobs[j].busy
        /\ jobs'[j].saving = jobs[j].saving
    <3> HIDE DEF pc
    <3> QED
      BY <1>0, <2>5, MovedFields
  <2>7. Stored(jobs[j].ref)'
    BY <2>2, <2>4, <2>6 DEF Stored, Grows
  <2>8. jobs'[j].pc = "write_migration" => Completed(jobs[j].s)'
    BY <2>2, <2>3, <2>6 DEF Completed, Stored
  <2>9. jobs'[j].pc \notin {"reuse_migration", "reuse_link", "reuse_close"}
    BY <2>6
  <2>10. JobIsJustified(jobs[j])'
    BY <2>4, <2>6, <2>7, <2>8, <2>9, JobKept
  <2> QED
    BY <2>1, <2>4, <2>5, <2>10, WritingJobStep
<1>8. CASE WriteMigration(j)
  <2>1. /\ jobs[j].kind = "analysis" /\ jobs[j].pc = "write_migration"
        /\ AdvanceToDesigning(jobs[j].m, jobs[j].s, FALSE) /\ Goto(j, "enqueue")
        /\ sums' = sums /\ design' = design /\ remote' = remote
        /\ files' = files /\ recs' = recs
    BY <1>8 DEF WriteMigration, Running, JobsAndMig
  <2>2. Completed(jobs[j].s) /\ Stored(jobs[j].ref)
    BY <1>a, <2>1 DEF JobIsJustified
  <2>3. Grows /\ \A n \in Migrations : mig'[n] = mig[n] \/ DocOK(n)'
    BY <1>0, <1>b, <2>1, <2>2, AdvanceOK
  <2>4. /\ \A i \in JobIds : i # j => jobs'[i] = jobs[i]
        /\ jobs'[j] = [jobs[j] EXCEPT !.pc = "enqueue"]
    BY <2>1, GotoEffect
  <2>5. /\ jobs'[j].kind = jobs[j].kind /\ jobs'[j].m = jobs[j].m /\ jobs'[j].pc = "enqueue"
        /\ jobs'[j].s = jobs[j].s /\ jobs'[j].ref = jobs[j].ref
        /\ jobs'[j].todo = jobs[j].todo /\ jobs'[j].busy = jobs[j].busy
        /\ jobs'[j].saving = jobs[j].saving
    BY <1>0, <2>4, MovedFields
  <2>6. Stored(jobs[j].ref)'
    BY <2>1, <2>2, <2>5 DEF Stored
  <2>7. JobIsJustified(jobs[j])'
    BY <2>3, <2>5, <2>6, JobKept
  <2> QED
    BY <2>1, <2>3, <2>4, <2>7, WritingJobStep
<1>9. CASE EnqueueDecompose(j)
  <2> DEFINE js == [jobs EXCEPT ![j].pc = "ack"]
             new == NewJob("decompose", jobs[j].m, jobs[j].ref, {})
  <2>1. /\ jobs[j].kind = "analysis" /\ jobs[j].pc = "enqueue" /\ OnlyJobs
        /\ Enqueued(js, new)
    BY <1>9 DEF EnqueueDecompose, Running
  <2>2. Stored(jobs[j].ref)
    BY <1>a, <2>1 DEF JobIsJustified
  <2>3. js[j] = [jobs[j] EXCEPT !.pc = "ack"] /\ \A i \in JobIds : i # j => js[i] = jobs[i]
    OBVIOUS
  <2>4. js \in [JobIds -> Job]
    BY <1>0, PcNames, GotoType DEF Job
  <2> HIDE DEF js, new
  <2>5. \/ jobs' = js
        \/ \E k \in JobIds : /\ jobs[k].kind = "none" /\ jobs'[k] = new
                              /\ \A i \in JobIds : i # k => jobs'[i] = js[i]
    BY <2>1, <2>4, EnqueuedEffect
  <2>6. jobs'[j] = [jobs[j] EXCEPT !.pc = "ack"]
    BY <2>1, <2>3, <2>5
  <2>7. /\ jobs'[j].kind = jobs[j].kind /\ jobs'[j].m = jobs[j].m /\ jobs'[j].pc = "ack"
        /\ jobs'[j].s = jobs[j].s
        /\ jobs'[j].todo = jobs[j].todo /\ jobs'[j].busy = jobs[j].busy
        /\ jobs'[j].saving = jobs[j].saving
    BY <1>0, <2>6, MovedFields
  <2>8. Grows => JobIsJustified(jobs[j])'
    BY <2>7, JobKept
  <2>9. \A i \in JobIds : i # j => jobs'[i] = jobs[i] \/ jobs'[i] = new
    BY <2>3, <2>5
  <2>10. \A i \in JobIds : jobs'[i] = new => JobIsJustified(jobs[i])'
    BY <2>1, <2>2, QueuedJustified DEF new, Stored, OnlyJobs
  <2> QED
    BY <2>1, <2>8, <2>9, <2>10, QuietJobStep
<1>10. CASE AnalysisFails(j)
  <2>1. AttemptFails(j, "mark_summary") /\ OnlyJobs
    BY <1>10 DEF AnalysisFails
  <2>2. \A i \in JobIds : i # j => jobs'[i] = jobs[i]
    BY <2>1 DEF AttemptFails
  <2>3. Grows => JobIsJustified(jobs[j])'
    BY <2>1, FailedAttempt
  <2> QED
    BY <2>1, <2>2, <2>3, QuietJobStep
<1>11. CASE MarkSummaryFailed(j)
  <2>1. /\ mig' = mig /\ design' = design /\ remote' = remote
        /\ files' = files /\ recs' = recs
        /\ MarkAnalysisFailed(jobs[j].s) \/ sums' = sums
        /\ jobs' = [jobs EXCEPT ![j] = IF jobs[j].m = 0 THEN NoJob
                                       ELSE [jobs[j] EXCEPT !.pc = "mark_migration"]]
    BY <1>11 DEF MarkSummaryFailed, JobsAndSums
  <2>2. Grows
    BY <1>b, <2>1, CloseGrows
  <2>3. \A i \in JobIds : i # j => jobs'[i] = jobs[i]
    BY <2>1
  <2>4. jobs'[j] = NoJob \/ jobs'[j] = [jobs[j] EXCEPT !.pc = "mark_migration"]
    BY <2>1
  <2>5. CASE jobs'[j] = NoJob
    BY <2>1, <2>2, <2>3, <2>5, NoJobJustified, WritingJobStep
  <2>6. CASE jobs'[j] = [jobs[j] EXCEPT !.pc = "mark_migration"]
    <3>1. /\ jobs'[j].kind = jobs[j].kind /\ jobs'[j].m = jobs[j].m
          /\ jobs'[j].pc = "mark_migration" /\ jobs'[j].s = jobs[j].s
          /\ jobs'[j].todo = jobs[j].todo /\ jobs'[j].busy = jobs[j].busy
          /\ jobs'[j].saving = jobs[j].saving
      BY <1>0, <2>6, MovedFields
    <3>2. JobIsJustified(jobs[j])'
      BY <2>2, <3>1, JobKept
    <3> QED
      BY <2>1, <2>2, <2>3, <3>2, WritingJobStep
  <2> QED
    BY <2>4, <2>5, <2>6
<1>12. CASE MarkMigrationFailed(j)
  <2>1. /\ sums' = sums /\ design' = design /\ remote' = remote
        /\ files' = files /\ recs' = recs /\ jobs' = [jobs EXCEPT ![j] = NoJob]
        /\ \/ mig' = mig
           \/ Live(jobs[j].m) /\ mig' = [mig EXCEPT ![jobs[j].m].state = "FAILED"]
    BY <1>12 DEF MarkMigrationFailed, JobsAndMig
  <2>2. Grows /\ \A n \in Migrations : mig'[n] = mig[n] \/ DocOK(n)'
    <3>1. CASE mig' = mig
      BY <1>b, <2>1, <3>1 DEF Grows
    <3>2. CASE Live(jobs[j].m) /\ mig' = [mig EXCEPT ![jobs[j].m].state = "FAILED"]
      BY <1>0, <1>b, <2>1, <3>2, FailedWriteOK
    <3> QED
      BY <2>1, <3>1, <3>2
  <2>3. jobs'[j] = NoJob /\ \A i \in JobIds : i # j => jobs'[i] = jobs[i]
    BY <2>1
  <2> QED
    BY <2>1, <2>2, <2>3, NoJobJustified, WritingJobStep
<1> QED
  BY <1>1, <1>2, <1>3, <1>4, <1>5, <1>6, <1>7, <1>8, <1>9, <1>10, <1>11, <1>12
     DEF AnalysisStep

\* The fields of a document whose plan is written.
LEMMA PlannedFields ==
  ASSUME NEW d \in MigrationDoc, NEW svcs
  PROVE  LET new == [d EXCEPT !.state = "AWAITING_APPROVAL", !.planned = TRUE,
                              !.services = svcs] IN
         /\ new.state = "AWAITING_APPROVAL" /\ new.summary = d.summary
         /\ new.reused = d.reused
         /\ new.planned = TRUE /\ new.exists = d.exists
  BY DEF MigrationDoc

\* The steps of the decomposition worker keep the invariant.
LEMMA DecompositionStepInv ==
  ASSUME TypeInv, Inv, NEW j \in JobIds, DecompositionStep(j), UNCHANGED serviceVars
  PROVE  Inv'
<1>0. /\ jobs[j] \in Job /\ jobs[j].m \in MigrationRef
  BY DEF Job
<1>a. JobIsJustified(jobs[j])
  BY DEF Inv, InFlightIsJustified
<1>b. calls' = calls /\ approved' = approved
  BY DEF serviceVars
<1>1. CASE \E svcs, full \in SUBSET Services : Decompose(j, svcs, full)
  <2>1. PICK svcs, full \in SUBSET Services : Decompose(j, svcs, full)
    BY <1>1
  <2> DEFINE job == [jobs[j] EXCEPT !.pc = "write_plan", !.svcs = svcs, !.full = full,
                                    !.todo = svcs]
  <2>2. jobs' = [jobs EXCEPT ![j] = job] /\ OnlyJobs /\ jobs[j].kind = "decompose"
    BY <2>1 DEF Decompose, Running
  <2>3. job.kind = jobs[j].kind /\ job.s = jobs[j].s
    BY <1>0 DEF Job
  <2> HIDE DEF job
  <2>4. jobs'[j] = job /\ \A i \in JobIds : i # j => jobs'[i] = jobs[i]
    BY <2>2
  <2>5. Stored(jobs[j].s)
    BY <1>a, <2>2 DEF JobIsJustified
  <2>6. Stored(jobs[j].s)'
    BY <2>2, <2>3, <2>4, <2>5 DEF Stored, OnlyJobs
  <2>7. JobIsJustified(jobs[j])'
    BY <2>2, <2>3, <2>4, <2>6 DEF JobIsJustified
  <2> QED
    BY <2>2, <2>4, <2>7, QuietJobStep
<1>2. CASE WritePlan(j)
  <2>a. PICK m \in Migrations : m = jobs[j].m
    BY <1>0, <1>2, LiveIsMigration DEF WritePlan
  <2> DEFINE d == [mig[m] EXCEPT !.state = "AWAITING_APPROVAL", !.planned = TRUE,
                                 !.services = jobs[j].svcs]
             pc == IF jobs[j].svcs = {} THEN "ack" ELSE "artifacts"
  <2>1. /\ Live(m) /\ StorePlan(m, jobs[j].svcs) /\ Goto(j, pc)
        /\ sums' = sums /\ design' = design /\ remote' = remote
        /\ files' = files /\ recs' = recs
    BY <1>2, <2>a DEF WritePlan, JobsAndMig
  <2>3. mig' = [mig EXCEPT ![m] = d]
    BY <2>1 DEF StorePlan
  <2>4. mig[m] \in MigrationDoc
    OBVIOUS
  <2>5. /\ d.state = "AWAITING_APPROVAL" /\ d.summary = mig[m].summary
        /\ d.reused = mig[m].reused
        /\ d.planned = TRUE /\ d.exists = mig[m].exists
    BY <2>4, PlannedFields
  <2>6. mig[m].exists
    BY <2>1 DEF Live
  <2> HIDE DEF d
  <2>7. mig'[m] = d /\ \A n \in Migrations : n # m => mig'[n] = mig[n]
    BY <2>3
  <2>8. Grows
    BY <1>b, <2>1, <2>5, <2>7 DEF Grows
  <2>9. DocOK(m)
    BY DEF Inv
  <2>10. DocOK(m)'
    BY <2>1, <2>5, <2>6, <2>7, <2>9 DEF DocOK, Completed
  <2>11. (\A i \in JobIds : i # j => jobs'[i] = jobs[i]) /\ JobIsJustified(jobs[j])'
    BY <2>1, <2>8, GotoJustified
  <2> QED
    BY <2>1, <2>7, <2>8, <2>10, <2>11, WritingJobStep
<1>3. CASE \E x \in Services : UpsertArtifact(j, x)
  <2>1. PICK x \in Services : UpsertArtifact(j, x)
    BY <1>3
  <2> DEFINE status == IF x \in jobs[j].full THEN "complete" ELSE "incomplete"
  <2>2. /\ mig' = mig /\ sums' = sums /\ remote' = remote /\ files' = files /\ recs' = recs
        /\ design' = [design EXCEPT ![jobs[j].m][x] = status]
        /\ jobs' = [jobs EXCEPT ![j].todo = @ \ {x}]
        /\ jobs[j].kind = "decompose"
    BY <2>1 DEF UpsertArtifact, Running
  <2>3. status # "none"
    OBVIOUS
  <2> HIDE DEF status
  <2>4. \A m \in Migrations, y \in Services : design'[m][y] = design[m][y] \/ design'[m][y] = status
    BY <2>2
  <2>5. Grows
    BY <1>b, <2>2, <2>3, <2>4 DEF Grows
  <2>6. jobs'[j] = [jobs[j] EXCEPT !.todo = @ \ {x}] /\ \A i \in JobIds : i # j => jobs'[i] = jobs[i]
    BY <2>2
  <2>7. jobs'[j].kind = "decompose" /\ jobs'[j].s = jobs[j].s
    BY <1>0, <2>2, <2>6 DEF Job
  <2>8. Stored(jobs[j].s)
    BY <1>a, <2>2 DEF JobIsJustified
  <2>9. Stored(jobs[j].s)'
    BY <2>2, <2>7, <2>8 DEF Stored
  <2>10. JobIsJustified(jobs[j])'
    BY <2>7, <2>9 DEF JobIsJustified
  <2> QED
    BY <2>2, <2>5, <2>6, <2>10, WritingJobStep
<1>4. CASE ArtifactsEnd(j)
  <2>1. OnlyJobs /\ Goto(j, "ack")
    BY <1>4 DEF ArtifactsEnd
  <2> QED
    BY <2>1, GotoEffect, GotoJustified, QuietJobStep
<1>5. CASE DecompositionFails(j)
  <2>1. AttemptFails(j, "mark_migration") /\ OnlyJobs
    BY <1>5 DEF DecompositionFails
  <2>2. \A i \in JobIds : i # j => jobs'[i] = jobs[i]
    BY <2>1 DEF AttemptFails
  <2>3. Grows => JobIsJustified(jobs[j])'
    BY <2>1, FailedAttempt
  <2> QED
    BY <2>1, <2>2, <2>3, QuietJobStep
<1>6. CASE MarkDesignFailed(j)
  <2>1. /\ sums' = sums /\ design' = design /\ remote' = remote
        /\ files' = files /\ recs' = recs /\ jobs' = [jobs EXCEPT ![j] = NoJob]
        /\ \/ mig' = mig
           \/ Live(jobs[j].m) /\ mig' = [mig EXCEPT ![jobs[j].m].state = "FAILED"]
    BY <1>6 DEF MarkDesignFailed, JobsAndMig
  <2>2. Grows /\ \A n \in Migrations : mig'[n] = mig[n] \/ DocOK(n)'
    <3>1. CASE mig' = mig
      BY <1>b, <2>1, <3>1 DEF Grows
    <3>2. CASE Live(jobs[j].m) /\ mig' = [mig EXCEPT ![jobs[j].m].state = "FAILED"]
      BY <1>0, <1>b, <2>1, <3>2, FailedWriteOK
    <3> QED
      BY <2>1, <3>1, <3>2
  <2>3. jobs'[j] = NoJob /\ \A i \in JobIds : i # j => jobs'[i] = jobs[i]
    BY <2>1
  <2> QED
    BY <2>1, <2>2, <2>3, NoJobJustified, WritingJobStep
<1> QED
  BY <1>1, <1>2, <1>3, <1>4, <1>5, <1>6 DEF DecompositionStep

\* A step of the generation worker that writes records or files of the migration
\* it was approved for, and takes on no service that was not designed.
LEMMA OutputJobStep ==
  ASSUME TypeInv, Inv, UNCHANGED <<mig, sums, design, remote>>, UNCHANGED serviceVars,
         NEW j \in JobIds, jobs[j].kind = "generation",
         \A i \in JobIds : i # j => jobs'[i] = jobs[i],
         jobs'[j].kind = "generation", jobs'[j].m = jobs[j].m,
         \A x \in jobs'[j].todo \cup jobs'[j].busy \cup jobs'[j].saving :
           design[jobs[j].m][x] # "none",
         \A m \in Migrations : m # jobs[j].m => files'[m] = files[m] /\ recs'[m] = recs[m],
         \A x \in Services : recs'[jobs[j].m][x] # recs[jobs[j].m][x] =>
           design[jobs[j].m][x] # "none"
  PROVE  Inv'
<1>1. Grows
  BY DEF Grows, serviceVars
<1>2. Cleared(jobs[j].m)
  BY DEF Inv, InFlightIsJustified, JobIsJustified
<1>3. jobs[j].m \in Migrations /\ jobs[j].m \in approved
  BY <1>2 DEF Cleared
<1>4. Cleared(jobs[j].m)'
  BY <1>2 DEF Cleared, serviceVars
<1>5. JobIsJustified(jobs[j])'
  <2>1. \A x \in jobs'[j].todo \cup jobs'[j].busy \cup jobs'[j].saving :
          design'[jobs'[j].m][x] # "none"
    OBVIOUS
  <2> QED
    BY <1>4, <2>1 DEF JobIsJustified
<1>6. OutputOK(jobs[j].m)
  BY <1>3 DEF Inv
<1>7. \A m \in Migrations : m = jobs[j].m => OutputOK(m)'
  <2> SUFFICES ASSUME NEW m \in Migrations, m = jobs[j].m PROVE OutputOK(m)'
    OBVIOUS
  <2>1. m \in approved' /\ design' = design /\ OutputOK(m)
    BY <1>3, <1>6 DEF serviceVars
  <2>2. \A x \in Services : recs'[m][x] # "none" => design[m][x] # "none"
    BY <2>1 DEF OutputOK
  <2> QED
    BY <2>1, <2>2 DEF OutputOK
<1>8. calls' = calls /\ mig' = mig /\ remote' = remote
  BY DEF serviceVars
<1> QED
  BY <1>1, <1>5, <1>7, <1>8, FromParts

\* The steps of the generation worker keep the invariant.
LEMMA GenerationStepInv ==
  ASSUME TypeInv, Inv, NEW j \in JobIds, GenerationStep(j), UNCHANGED serviceVars
  PROVE  Inv'
<1>0. /\ jobs[j] \in Job /\ jobs[j].m \in MigrationRef
      /\ jobs[j].todo \in SUBSET Services /\ jobs[j].busy \in SUBSET Services
      /\ jobs[j].saving \in SUBSET Services
  BY DEF Job
<1>b. calls' = calls /\ approved' = approved
  BY DEF serviceVars
<1>c. jobs[j].kind = "generation"
  BY DEF GenerationStep, ReadPackage, SkipIncomplete, StartService, FinishService, SaveFiles,
         Decide, SetFinalState, GenerationFails, Running
<1>a. /\ Cleared(jobs[j].m)
      /\ \A x \in jobs[j].todo \cup jobs[j].busy \cup jobs[j].saving :
           design[jobs[j].m][x] # "none"
  BY <1>c DEF Inv, InFlightIsJustified, JobIsJustified
<1>d. jobs[j].m \in Migrations
  BY <1>a DEF Cleared
<1>1. CASE ReadPackage(j)
  <2> DEFINE m == jobs[j].m
             full == {x \in Services : design[m][x] = "complete"}
             todo == NotDone(m, Selected(Packaged(m), jobs[j].filter))
             job == [jobs[j] EXCEPT !.pc = "generate", !.full = full, !.todo = todo]
  <2>1. jobs' = [jobs EXCEPT ![j] = job] /\ OnlyJobs
    BY <1>1 DEF ReadPackage
  <2>2. \A x \in todo : design[m][x] # "none"
    BY DEF NotDone, Selected, Packaged
  <2>3. /\ job.kind = jobs[j].kind /\ job.m = jobs[j].m /\ job.todo = todo
        /\ job.busy = jobs[j].busy /\ job.saving = jobs[j].saving
    <3> HIDE DEF full, todo
    <3> QED
      BY <1>0 DEF Job
  <2> HIDE DEF job, full, todo
  <2>4. jobs'[j] = job /\ \A i \in JobIds : i # j => jobs'[i] = jobs[i]
    BY <2>1
  <2>5. /\ UNCHANGED <<mig, sums, design, remote>> /\ files' = files /\ recs' = recs
    BY <2>1 DEF OnlyJobs
  <2>6. \A x \in jobs'[j].todo \cup jobs'[j].busy \cup jobs'[j].saving :
          design[jobs[j].m][x] # "none"
    BY <1>a, <2>2, <2>3, <2>4
  <2> QED
    BY <1>c, <2>3, <2>4, <2>5, <2>6, OutputJobStep
<1>2. CASE \E x \in Services : SkipIncomplete(j, x)
  <2>1. PICK x \in Services : SkipIncomplete(j, x)
    BY <1>2
  <2>2. /\ UNCHANGED <<mig, sums, design, remote>> /\ files' = files
        /\ UpsertRecord(jobs[j].m, x, "failed") /\ x \in jobs[j].todo
        /\ jobs' = [jobs EXCEPT ![j].todo = @ \ {x}]
    BY <2>1 DEF SkipIncomplete
  <2>3. /\ jobs'[j] = [jobs[j] EXCEPT !.todo = @ \ {x}]
        /\ \A i \in JobIds : i # j => jobs'[i] = jobs[i]
    BY <2>2
  <2>4. /\ jobs'[j].kind = jobs[j].kind /\ jobs'[j].m = jobs[j].m
        /\ jobs'[j].todo = jobs[j].todo \ {x}
        /\ jobs'[j].busy = jobs[j].busy /\ jobs'[j].saving = jobs[j].saving
    BY <1>0, <2>3 DEF Job
  <2>5. /\ \A m \in Migrations : m # jobs[j].m => recs'[m] = recs[m]
        /\ \A y \in Services : y # x => recs'[jobs[j].m][y] = recs[jobs[j].m][y]
    BY <1>d, <2>2 DEF UpsertRecord
  <2>6. \A y \in jobs'[j].todo \cup jobs'[j].busy \cup jobs'[j].saving :
          design[jobs[j].m][y] # "none"
    BY <1>a, <2>2, <2>4
  <2>7. \A y \in Services : recs'[jobs[j].m][y] # recs[jobs[j].m][y] =>
          design[jobs[j].m][y] # "none"
    BY <1>a, <2>2, <2>5
  <2> QED
    BY <1>c, <2>2, <2>3, <2>4, <2>5, <2>6, <2>7, OutputJobStep
<1>3. CASE \E x \in Services : StartService(j, x)
  <2>1. PICK x \in Services : StartService(j, x)
    BY <1>3
  <2>2. /\ UNCHANGED <<mig, sums, design, remote>> /\ files' = files
        /\ UpsertRecord(jobs[j].m, x, "generating") /\ x \in jobs[j].todo
        /\ jobs' = [jobs EXCEPT ![j] = [jobs[j] EXCEPT !.todo = @ \ {x}, !.busy = @ \cup {x}]]
    BY <2>1 DEF StartService
  <2>3. /\ jobs'[j] = [jobs[j] EXCEPT !.todo = @ \ {x}, !.busy = @ \cup {x}]
        /\ \A i \in JobIds : i # j => jobs'[i] = jobs[i]
    BY <2>2
  <2>4. /\ jobs'[j].kind = jobs[j].kind /\ jobs'[j].m = jobs[j].m
        /\ jobs'[j].todo = jobs[j].todo \ {x}
        /\ jobs'[j].busy = jobs[j].busy \cup {x} /\ jobs'[j].saving = jobs[j].saving
    BY <1>0, <2>3 DEF Job
  <2>5. /\ \A m \in Migrations : m # jobs[j].m => recs'[m] = recs[m]
        /\ \A y \in Services : y # x => recs'[jobs[j].m][y] = recs[jobs[j].m][y]
    BY <1>d, <2>2 DEF UpsertRecord
  <2>6. \A y \in jobs'[j].todo \cup jobs'[j].busy \cup jobs'[j].saving :
          design[jobs[j].m][y] # "none"
    BY <1>a, <2>2, <2>4
  <2>7. \A y \in Services : recs'[jobs[j].m][y] # recs[jobs[j].m][y] =>
          design[jobs[j].m][y] # "none"
    BY <1>a, <2>2, <2>5
  <2> QED
    BY <1>c, <2>2, <2>3, <2>4, <2>5, <2>6, <2>7, OutputJobStep
<1>4. CASE \E x \in Services, status \in {"done", "failed"} : FinishService(j, x, status)
  <2>1. PICK x \in Services, status \in {"done", "failed"} : FinishService(j, x, status)
    BY <1>4
  <2>2. /\ UNCHANGED <<mig, sums, design, remote>> /\ files' = files
        /\ UpsertRecord(jobs[j].m, x, status) /\ x \in jobs[j].busy
        /\ jobs' = [jobs EXCEPT ![j] = [jobs[j] EXCEPT !.busy = @ \ {x}, !.saving = @ \cup {x}]]
    BY <2>1 DEF FinishService
  <2>3. /\ jobs'[j] = [jobs[j] EXCEPT !.busy = @ \ {x}, !.saving = @ \cup {x}]
        /\ \A i \in JobIds : i # j => jobs'[i] = jobs[i]
    BY <2>2
  <2>4. /\ jobs'[j].kind = jobs[j].kind /\ jobs'[j].m = jobs[j].m
        /\ jobs'[j].todo = jobs[j].todo
        /\ jobs'[j].busy = jobs[j].busy \ {x} /\ jobs'[j].saving = jobs[j].saving \cup {x}
    BY <1>0, <2>3 DEF Job
  <2>5. /\ \A m \in Migrations : m # jobs[j].m => recs'[m] = recs[m]
        /\ \A y \in Services : y # x => recs'[jobs[j].m][y] = recs[jobs[j].m][y]
    BY <1>d, <2>2 DEF UpsertRecord
  <2>6. \A y \in jobs'[j].todo \cup jobs'[j].busy \cup jobs'[j].saving :
          design[jobs[j].m][y] # "none"
    BY <1>a, <2>2, <2>4
  <2>7. \A y \in Services : recs'[jobs[j].m][y] # recs[jobs[j].m][y] =>
          design[jobs[j].m][y] # "none"
    BY <1>a, <2>2, <2>5
  <2> QED
    BY <1>c, <2>2, <2>3, <2>4, <2>5, <2>6, <2>7, OutputJobStep
<1>5. CASE \E x \in Services : SaveFiles(j, x)
  <2>1. PICK x \in Services : SaveFiles(j, x)
    BY <1>5
  <2>2. /\ UNCHANGED <<mig, sums, design, remote>> /\ recs' = recs
        /\ files' = files \/ files' = [files EXCEPT ![jobs[j].m] = @ \cup {x}]
        /\ jobs' = [jobs EXCEPT ![j].saving = @ \ {x}]
    BY <2>1 DEF SaveFiles
  <2>3. /\ jobs'[j] = [jobs[j] EXCEPT !.saving = @ \ {x}]
        /\ \A i \in JobIds : i # j => jobs'[i] = jobs[i]
    BY <2>2
  <2>4. /\ jobs'[j].kind = jobs[j].kind /\ jobs'[j].m = jobs[j].m
        /\ jobs'[j].todo = jobs[j].todo
        /\ jobs'[j].busy = jobs[j].busy /\ jobs'[j].saving = jobs[j].saving \ {x}
    BY <1>0, <2>3 DEF Job
  <2>5. \A m \in Migrations : m # jobs[j].m => files'[m] = files[m]
    BY <1>d, <2>2
  <2> QED
    BY <1>a, <1>c, <2>2, <2>3, <2>4, <2>5, OutputJobStep
<1>6. CASE Decide(j)
  <2> DEFINE pc == IF AnyFailed(j) THEN "mark_failed" ELSE "mark_ready"
  <2>1. /\ UNCHANGED <<mig, sums, design, remote>> /\ recs' = recs
        /\ files' = files \/ files' = [files EXCEPT ![jobs[j].m] = @ \cup {Aggregator}]
        /\ Goto(j, pc)
    BY <1>6 DEF Decide
  <2> HIDE DEF pc
  <2>2. /\ jobs'[j] = [jobs[j] EXCEPT !.pc = pc]
        /\ \A i \in JobIds : i # j => jobs'[i] = jobs[i]
    BY <2>1, GotoEffect
  <2>3. /\ jobs'[j].kind = jobs[j].kind /\ jobs'[j].m = jobs[j].m
        /\ jobs'[j].todo = jobs[j].todo
        /\ jobs'[j].busy = jobs[j].busy /\ jobs'[j].saving = jobs[j].saving
    BY <1>0, <2>2, MovedFields
  <2>4. \A m \in Migrations : m # jobs[j].m => files'[m] = files[m]
    BY <1>d, <2>1
  <2> QED
    BY <1>a, <1>c, <2>1, <2>2, <2>3, <2>4, OutputJobStep
<1>7. CASE SetFinalState(j)
  <2>a. PICK m \in Migrations : m = jobs[j].m
    BY <1>d
  <2> DEFINE st == IF jobs[j].pc = "mark_ready" THEN "READY" ELSE "FAILED"
  <2>1. /\ sums' = sums /\ design' = design /\ remote' = remote
        /\ files' = files /\ recs' = recs /\ Goto(j, "ack")
        /\ mig' = [mig EXCEPT ![m].state = st]
    BY <1>7, <2>a DEF SetFinalState, JobsAndMig
  <2>2. m \in approved /\ mig[m].planned
    BY <1>a, <2>a DEF Cleared
  <2>3. st \in MigrationState /\ st \in {"READY", "FAILED"}
    BY StateNames
  <2> HIDE DEF st
  <2>4. Grows /\ \A n \in Migrations : DocOK(n)'
    BY <1>b, <2>1, <2>2, <2>3, StateWriteOK
  <2>5. (\A i \in JobIds : i # j => jobs'[i] = jobs[i]) /\ JobIsJustified(jobs[j])'
    BY <2>1, <2>4, GotoJustified
  <2> QED
    BY <2>1, <2>4, <2>5, WritingJobStep
<1>8. CASE GenerationFails(j)
  <2>1. AttemptFails(j, "archive") /\ OnlyJobs
    BY <1>8 DEF GenerationFails
  <2>2. \A i \in JobIds : i # j => jobs'[i] = jobs[i]
    BY <2>1 DEF AttemptFails
  <2>3. Grows => JobIsJustified(jobs[j])'
    BY <2>1, FailedAttempt
  <2> QED
    BY <2>1, <2>2, <2>3, QuietJobStep
<1> QED
  BY <1>1, <1>2, <1>3, <1>4, <1>5, <1>6, <1>7, <1>8 DEF GenerationStep

\* An acknowledged task and a dead worker keep the invariant.
LEMMA QueueStepInv ==
  ASSUME TypeInv, Inv, NEW j \in JobIds, Ack(j) \/ WorkerCrash(j), UNCHANGED serviceVars
  PROVE  Inv'
<1>1. CASE Ack(j)
  <2>1. OnlyJobs /\ jobs' = [jobs EXCEPT ![j] = NoJob]
    BY <1>1 DEF Ack
  <2>2. jobs'[j] = NoJob /\ \A i \in JobIds : i # j => jobs'[i] = jobs[i]
    BY <2>1
  <2> QED
    BY <2>1, <2>2, NoJobJustified, QuietJobStep
<1>2. CASE WorkerCrash(j)
  <2>1. AttemptFails(j, "archive") /\ OnlyJobs
    BY <1>2 DEF WorkerCrash
  <2>2. \A i \in JobIds : i # j => jobs'[i] = jobs[i]
    BY <2>1 DEF AttemptFails
  <2>3. Grows => JobIsJustified(jobs[j])'
    BY <2>1, FailedAttempt
  <2> QED
    BY <2>1, <2>2, <2>3, QuietJobStep
<1> QED
  BY <1>1, <1>2

-----------------------------------------------------------------------------
(* The steps of the migration service.                                     *)

\* The steps of a call that rely on something.
ReliantPcs == {"dispatched", "reuse_enqueue", "reuse_analyzing", "adopt", "approve",
               "approve_enqueue", "push", "pushed"}

\* A call at any other step is justified.
LEMMA OtherCall ==
  ASSUME NEW c \in Callers, calls'[c].pc \notin ReliantPcs
  PROVE  CallIsJustified(calls[c])'
  BY DEF ReliantPcs, CallIsJustified

\* Answering, accepting and moving a call.
LEMMA ReturnEffect ==
  ASSUME TypeInv, NEW c \in Callers, Return(c)
  PROVE  /\ \A d \in Callers : d # c => calls'[d] = calls[d]
         /\ calls'[c].pc = "idle" /\ CallIsJustified(calls[c])'
<1>1. (\A d \in Callers : d # c => calls'[d] = calls[d]) /\ calls'[c].pc = "idle"
  BY DEF Return, Idle
<1> QED
  BY <1>1, OtherCall DEF ReliantPcs

\* Proceed moves one call and sets its migration.
LEMMA ProceedEffect ==
  ASSUME TypeInv, NEW c \in Callers, NEW pc, NEW m, Proceed(c, pc, m)
  PROVE  /\ \A d \in Callers : d # c => calls'[d] = calls[d]
         /\ calls'[c].pc = pc
  BY DEF Proceed, Idle

\* Goto_ moves one call and keeps what it is about.
LEMMA GotoCallEffect ==
  ASSUME TypeInv, NEW c \in Callers, NEW pc, Goto_(c, pc)
  PROVE  /\ \A d \in Callers : d # c => calls'[d] = calls[d]
         /\ calls'[c].pc = pc /\ calls'[c].m = calls[c].m /\ calls'[c].s = calls[c].s
<1>1. calls[c] \in Call
  OBVIOUS
<1>2. calls'[c] = [calls[c] EXCEPT !.pc = pc] /\ \A d \in Callers : d # c => calls'[d] = calls[d]
  BY DEF Goto_
<1> QED
  BY <1>1, <1>2 DEF Call

\* A step of the service that writes nothing but its call.
LEMMA QuietCallStep ==
  ASSUME TypeInv, Inv, UNCHANGED storeVars, approved \subseteq approved', NEW c \in Callers,
         \A d \in Callers : d # c => calls'[d] = calls[d],
         CallIsJustified(calls[c])'
  PROVE  Inv'
<1>1. /\ mig' = mig /\ sums' = sums /\ jobs' = jobs /\ design' = design
      /\ recs' = recs /\ files' = files /\ remote' = remote
  BY DEF storeVars
<1>2. Grows
  BY <1>1 DEF Grows
<1> QED
  BY <1>1, <1>2, FromParts

\* A step of the service that writes the document of a migration.
LEMMA DocCallStep ==
  ASSUME TypeInv, Inv, Grows, OnlyMig, approved' = approved, NEW c \in Callers,
         \A d \in Callers : d # c => calls'[d] = calls[d],
         CallIsJustified(calls[c])',
         \A m \in Migrations : mig'[m] = mig[m] \/ DocOK(m)'
  PROVE  Inv'
<1>1. jobs' = jobs /\ recs' = recs /\ files' = files /\ remote' = remote
  BY DEF OnlyMig
<1> QED
  BY <1>1, FromParts

\* UpdateState to a state that the migration has earned.
LEMMA UpdateStateOK ==
  ASSUME TypeInv, Inv, NEW m \in MigrationRef, NEW st \in MigrationState,
         UpdateState(m, st), OnlyMig, approved' = approved,
         st \in {"PENDING", "ANALYZING", "CANCELLED", "GENERATING", "PUSHED"},
         st \in {"GENERATING", "PUSHED"} => Cleared(m),
         st = "PUSHED" => m \in remote
  PROVE  Grows /\ \A n \in Migrations : mig'[n] = mig[n] \/ DocOK(n)'
<1>0. sums' = sums /\ design' = design /\ remote' = remote
  BY DEF OnlyMig
<1>1. CASE Live(m)
  <2>1. m \in Migrations /\ mig' = [mig EXCEPT ![m].state = st]
    BY <1>1, LiveIsMigration DEF UpdateState
  <2> QED
    BY <1>0, <2>1, StateWriteOK DEF Cleared
<1>2. CASE ~Live(m)
  <2>1. mig' = mig
    BY <1>2 DEF UpdateState
  <2> QED
    BY <1>0, <2>1 DEF Grows
<1> QED
  BY <1>1, <1>2

\* A write that leaves the state, the analysis and the plan of every document alone.
LEMMA FieldWriteOK ==
  ASSUME TypeInv, Inv, OnlyMig, approved' = approved,
         \A n \in Migrations :
           /\ mig'[n].state = mig[n].state /\ mig'[n].summary = mig[n].summary
           /\ mig'[n].planned = mig[n].planned /\ mig'[n].exists = mig[n].exists
           /\ mig'[n].reused = mig[n].reused
  PROVE  Grows /\ \A n \in Migrations : DocOK(n)'
<1>1. sums' = sums /\ remote' = remote /\ design' = design
  BY DEF OnlyMig
<1>2. Grows
  BY <1>1 DEF Grows
<1>3. ASSUME NEW n \in Migrations PROVE DocOK(n)'
  <2>1. DocOK(n)
    BY DEF Inv
  <2> QED
    BY <1>1, <2>1 DEF DocOK, Completed
<1> QED
  BY <1>2, <1>3

\* Issuing an RPC keeps the invariant.
LEMMA ClientStepInv ==
  ASSUME TypeInv, Inv, ClientStep
  PROVE  Inv'
<1>1. CASE \E m \in Migrations, d \in Drafts : CreateMigration(m, d)
  <2>1. PICK m \in Migrations, d \in Drafts : CreateMigration(m, d)
    BY <1>1
  <2>2. /\ ~mig[m].exists /\ mig' = [mig EXCEPT ![m] = NewMigration(d)]
        /\ sums' = sums /\ jobs' = jobs /\ design' = design /\ recs' = recs
        /\ files' = files /\ remote' = remote /\ calls' = calls /\ approved' = approved
    BY <2>1 DEF CreateMigration, OnlyMig, serviceVars
  <2>3. mig'[m] = NewMigration(d) /\ \A n \in Migrations : n # m => mig'[n] = mig[n]
    BY <2>2
  <2>4. /\ mig'[m].state = "PENDING" /\ mig'[m].exists = TRUE
        /\ mig'[m].reused = FALSE
    BY <2>3 DEF NewMigration
  <2>5. ~mig[m].planned
    BY <2>2 DEF Inv, DocOK
  <2>6. Grows
    BY <2>2, <2>3, <2>5 DEF Grows
  <2>7. DocOK(m)'
    BY <2>4 DEF DocOK
  <2> QED
    BY <2>2, <2>3, <2>6, <2>7, FromParts
<1>2. ASSUME NEW c \in Callers, NEW pc, NEW m, pc \notin ReliantPcs, Proceed(c, pc, m),
             UNCHANGED storeVars, UNCHANGED approved
      PROVE  Inv'
  BY <1>2, ProceedEffect, OtherCall, QuietCallStep
<1>3. CASE \E c \in Callers : RunAnalysis(c)
  BY <1>2, <1>3 DEF RunAnalysis, ReliantPcs
<1>4. ASSUME NEW c \in Callers, NEW m \in Migrations,
             \/ DeleteMigration(c, m) \/ StartMigration(c, m) \/ RejectDesign(c, m)
             \/ CancelMigration(c, m) \/ GenerateRestructuringRoadmap(c, m)
             \/ EnrichRoadmap(c, m) \/ GenerateBlueprint(c, m)
      PROVE  Inv'
  <2>1. UNCHANGED storeVars /\ UNCHANGED approved
    BY <1>4 DEF DeleteMigration, StartMigration, RejectDesign, CancelMigration,
         GenerateRestructuringRoadmap, EnrichRoadmap, GenerateBlueprint
  <2>2. \E pc : pc \notin ReliantPcs /\ Proceed(c, pc, m)
    BY <1>4 DEF DeleteMigration, StartMigration, RejectDesign, CancelMigration,
         GenerateRestructuringRoadmap, EnrichRoadmap, GenerateBlueprint, ReliantPcs
  <2> QED
    BY <1>2, <2>1, <2>2
<1>5. ASSUME NEW c \in Callers, NEW m \in Migrations, StartWithReuse(c, m)
      PROVE  Inv'
  <2> DEFINE call == [Idle EXCEPT !.pc = "reuse_analyzing", !.m = m, !.s = mig[m].source]
  <2>1. /\ calls' = [calls EXCEPT ![c] = call] /\ UNCHANGED storeVars /\ approved' = approved
        /\ mig[m].source # 0 /\ sums[mig[m].source].state = "COMPLETED"
    BY <1>5 DEF StartWithReuse
  <2>2. call.pc = "reuse_analyzing" /\ call.s = mig[m].source
    BY DEF Idle
  <2> HIDE DEF call
  <2>3. calls'[c] = call /\ \A d \in Callers : d # c => calls'[d] = calls[d]
    BY <2>1
  <2>4. mig[m].source \in SummaryIds
    BY <2>1, StoreAssumption DEF MigrationDoc, SummaryRef, SummaryIds
  <2>5. Completed(calls[c].s)'
    BY <2>1, <2>2, <2>3, <2>4 DEF Completed, storeVars
  <2>6. CallIsJustified(calls[c])'
    BY <2>2, <2>3, <2>5 DEF CallIsJustified
  <2> QED
    BY <2>1, <2>3, <2>6, QuietCallStep
<1>6. ASSUME NEW c \in Callers, NEW m \in Migrations, NEW f \in Filters,
             ApproveDesign(c, m, f)
      PROVE  Inv'
  <2> DEFINE call == [Idle EXCEPT !.pc = "approve", !.m = m, !.filter = f]
  <2>1. /\ calls' = [calls EXCEPT ![c] = call] /\ UNCHANGED storeVars /\ ApproveGate(mig[m])
        /\ approved' = IF MayGenerate(mig[m]) THEN approved \cup {m} ELSE approved
    BY <1>6 DEF ApproveDesign
  <2>2. call.pc = "approve" /\ call.m = m
    BY DEF Idle
  <2> HIDE DEF call
  <2>3. calls'[c] = call /\ \A d \in Callers : d # c => calls'[d] = calls[d]
    BY <2>1
  <2>4. mig[m].planned
    BY <2>1 DEF Inv, DocOK, ApproveGate
  <2>5. MayGenerate(mig[m])
    BY <2>1, <2>4 DEF ApproveGate, MayGenerate, NoServiceBoundaries, migrabilityBlocked
  <2>6. Cleared(calls[c].m)'
    BY <2>1, <2>2, <2>3, <2>4, <2>5 DEF Cleared, storeVars
  <2>7. CallIsJustified(calls[c])'
    BY <2>2, <2>3, <2>6 DEF CallIsJustified
  <2>8. approved \subseteq approved'
    BY <2>1
  <2> QED
    BY <2>1, <2>3, <2>7, <2>8, QuietCallStep
<1>7. ASSUME NEW c \in Callers, NEW m \in Migrations, NEW v \in Verdicts \ {"none"},
             AssessMigrability(c, m, v)
      PROVE  Inv'
  <2>1. /\ UNCHANGED storeVars /\ approved' = approved
        /\ calls' = [calls EXCEPT ![c] = [Idle EXCEPT !.pc = "assess", !.m = m, !.verdict = v]]
    BY <1>7 DEF AssessMigrability
  <2>2. calls'[c].pc = "assess" /\ \A d \in Callers : d # c => calls'[d] = calls[d]
    BY <2>1 DEF Idle
  <2> QED
    BY <2>1, <2>2, OtherCall, QuietCallStep DEF ReliantPcs
<1>8. ASSUME NEW c \in Callers, NEW m \in Migrations, NEW b \in BOOLEAN, SetOverride(c, m, b)
      PROVE  Inv'
  <2>1. /\ UNCHANGED storeVars /\ approved' = approved
        /\ calls' = [calls EXCEPT ![c] = [Idle EXCEPT !.pc = "override", !.m = m, !.on = b]]
    BY <1>8 DEF SetOverride
  <2>2. calls'[c].pc = "override" /\ \A d \in Callers : d # c => calls'[d] = calls[d]
    BY <2>1 DEF Idle
  <2> QED
    BY <2>1, <2>2, OtherCall, QuietCallStep DEF ReliantPcs
<1>9. ASSUME NEW c \in Callers, NEW m \in Migrations, PublishMigration(c, m)
      PROVE  Inv'
  <2> DEFINE again == (mig[m].state = "PUSHED")
             call == [Idle EXCEPT !.pc = "push", !.m = m, !.on = again]
  <2>1. /\ calls' = [calls EXCEPT ![c] = call] /\ UNCHANGED storeVars /\ approved' = approved
        /\ mig[m].state \in {"READY", "PUSHED"}
    BY <1>9 DEF PublishMigration
  <2>2. call.pc = "push" /\ call.m = m
    <3> HIDE DEF again
    <3> QED
      BY DEF Idle
  <2> HIDE DEF call
  <2>3. calls'[c] = call /\ \A d \in Callers : d # c => calls'[d] = calls[d]
    BY <2>1
  <2>4. mig[m].planned /\ m \in approved
    BY <2>1 DEF Inv, DocOK
  <2>5. Cleared(calls[c].m)'
    BY <2>1, <2>2, <2>3, <2>4 DEF Cleared, storeVars
  <2>6. CallIsJustified(calls[c])'
    BY <2>2, <2>3, <2>5 DEF CallIsJustified
  <2> QED
    BY <2>1, <2>3, <2>6, QuietCallStep
<1> QED
  BY <1>1, <1>3, <1>4, <1>5, <1>6, <1>7, <1>8, <1>9 DEF ClientStep

\* A step of the service that queues a task and answers or moves on.
LEMMA EnqueueCallStep ==
  ASSUME TypeInv, Inv, OnlyJobs, approved' = approved, NEW c \in Callers,
         \A d \in Callers : d # c => calls'[d] = calls[d],
         CallIsJustified(calls[c])',
         NEW job, Enqueued(jobs, job),
         \A j \in JobIds : jobs'[j] = job => JobIsJustified(jobs[j])'
  PROVE  Inv'
<1>1. /\ mig' = mig /\ sums' = sums /\ design' = design /\ recs' = recs
      /\ files' = files /\ remote' = remote
  BY DEF OnlyJobs
<1>2. Grows
  BY <1>1 DEF Grows
<1>3. \A j \in JobIds : jobs'[j] = jobs[j] \/ jobs'[j] = job
  BY DEF Enqueued
<1> QED
  BY <1>1, <1>2, <1>3, FromParts

\* The fields of a document that adopts an analysis, or takes a roadmap.
LEMMA AdoptedFields ==
  ASSUME NEW d \in MigrationDoc, NEW s
  PROVE  LET new == [d EXCEPT !.state = "DESIGNING", !.summary = s, !.reused = TRUE] IN
         /\ new.state = "DESIGNING" /\ new.summary = s
         /\ new.planned = d.planned /\ new.exists = d.exists
  BY DEF MigrationDoc

\* A document that gets its roadmap keeps its analysis, plan and existence.
LEMMA RoadmapFields ==
  ASSUME NEW d \in MigrationDoc, NEW r
  PROVE  LET new == [d EXCEPT !.state = "RESTRUCTURING_READY", !.roadmap = r] IN
         /\ new.state = "RESTRUCTURING_READY" /\ new.summary = d.summary
         /\ new.reused = d.reused
         /\ new.planned = d.planned /\ new.exists = d.exists
  BY DEF MigrationDoc

\* Adopting a COMPLETED analysis leaves every document in order.
LEMMA AdoptOK ==
  ASSUME TypeInv, Inv, NEW m \in MigrationRef, NEW s, Completed(s), AdoptAnalysis(m, s),
         OnlyMig, approved' = approved
  PROVE  Grows /\ \A n \in Migrations : mig'[n] = mig[n] \/ DocOK(n)'
<1> DEFINE d == [mig[m] EXCEPT !.state = "DESIGNING", !.summary = s, !.reused = TRUE]
<1>0. sums' = sums /\ design' = design /\ remote' = remote
  BY DEF OnlyMig
<1>1. m \in Migrations
  BY LiveIsMigration DEF AdoptAnalysis, CanAdopt
<1>2. mig' = [mig EXCEPT ![m] = d]
  BY <1>1 DEF AdoptAnalysis
<1>3. /\ d.state = "DESIGNING" /\ d.summary = s
      /\ d.planned = mig[m].planned /\ d.exists = mig[m].exists
  BY <1>1, AdoptedFields
<1> HIDE DEF d
<1>4. mig'[m] = d /\ \A n \in Migrations : n # m => mig'[n] = mig[n]
  BY <1>1, <1>2
<1>5. Grows
  BY <1>0, <1>3, <1>4 DEF Grows
<1>6. DocOK(m)
  BY <1>1 DEF Inv
<1>7. DocOK(m)'
  BY <1>0, <1>3, <1>4, <1>6 DEF DocOK, Completed
<1> QED
  BY <1>4, <1>5, <1>7

\* Storing the roadmap leaves every document in order.
LEMMA RoadmapOK ==
  ASSUME TypeInv, Inv, NEW m \in MigrationRef, NEW r, SetRestructuringRoadmap(m, r),
         OnlyMig, approved' = approved
  PROVE  Grows /\ \A n \in Migrations : mig'[n] = mig[n] \/ DocOK(n)'
<1>0. sums' = sums /\ design' = design /\ remote' = remote
  BY DEF OnlyMig
<1>1. CASE Live(m) /\ mig[m].state = "AWAITING_APPROVAL"
  <2> DEFINE d == [mig[m] EXCEPT !.state = "RESTRUCTURING_READY", !.roadmap = r]
  <2>1. m \in Migrations
    BY <1>1, LiveIsMigration
  <2>2. mig' = [mig EXCEPT ![m] = d]
    BY <1>1, <2>1 DEF SetRestructuringRoadmap
  <2>3. /\ d.state = "RESTRUCTURING_READY" /\ d.summary = mig[m].summary
        /\ d.reused = mig[m].reused
        /\ d.planned = mig[m].planned /\ d.exists = mig[m].exists
    BY <2>1, RoadmapFields
  <2> HIDE DEF d
  <2>4. mig'[m] = d /\ \A n \in Migrations : n # m => mig'[n] = mig[n]
    BY <2>1, <2>2
  <2>5. Grows
    BY <1>0, <2>3, <2>4 DEF Grows
  <2>6. DocOK(m)
    BY <2>1 DEF Inv
  <2>7. DocOK(m)'
    BY <1>0, <1>1, <2>3, <2>4, <2>6 DEF DocOK, Completed
  <2> QED
    BY <2>4, <2>5, <2>7
<1>2. CASE ~(Live(m) /\ mig[m].state = "AWAITING_APPROVAL")
  <2>1. mig' = mig
    BY <1>2 DEF SetRestructuringRoadmap
  <2> QED
    BY <1>0, <2>1 DEF Grows
<1> QED
  BY <1>1, <1>2

\* The writes of single fields leave state, analysis and plan alone.
LEMMA FieldEffect ==
  ASSUME TypeInv, NEW m \in MigrationRef, NEW v, NEW b,
         \/ SoftDelete(m) \/ SetMigrabilityAssessment(m, v) \/ SetMigrabilityOverride(m, b)
         \/ SetRoadmapEnrichment(m) \/ SetServiceBlueprint(m)
  PROVE  \A n \in Migrations :
           /\ mig'[n].state = mig[n].state /\ mig'[n].summary = mig[n].summary
           /\ mig'[n].planned = mig[n].planned /\ mig'[n].exists = mig[n].exists
           /\ mig'[n].reused = mig[n].reused
<1>1. CASE SoftDelete(m)
  BY <1>1 DEF SoftDelete, MigrationDoc
<1>2. CASE SetMigrabilityAssessment(m, v)
  BY <1>2 DEF SetMigrabilityAssessment, MigrationDoc
<1>3. CASE SetMigrabilityOverride(m, b)
  BY <1>3 DEF SetMigrabilityOverride, MigrationDoc
<1>4. CASE SetRoadmapEnrichment(m)
  BY <1>4 DEF SetRoadmapEnrichment, MigrationDoc
<1>5. CASE SetServiceBlueprint(m)
  BY <1>5 DEF SetServiceBlueprint, MigrationDoc
<1> QED
  BY <1>1, <1>2, <1>3, <1>4, <1>5

\* Continuing an RPC keeps the invariant.
LEMMA CallStepInv ==
  ASSUME TypeInv, Inv, NEW c \in Callers, CallStep(c)
  PROVE  Inv'
<1>0. calls[c] \in Call /\ calls[c].m \in MigrationRef
  BY DEF Call
<1>a. CallIsJustified(calls[c])
  BY DEF Inv, InFlightIsJustified
<1>b. ASSUME NEW v, NEW b, OnlyMig, approved' = approved, Return(c),
             \/ SoftDelete(calls[c].m) \/ SetMigrabilityAssessment(calls[c].m, v)
             \/ SetMigrabilityOverride(calls[c].m, b)
             \/ SetRoadmapEnrichment(calls[c].m) \/ SetServiceBlueprint(calls[c].m)
      PROVE  Inv'
  <2>1. Grows /\ \A n \in Migrations : DocOK(n)'
    BY <1>0, <1>b, FieldEffect, FieldWriteOK
  <2> QED
    BY <1>b, <2>1, ReturnEffect, DocCallStep
<1>1. CASE DeleteWrite(c)
  BY <1>1, <1>b DEF DeleteWrite
<1>2. CASE StartAnalyzing(c)
  <2>1. /\ calls[c].pc \in {"analyzing", "reuse_analyzing"}
        /\ UpdateState(calls[c].m, "ANALYZING") /\ OnlyMig /\ approved' = approved
        /\ \/ calls[c].pc = "analyzing" /\ Goto_(c, "dispatch")
           \/ calls[c].pc = "reuse_analyzing" /\ Goto_(c, "adopt")
           \/ Return(c)
    BY <1>2 DEF StartAnalyzing, At
  <2>2. Grows /\ \A n \in Migrations : mig'[n] = mig[n] \/ DocOK(n)'
    BY <1>0, <2>1, UpdateStateOK, StateNames
  <2>3. CASE Return(c)
    BY <2>1, <2>2, <2>3, ReturnEffect, DocCallStep
  <2>4. CASE Goto_(c, "dispatch")
    BY <2>1, <2>2, <2>4, GotoCallEffect, OtherCall, DocCallStep DEF ReliantPcs
  <2>5. CASE calls[c].pc = "reuse_analyzing" /\ Goto_(c, "adopt")
    <3>1. /\ \A d \in Callers : d # c => calls'[d] = calls[d]
          /\ calls'[c].pc = "adopt" /\ calls'[c].s = calls[c].s
      BY <2>5, GotoCallEffect
    <3>2. Completed(calls[c].s)
      BY <1>a, <2>5 DEF CallIsJustified
    <3>3. Completed(calls[c].s)'
      BY <2>2, <3>1, <3>2 DEF Completed, Grows
    <3>4. CallIsJustified(calls[c])'
      BY <3>1, <3>3 DEF CallIsJustified
    <3> QED
      BY <2>1, <2>2, <3>1, <3>4, DocCallStep
  <2> QED
    BY <2>1, <2>3, <2>4, <2>5
<1>3. CASE \E s \in SummaryIds : StartDispatch(c, s)
  <2>1. PICK s \in SummaryIds : StartDispatch(c, s)
    BY <1>3
  <2> DEFINE call == [calls[c] EXCEPT !.pc = "dispatched", !.s = s]
             doc == [state |-> "RUNNING", m |-> calls[c].m, sha |-> 0]
  <2>2. /\ calls' = [calls EXCEPT ![c] = call] /\ sums[s].state = "none"
        /\ sums' = [sums EXCEPT ![s] = doc]
        /\ mig' = mig /\ jobs' = jobs /\ design' = design /\ recs' = recs
        /\ files' = files /\ remote' = remote /\ approved' = approved
    BY <2>1 DEF StartDispatch, CreateSummary, NextSummary
  <2>3. call.pc = "dispatched" /\ call.s = s /\ doc.state = "RUNNING"
    BY <1>0 DEF Call
  <2> HIDE DEF call, doc
  <2>4. /\ calls'[c] = call /\ \A d \in Callers : d # c => calls'[d] = calls[d]
        /\ sums'[s] = doc /\ \A t \in SummaryIds : t # s => sums'[t] = sums[t]
    BY <2>2
  <2>5. Grows
    BY <2>2, <2>3, <2>4 DEF Grows
  <2>6. Stored(calls[c].s)'
    BY <2>3, <2>4 DEF Stored
  <2>7. CallIsJustified(calls[c])'
    BY <2>3, <2>4, <2>6 DEF CallIsJustified
  <2> QED
    BY <2>2, <2>4, <2>5, <2>7, FromParts
<1>4. CASE StartDispatchFails(c)
  <2>1. UNCHANGED storeVars /\ approved' = approved /\ (Return(c) \/ Goto_(c, "rollback"))
    BY <1>4 DEF StartDispatchFails
  <2>2. (\A d \in Callers : d # c => calls'[d] = calls[d]) /\ CallIsJustified(calls[c])'
    BY <2>1, ReturnEffect, GotoCallEffect, OtherCall DEF ReliantPcs
  <2> QED
    BY <2>1, <2>2, QuietCallStep
<1>5. CASE StartDispatched(c)
  <2> DEFINE job == NewJob("analysis", calls[c].m, calls[c].s, {})
  <2>1. /\ calls[c].pc = "dispatched" /\ Enqueued(jobs, job) /\ OnlyJobs
        /\ approved' = approved /\ (Return(c) \/ Goto_(c, "rollback"))
    BY <1>5 DEF StartDispatched, EnqueueAnalysis, At
  <2>2. (\A d \in Callers : d # c => calls'[d] = calls[d]) /\ CallIsJustified(calls[c])'
    BY <2>1, ReturnEffect, GotoCallEffect, OtherCall DEF ReliantPcs
  <2>3. Stored(calls[c].s)
    BY <1>a, <2>1 DEF CallIsJustified
  <2>4. \A j \in JobIds : jobs'[j] = job => JobIsJustified(jobs[j])'
    BY <2>1, <2>3, QueuedJustified DEF Stored, OnlyJobs
  <2> HIDE DEF job
  <2> QED
    BY <2>1, <2>2, <2>4, EnqueueCallStep
<1>6. CASE StartAdopt(c)
  <2>1. /\ calls[c].pc = "adopt" /\ OnlyMig /\ approved' = approved
        /\ \/ AdoptAnalysis(calls[c].m, calls[c].s) /\ Goto_(c, "reuse_enqueue")
           \/ mig' = mig /\ Goto_(c, "rollback")
    BY <1>6 DEF StartAdopt, At
  <2>2. CASE AdoptAnalysis(calls[c].m, calls[c].s) /\ Goto_(c, "reuse_enqueue")
    <3>1. Completed(calls[c].s)
      BY <1>a, <2>1 DEF CallIsJustified
    <3>2. Grows /\ \A n \in Migrations : mig'[n] = mig[n] \/ DocOK(n)'
      BY <1>0, <2>1, <2>2, <3>1, AdoptOK
    <3>3. /\ \A d \in Callers : d # c => calls'[d] = calls[d]
          /\ calls'[c].pc = "reuse_enqueue" /\ calls'[c].s = calls[c].s
      BY <2>2, GotoCallEffect
    <3>4. Stored(calls[c].s)'
      BY <2>1, <3>1, <3>3 DEF Stored, Completed, OnlyMig
    <3>5. CallIsJustified(calls[c])'
      BY <3>3, <3>4 DEF CallIsJustified
    <3> QED
      BY <2>1, <3>2, <3>3, <3>5, DocCallStep
  <2>3. CASE mig' = mig /\ Goto_(c, "rollback")
    <3>1. Grows
      BY <2>1, <2>3 DEF Grows, OnlyMig
    <3>2. (\A d \in Callers : d # c => calls'[d] = calls[d]) /\ CallIsJustified(calls[c])'
      BY <2>3, GotoCallEffect, OtherCall DEF ReliantPcs
    <3> QED
      BY <2>1, <2>3, <3>1, <3>2, DocCallStep
  <2> QED
    BY <2>1, <2>2, <2>3
<1>7. CASE StartRollback(c)
  <2>1. UpdateState(calls[c].m, "PENDING") /\ OnlyMig /\ approved' = approved /\ Return(c)
    BY <1>7 DEF StartRollback
  <2>2. Grows /\ \A n \in Migrations : mig'[n] = mig[n] \/ DocOK(n)'
    BY <1>0, <2>1, UpdateStateOK, StateNames
  <2> QED
    BY <2>1, <2>2, ReturnEffect, DocCallStep
<1>8. CASE StartReuseEnqueue(c)
  <2> DEFINE job == NewJob("decompose", calls[c].m, calls[c].s, {})
  <2>1. /\ calls[c].pc = "reuse_enqueue" /\ Enqueued(jobs, job) /\ OnlyJobs
        /\ approved' = approved /\ Return(c)
    BY <1>8 DEF StartReuseEnqueue, At
  <2>2. (\A d \in Callers : d # c => calls'[d] = calls[d]) /\ CallIsJustified(calls[c])'
    BY <2>1, ReturnEffect
  <2>3. Stored(calls[c].s)
    BY <1>a, <2>1 DEF CallIsJustified
  <2>4. \A j \in JobIds : jobs'[j] = job => JobIsJustified(jobs[j])'
    BY <2>1, <2>3, QueuedJustified DEF Stored, OnlyJobs
  <2> HIDE DEF job
  <2> QED
    BY <2>1, <2>2, <2>4, EnqueueCallStep
<1>9. CASE ApproveWrite(c)
  <2>1. /\ calls[c].pc = "approve" /\ UpdateState(calls[c].m, "GENERATING") /\ OnlyMig
        /\ approved' = approved /\ (Return(c) \/ Goto_(c, "approve_enqueue"))
    BY <1>9 DEF ApproveWrite, At
  <2>2. Cleared(calls[c].m)
    BY <1>a, <2>1 DEF CallIsJustified
  <2>3. Grows /\ \A n \in Migrations : mig'[n] = mig[n] \/ DocOK(n)'
    BY <1>0, <2>1, <2>2, UpdateStateOK, StateNames
  <2>4. CASE Return(c)
    BY <2>1, <2>3, <2>4, ReturnEffect, DocCallStep
  <2>5. CASE Goto_(c, "approve_enqueue")
    <3>1. /\ \A d \in Callers : d # c => calls'[d] = calls[d]
          /\ calls'[c].pc = "approve_enqueue" /\ calls'[c].m = calls[c].m
      BY <2>5, GotoCallEffect
    <3>2. Cleared(calls[c].m)'
      BY <2>2, <2>3, <3>1 DEF Cleared, Grows
    <3>3. CallIsJustified(calls[c])'
      BY <3>1, <3>2 DEF CallIsJustified
    <3> QED
      BY <2>1, <2>3, <3>1, <3>3, DocCallStep
  <2> QED
    BY <2>1, <2>4, <2>5
<1>10. CASE ApproveEnqueue(c)
  <2> DEFINE job == NewJob("generation", calls[c].m, 0, calls[c].filter)
  <2>1. /\ calls[c].pc = "approve_enqueue" /\ Enqueued(jobs, job) /\ OnlyJobs
        /\ approved' = approved /\ Return(c)
    BY <1>10 DEF ApproveEnqueue, At
  <2>2. (\A d \in Callers : d # c => calls'[d] = calls[d]) /\ CallIsJustified(calls[c])'
    BY <2>1, ReturnEffect
  <2>3. Cleared(calls[c].m)
    BY <1>a, <2>1 DEF CallIsJustified
  <2>4. /\ job.kind = "generation" /\ job.m = calls[c].m
        /\ job.todo = {} /\ job.busy = {} /\ job.saving = {}
    BY NewJobFields
  <2> HIDE DEF job
  <2>5. ASSUME NEW j \in JobIds, jobs'[j] = job PROVE JobIsJustified(jobs[j])'
    <3>1. Cleared(jobs[j].m)'
      BY <2>1, <2>3, <2>4, <2>5 DEF Cleared, OnlyJobs
    <3> QED
      BY <2>4, <2>5, <3>1 DEF JobIsJustified
  <2> QED
    BY <2>1, <2>2, <2>5, EnqueueCallStep
<1>11. CASE CancelWrite(c)
  <2>1. UpdateState(calls[c].m, "CANCELLED") /\ OnlyMig /\ approved' = approved /\ Return(c)
    BY <1>11 DEF CancelWrite
  <2>2. Grows /\ \A n \in Migrations : mig'[n] = mig[n] \/ DocOK(n)'
    BY <1>0, <2>1, UpdateStateOK, StateNames
  <2> QED
    BY <2>1, <2>2, ReturnEffect, DocCallStep
<1>12. CASE AssessWrite(c)
  BY <1>12, <1>b DEF AssessWrite
<1>13. CASE OverrideWrite(c)
  BY <1>13, <1>b DEF OverrideWrite
<1>14. CASE \E r \in Roadmaps \ {"none"} : RoadmapWrite(c, r)
  <2>1. PICK r \in Roadmaps : RoadmapWrite(c, r)
    BY <1>14
  <2>2. SetRestructuringRoadmap(calls[c].m, r) /\ OnlyMig /\ approved' = approved /\ Return(c)
    BY <2>1 DEF RoadmapWrite
  <2>3. Grows /\ \A n \in Migrations : mig'[n] = mig[n] \/ DocOK(n)'
    BY <1>0, <2>2, RoadmapOK
  <2> QED
    BY <2>2, <2>3, ReturnEffect, DocCallStep
<1>15. CASE EnrichWrite(c)
  BY <1>15, <1>b DEF EnrichWrite
<1>16. CASE PublishPush(c)
  <2>1. /\ calls[c].pc = "push" /\ remote' = remote \cup {calls[c].m}
        /\ mig' = mig /\ sums' = sums /\ jobs' = jobs /\ design' = design /\ recs' = recs
        /\ files' = files /\ approved' = approved /\ (Return(c) \/ Goto_(c, "pushed"))
    BY <1>16 DEF PublishPush, At
  <2>2. Cleared(calls[c].m)
    BY <1>a, <2>1 DEF CallIsJustified
  <2>3. Grows
    BY <2>1 DEF Grows
  <2>4. \A m \in Migrations : m = calls[c].m => OutputOK(m)'
    BY <2>1, <2>2 DEF Inv, OutputOK, Cleared
  <2>5. (\A d \in Callers : d # c => calls'[d] = calls[d]) /\ CallIsJustified(calls[c])'
    <3>1. CASE Return(c)
      BY <3>1, ReturnEffect
    <3>2. CASE Goto_(c, "pushed")
      <4>1. /\ \A d \in Callers : d # c => calls'[d] = calls[d]
            /\ calls'[c].pc = "pushed" /\ calls'[c].m = calls[c].m
        BY <3>2, GotoCallEffect
      <4>2. Cleared(calls[c].m)' /\ calls'[c].m \in remote'
        BY <2>1, <2>2, <4>1 DEF Cleared
      <4> QED
        BY <4>1, <4>2 DEF CallIsJustified
    <3> QED
      BY <2>1, <3>1, <3>2
  <2> QED
    BY <2>1, <2>3, <2>4, <2>5, FromParts
<1>17. CASE PublishWrite(c)
  <2>1. /\ calls[c].pc = "pushed" /\ UpdateState(calls[c].m, "PUSHED") /\ OnlyMig
        /\ approved' = approved /\ Return(c)
    BY <1>17 DEF PublishWrite, At
  <2>2. Cleared(calls[c].m) /\ calls[c].m \in remote
    BY <1>a, <2>1 DEF CallIsJustified
  <2>3. Grows /\ \A n \in Migrations : mig'[n] = mig[n] \/ DocOK(n)'
    BY <1>0, <2>1, <2>2, UpdateStateOK, StateNames
  <2> QED
    BY <2>1, <2>3, ReturnEffect, DocCallStep
<1>18. CASE CallFails(c)
  BY <1>18, ReturnEffect, QuietCallStep DEF CallFails
<1> QED
  BY <1>1, <1>2, <1>3, <1>4, <1>5, <1>6, <1>7, <1>8, <1>9, <1>10, <1>11, <1>12, <1>13,
     <1>14, <1>15, <1>16, <1>17, <1>18 DEF CallStep

-----------------------------------------------------------------------------
(* The invariant, and what follows from it.                                *)

\* It holds initially.
LEMMA InitInv == Init => Inv
<1> SUFFICES ASSUME Init PROVE Inv
  OBVIOUS
<1>1. \A m \in Migrations : DocOK(m)
  BY DEF Init, StoreInit, NoMigration, NewMigration, EmptyDraft, DocOK
<1>2. \A m \in Migrations : OutputOK(m)
  BY DEF Init, StoreInit, OutputOK
<1>3. \A c \in Callers : CallIsJustified(calls[c])
  BY DEF Init, ServiceInit, Idle, CallIsJustified
<1>4. \A j \in JobIds : JobIsJustified(jobs[j])
  BY NewJobFields DEF Init, StoreInit, NoJob, JobIsJustified
<1> QED
  BY <1>1, <1>2, <1>3, <1>4 DEF Inv, InFlightIsJustified

\* Every step of the system keeps it.
LEMMA NextInv == TypeInv /\ Inv /\ [Next]_vars => Inv'
<1> SUFFICES ASSUME TypeInv, Inv, [Next]_vars PROVE Inv'
  OBVIOUS
<1>1. CASE ClientStep
  BY <1>1, ClientStepInv
<1>2. CASE \E c \in Callers : CallStep(c)
  BY <1>2, CallStepInv
<1>3. ASSUME NEW j \in JobIds, WorkerStep(j)
      PROVE  Inv'
  BY <1>3, AnalysisStepInv, DecompositionStepInv, GenerationStepInv, QueueStepInv DEF WorkerStep
<1>4. ASSUME NEW j \in JobIds, WorkerCrash(j), UNCHANGED serviceVars
      PROVE  Inv'
  BY <1>4, QueueStepInv
<1>5. CASE (SourcePush /\ UNCHANGED serviceVars) \/ UNCHANGED vars
  <2>1. /\ mig' = mig /\ sums' = sums /\ jobs' = jobs /\ design' = design /\ recs' = recs
        /\ files' = files /\ remote' = remote /\ calls' = calls /\ approved' = approved
    BY <1>5 DEF SourcePush, vars, storeVars, serviceVars
  <2>2. Grows
    BY <2>1 DEF Grows
  <2> QED
    BY <2>1, <2>2, FromParts
<1> QED
  BY <1>1, <1>2, <1>3, <1>4, <1>5 DEF Next

\* It holds throughout.
LEMMA Invariant == Spec => [](TypeInv /\ Inv)
<1>1. Init => TypeInv /\ Inv
  BY InitType, InitInv
<1>2. TypeInv /\ Inv /\ [Next]_vars => (TypeInv /\ Inv)'
  BY NextType, NextInv
<1> QED
  BY <1>1, <1>2, PTL DEF Spec

\* The engine links a migration only to a COMPLETED analysis: DESIGNING and
\* analysis_reused have one, and whoever changes a reference changes it to one. For
\* any number of migrations, analyses, tasks, retries and clients, whatever documents
\* they create migrations with, and under every fault of the model.
THEOREM ReferencesAreCompleted == Spec => LinkedAnalysisCompleted
<1>1. Inv => \A m \in Migrations :
               mig[m].state = "DESIGNING" \/ mig[m].reused => Completed(mig[m].summary)
  BY DEF Inv, DocOK
<1>2. TypeInv /\ Inv' /\ [Next]_vars =>
        [\A m \in Migrations : mig[m].exists /\ mig'[m].summary # mig[m].summary
                                => Completed(mig[m].summary)']_vars
  BY LinkWriters DEF Inv, DocOK
<1> QED
  BY <1>1, <1>2, Invariant, PTL DEF Spec, LinkedAnalysisCompleted

\* A migration that is open for approval or beyond has a plan, although WritePlan,
\* setFinalState and UpdateState do not look at the state they replace.
THEOREM ApprovalHasPlan == Spec => []PlanBeforeApproval
<1>1. Inv => PlanBeforeApproval
  BY DEF Inv, DocOK, PlanBeforeApproval
<1> QED
  BY <1>1, Invariant, PTL

\* The human gate cannot be passed by: nothing is generated, stored or pushed for a
\* migration that no approval on an approvable document preceded.
THEOREM GateHolds == Spec => []GeneratedOnlyAfterApproval
<1>1. Inv => GeneratedOnlyAfterApproval
  BY DEF Inv, DocOK, OutputOK, GeneratedOnlyAfterApproval
<1> QED
  BY <1>1, Invariant, PTL

\* No agent runs for a service without a stored design artifact, whatever filter
\* the approval carried and whenever the artifacts landed.
THEOREM GenerationIsDesigned == Spec => []GeneratedWasDesigned
<1>1. Inv => GeneratedWasDesigned
  BY DEF Inv, OutputOK, GeneratedWasDesigned
<1> QED
  BY <1>1, Invariant, PTL

\* PUSHED is only ever stored after a push of the migration's files succeeded.
THEOREM PushedIsHonest == Spec => []PushedWasPushed
<1>1. Inv => PushedWasPushed
  BY DEF Inv, DocOK, PushedWasPushed
<1> QED
  BY <1>1, Invariant, PTL

\* A call or an attempt in flight still stands on what its checks found, however
\* many writes of others came in between.
THEOREM InFlightStaysJustified == Spec => []InFlightIsJustified
<1>1. Inv => InFlightIsJustified
  BY DEF Inv
<1> QED
  BY <1>1, Invariant, PTL

-----------------------------------------------------------------------------
(* The analyses keep the life that AnalysisLifecycle promises.             *)

\* An analysis that was not created describes no commit.
UncreatedIsBlank == \A s \in SummaryIds : sums[s].state = "none" => sums[s].sha = 0

\* A step of the engine, seen on the analyses alone.
LifecycleStep == [Analyses!Next]_(Analyses!lifecycleVars)

\* The only steps that write summaries.
LEMMA SummaryWriters ==
  ASSUME [Next]_vars
  PROVE  \/ sums' = sums
         \/ \E c \in Callers, s \in SummaryIds : StartDispatch(c, s)
         \/ \E j \in JobIds : ReuseLink(j) \/ ReuseClose(j) \/ WriteSummary(j) \/ MarkSummaryFailed(j)
<1>1. CASE ClientStep
  <2>1. ASSUME NEW m \in Migrations, NEW d \in Drafts, CreateMigration(m, d)
        PROVE  sums' = sums
    BY <2>1 DEF CreateMigration, OnlyMig
  <2>2. ASSUME NEW c \in Callers, RunAnalysis(c)
        PROVE  sums' = sums
    BY <2>2 DEF RunAnalysis, storeVars
  <2>3. ASSUME NEW c \in Callers, NEW m \in Migrations,
               \/ DeleteMigration(c, m) \/ StartMigration(c, m) \/ StartWithReuse(c, m)
               \/ RejectDesign(c, m) \/ CancelMigration(c, m)
               \/ GenerateRestructuringRoadmap(c, m) \/ EnrichRoadmap(c, m)
               \/ GenerateBlueprint(c, m) \/ PublishMigration(c, m)
        PROVE  sums' = sums
    BY <2>3 DEF DeleteMigration, StartMigration, StartWithReuse, RejectDesign,
         CancelMigration, GenerateRestructuringRoadmap, EnrichRoadmap, GenerateBlueprint,
         PublishMigration, storeVars
  <2>4. ASSUME NEW c \in Callers, NEW m \in Migrations, NEW f, ApproveDesign(c, m, f)
        PROVE  sums' = sums
    BY <2>4 DEF ApproveDesign, storeVars
  <2>5. ASSUME NEW c \in Callers, NEW m \in Migrations, NEW a,
               AssessMigrability(c, m, a) \/ SetOverride(c, m, a)
        PROVE  sums' = sums
    BY <2>5 DEF AssessMigrability, SetOverride, storeVars
  <2> QED
    BY <1>1, <2>1, <2>2, <2>3, <2>4, <2>5 DEF ClientStep
<1>2. CASE \E c \in Callers : CallStep(c)
  BY <1>2 DEF CallStep, DeleteWrite, StartAnalyzing, StartDispatchFails, StartDispatched,
       StartAdopt, StartRollback, StartReuseEnqueue, ApproveWrite, ApproveEnqueue,
       CancelWrite, AssessWrite, OverrideWrite, RoadmapWrite, EnrichWrite, PublishPush,
       PublishWrite, CallFails, OnlyMig, OnlyJobs, storeVars
<1>3. ASSUME NEW j \in JobIds, WorkerStep(j)
      PROVE  \/ sums' = sums
             \/ ReuseLink(j) \/ ReuseClose(j) \/ WriteSummary(j) \/ MarkSummaryFailed(j)
  <2>1. CASE AnalysisStep(j)
    BY <2>1 DEF AnalysisStep, DedupHit, DedupMiss, ReuseMigration, AcquireAndAnalyze,
         WriteMigration, EnqueueDecompose, AnalysisFails, MarkMigrationFailed,
         OnlyJobs, JobsAndMig
  <2>2. CASE DecompositionStep(j)
    BY <2>2 DEF DecompositionStep, Decompose, WritePlan, UpsertArtifact, ArtifactsEnd,
         DecompositionFails, MarkDesignFailed, OnlyJobs, JobsAndMig
  <2>3. CASE GenerationStep(j)
    BY <2>3 DEF GenerationStep, ReadPackage, SkipIncomplete, StartService, FinishService,
         SaveFiles, Decide, SetFinalState, GenerationFails, OnlyJobs, JobsAndMig
  <2>4. CASE Ack(j)
    BY <2>4 DEF Ack, OnlyJobs
  <2> QED
    BY <1>3, <2>1, <2>2, <2>3, <2>4 DEF WorkerStep
<1>4. CASE \E j \in JobIds : WorkerCrash(j) /\ UNCHANGED serviceVars
  BY <1>4 DEF WorkerCrash, OnlyJobs
<1>5. CASE SourcePush /\ UNCHANGED serviceVars
  BY <1>5 DEF SourcePush
<1>6. CASE UNCHANGED vars
  BY <1>6 DEF vars, storeVars
<1> QED
  BY <1>1, <1>2, <1>3, <1>4, <1>5, <1>6 DEF Next

\* What a change of one summary shows of it.
LEMMA OneSummary ==
  ASSUME TypeInv, NEW t \in SummaryIds, NEW d \in SummaryDoc,
         sums' = [sums EXCEPT ![t] = d]
  PROVE  /\ [s \in SummaryIds |-> sums'[s].state] =
              [[s \in SummaryIds |-> sums[s].state] EXCEPT ![t] = d.state]
         /\ [s \in SummaryIds |-> sums'[s].m] =
              [[s \in SummaryIds |-> sums[s].m] EXCEPT ![t] = d.m]
         /\ [s \in SummaryIds |-> sums'[s].sha] =
              [[s \in SummaryIds |-> sums[s].sha] EXCEPT ![t] = d.sha]
  OBVIOUS

\* Every step of the engine is a step of the lifecycle, or leaves it alone.
LEMMA StepKeepsLifecycle ==
  ASSUME TypeInv, Inv, UncreatedIsBlank, [Next]_vars
  PROVE  LifecycleStep /\ UncreatedIsBlank'
<1> USE DEF SummaryDoc
<1>1. CASE sums' = sums
  BY <1>1 DEF LifecycleStep, Analyses!lifecycleVars, UncreatedIsBlank
<1>2. ASSUME NEW c \in Callers, NEW t \in SummaryIds, StartDispatch(c, t)
      PROVE  LifecycleStep /\ UncreatedIsBlank'
  <2>0. PICK o : o = calls[c].m
    OBVIOUS
  <2> DEFINE d == [state |-> "RUNNING", m |-> o, sha |-> 0]
  <2>1. sums[t].state = "none" /\ sums[t].sha = 0 /\ sums' = [sums EXCEPT ![t] = d]
    BY <1>2, <2>0 DEF StartDispatch, CreateSummary, NextSummary, UncreatedIsBlank
  <2>2. o \in Migrations \cup {0}
    BY <2>0, StoreAssumption DEF Call, MigrationRef, Migrations
  <2>3. d \in SummaryDoc
    BY <2>2, StoreAssumption DEF SummaryState, MigrationRef, Migrations, CommitRef
  <2>4. Analyses!Create(t, o)
    BY <2>1, <2>3, OneSummary DEF Analyses!Create
  <2>5. Analyses!Next
    BY <2>2, <2>4, Zenon DEF Analyses!Next
  <2>6. UncreatedIsBlank'
    BY <2>1 DEF UncreatedIsBlank
  <2> QED
    BY <2>5, <2>6 DEF LifecycleStep
<1>3. ASSUME NEW j \in JobIds, ReuseLink(j)
      PROVE  LifecycleStep /\ UncreatedIsBlank'
  <2>0. PICK t : t = jobs[j].ref
    OBVIOUS
  <2>1. t \in SummaryIds /\ sums[t].state = "COMPLETED"
    BY <1>3, <2>0 DEF Inv, InFlightIsJustified, JobIsJustified, ReuseLink, Running, Completed
  <2>2. CASE sums[t].m = 0 /\ jobs[j].m # 0
    <3>0. PICK o : o = jobs[j].m
      OBVIOUS
    <3> DEFINE d == [sums[t] EXCEPT !.m = o]
    <3>1. sums' = [sums EXCEPT ![t] = d]
      BY <1>3, <2>0, <2>1, <2>2, <3>0 DEF ReuseLink
    <3>2. o \in Migrations
      BY <2>2, <3>0, StoreAssumption DEF Job, MigrationRef, Migrations
    <3>3. d \in SummaryDoc /\ d.state = sums[t].state /\ d.sha = sums[t].sha /\ d.m = o
      <4>1. sums[t] \in SummaryDoc /\ o \in MigrationRef
        BY <2>1, <3>2, StoreAssumption DEF MigrationRef, Migrations
      <4> QED
        BY <4>1
    <3> HIDE DEF d
    <3>4. Analyses!Claim(t, o)
      BY <2>1, <2>2, <3>1, <3>3, OneSummary DEF Analyses!Claim
    <3>5. Analyses!Next
      BY <2>1, <3>2, <3>4, Zenon DEF Analyses!Next
    <3>6. UncreatedIsBlank'
      BY <2>1, <3>1, <3>3 DEF UncreatedIsBlank
    <3> QED
      BY <3>5, <3>6 DEF LifecycleStep
  <2>3. CASE sums[t].m # 0 \/ jobs[j].m = 0
    <3>1. sums' = sums
      BY <1>3, <2>0, <2>1, <2>3 DEF ReuseLink
    <3> QED
      BY <1>1, <3>1
  <2> QED
    BY <2>2, <2>3
<1>4. ASSUME NEW j \in JobIds, ReuseClose(j) \/ MarkSummaryFailed(j)
      PROVE  LifecycleStep /\ UncreatedIsBlank'
  <2>0. PICK t : t = jobs[j].s
    OBVIOUS
  <2>1. t \in SummaryIds
    BY <1>4, <2>0 DEF Inv, InFlightIsJustified, JobIsJustified, ReuseClose, MarkSummaryFailed,
         Running, Stored
  <2>2. MarkAnalysisFailed(t) \/ sums' = sums
    BY <1>4, <2>0 DEF ReuseClose, MarkSummaryFailed
  <2>3. CASE sums[t].state = "RUNNING" /\ MarkAnalysisFailed(t)
    <3> DEFINE d == [sums[t] EXCEPT !.state = "FAILED"]
    <3>1. sums' = [sums EXCEPT ![t] = d]
      BY <2>1, <2>3 DEF MarkAnalysisFailed
    <3>2. d \in SummaryDoc /\ d.state = "FAILED" /\ d.sha = sums[t].sha /\ d.m = sums[t].m
      BY <2>1 DEF SummaryState
    <3> HIDE DEF d
    <3>3. Analyses!Fail(t)
      BY <2>1, <2>3, <3>1, <3>2, OneSummary DEF Analyses!Fail
    <3> QED
      BY <2>1, <3>1, <3>2, <3>3 DEF LifecycleStep, Analyses!Next, UncreatedIsBlank
  <2>4. CASE ~(sums[t].state = "RUNNING" /\ MarkAnalysisFailed(t))
    <3>1. sums' = sums
      BY <2>2, <2>4 DEF MarkAnalysisFailed
    <3> QED
      BY <1>1, <3>1
  <2> QED
    BY <2>3, <2>4
<1>5. ASSUME NEW j \in JobIds, WriteSummary(j)
      PROVE  LifecycleStep /\ UncreatedIsBlank'
  <2>0. PICK t : t = jobs[j].s
    OBVIOUS
  <2>1. t \in SummaryIds
    BY <1>5, <2>0 DEF Inv, InFlightIsJustified, JobIsJustified, WriteSummary, Running, Stored
  <2>2. PICK h \in CommitRef : h = jobs[j].sha
    BY DEF Job
  <2>3. CASE sums[t].state = "RUNNING"
    <3> DEFINE d == [sums[t] EXCEPT !.state = "COMPLETED", !.sha = h]
    <3>1. sums' = [sums EXCEPT ![t] = d]
      BY <1>5, <2>0, <2>1, <2>2, <2>3 DEF WriteSummary
    <3>2. d \in SummaryDoc /\ d.state = "COMPLETED" /\ d.sha = h /\ d.m = sums[t].m
      BY <2>1, <2>2 DEF SummaryState
    <3> HIDE DEF d
    <3>3. Analyses!Complete(t, h)
      BY <2>1, <2>3, <3>1, <3>2, OneSummary DEF Analyses!Complete
    <3>4. Analyses!Next
      BY <2>1, <2>2, <3>3, Zenon DEF Analyses!Next
    <3>5. UncreatedIsBlank'
      BY <2>1, <3>1, <3>2 DEF UncreatedIsBlank
    <3> QED
      BY <3>4, <3>5 DEF LifecycleStep
  <2>4. CASE sums[t].state # "RUNNING"
    <3>1. sums' = sums
      BY <1>5, <2>0, <2>4 DEF WriteSummary
    <3> QED
      BY <1>1, <3>1
  <2> QED
    BY <2>3, <2>4
<1> QED
  BY <1>1, <1>2, <1>3, <1>4, <1>5, SummaryWriters

\* The engine implements the lifecycle of its analyses: each is created once, ends
\* once, is never reopened, failed or rewritten afterwards - not by a retry, not by
\* a duplicate of its task, not by the clean-up of a reuse - and never changes
\* owner once it has one.
THEOREM LifecycleIsKept == Spec => AnalysesKeepTheirLifecycle
<1>1. Init => Analyses!Init /\ UncreatedIsBlank
  BY DEF Init, StoreInit, NoSummary, UncreatedIsBlank, Analyses!Init
<1>2. TypeInv /\ Inv /\ UncreatedIsBlank /\ [Next]_vars =>
        [Analyses!Next]_(Analyses!lifecycleVars) /\ UncreatedIsBlank'
  BY StepKeepsLifecycle DEF LifecycleStep
<1> QED
  BY <1>1, <1>2, Invariant, PTL DEF Spec, AnalysesKeepTheirLifecycle, Analyses!Spec
=============================================================================
