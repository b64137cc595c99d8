------------------------- MODULE DecompositionWorker -------------------------
(***************************************************************************)
(* The decomposition worker: one attempt of a decompose:run task. Stages 1 *)
(* to 6 only read; what they compute is the set of proposed services and   *)
(* which of them have a complete contract, both left to chance here. The   *)
(* plan is written in one update and the design artifacts one by one       *)
(* after it, when the migration is already open for approval.              *)
(***************************************************************************)
EXTENDS MigrationStore

\* Stages 1 to 6. The summary the task names exists: the enqueuer stored it.
Decompose(j, svcs, full) ==
  /\ Running(j, "decompose", "queued")
  /\ full \subseteq svcs
  /\ jobs' = [jobs EXCEPT ![j].pc = "write_plan", ![j].svcs = svcs, ![j].full = full,
                          ![j].todo = svcs]
  /\ OnlyJobs

\* mutant: the state advances and the plan is left for a later write
WritePlanStateOnly(m, svcs) ==
  mig' = [mig EXCEPT ![m].state = "AWAITING_APPROVAL"]

\* The update of WritePlan: filtered by delete_time, not by state.
StorePlan(m, svcs) ==
  mig' = [mig EXCEPT ![m].state = "AWAITING_APPROVAL", ![m].planned = TRUE, ![m].services = svcs]

\* WritePlan, and the next step: a plan without services has no artifacts.
WritePlan(j) ==
  /\ Running(j, "decompose", "write_plan")
  /\ Live(jobs[j].m)
  /\ StorePlan(jobs[j].m, jobs[j].svcs)
  /\ Goto(j, IF jobs[j].svcs = {} THEN "ack" ELSE "artifacts")
  /\ JobsAndMig

\* UpsertArtifacts, one service: incomplete when no full contract was derived.
UpsertArtifact(j, x) ==
  /\ Running(j, "decompose", "artifacts")
  /\ x \in jobs[j].todo
  /\ design' = [design EXCEPT ![jobs[j].m][x] = IF x \in jobs[j].full THEN "complete"
                                                ELSE "incomplete"]
  /\ jobs' = [jobs EXCEPT ![j].todo = @ \ {x}]
  /\ UNCHANGED <<mig, sums, head, recs, files, remote>>

\* The last artifact is stored, or one failed, which ends the loop with a log.
ArtifactsEnd(j) ==
  /\ Running(j, "decompose", "artifacts")
  /\ jobs[j].todo = {} \/ "io" \in Faults
  /\ Goto(j, "ack")
  /\ OnlyJobs

\* mutant: the last attempt fails without marking the migration
DecompositionFailsSilently(j) ==
  /\ jobs[j].kind = "decompose"
  /\ "stage" \in Faults /\ jobs[j].pc = "queued"
  /\ AttemptFails(j, "archive")
  /\ OnlyJobs

\* A stage fails, or the plan's migration is gone.
DecompositionFails(j) ==
  /\ jobs[j].kind = "decompose"
  /\ \/ "stage" \in Faults /\ jobs[j].pc = "queued"
     \/ "io" \in Faults /\ jobs[j].pc \in {"queued", "write_plan"}
     \/ jobs[j].pc = "write_plan" /\ ~Live(jobs[j].m)
  /\ AttemptFails(j, "mark_migration")
  /\ OnlyJobs

\* ProcessTask, last attempt: MarkFailed, while the migration is DESIGNING.
MarkDesignFailed(j) ==
  /\ Running(j, "decompose", "mark_migration")
  /\ \/ mig' = IF Live(jobs[j].m) /\ mig[jobs[j].m].state = "DESIGNING"
               THEN [mig EXCEPT ![jobs[j].m].state = "FAILED"]
               ELSE mig
     \/ "io" \in Faults /\ mig' = mig
  /\ jobs' = [jobs EXCEPT ![j] = NoJob]
  /\ JobsAndMig

DecompositionStep(j) ==
  \/ \E svcs, full \in SUBSET Services : Decompose(j, svcs, full)
  \/ WritePlan(j)
  \/ \E x \in Services : UpsertArtifact(j, x)
  \/ ArtifactsEnd(j)
  \/ DecompositionFails(j)
  \/ MarkDesignFailed(j)
=============================================================================
