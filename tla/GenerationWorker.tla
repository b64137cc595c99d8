--------------------------- MODULE GenerationWorker ---------------------------
(***************************************************************************)
(* The generation worker: one attempt of a generation:run task. Up to      *)
(* Concurrency services are generated at a time, each by an agent whose    *)
(* outcome is left to chance. Record writes are best effort; the decision  *)
(* READY or FAILED is taken on the records read back from Mongo.           *)
(***************************************************************************)
EXTENDS MigrationStore

CONSTANT Concurrency   \* the weight of the semaphore (2 by default)

ASSUME GenerationAssumption == Concurrency \in Nat \ {0}

\* mutant: the services are taken from the plan instead of the artifacts
PackagedFromPlan(m) == mig[m].services

\* ReadPackage: the services with design artifacts.
Packaged(m) == {x \in Services : design[m][x] # "none"}

\* An empty filter selects every service.
Selected(svcs, filter) == IF filter = {} THEN svcs ELSE svcs \cap filter

\* doneSet: the services without a record "done".
NotDone(m, svcs) == {x \in svcs : recs[m][x] # "done"}

\* ReadPackage, the filter and the first ListRecords. The state of the
\* migration is not read.
ReadPackage(j) ==
  /\ Running(j, "generation", "queued")
  /\ LET m == jobs[j].m IN
     /\ Live(m) /\ Packaged(m) # {}
     /\ jobs' = [jobs EXCEPT ![j].pc = "generate",
                             ![j].full = {x \in Services : design[m][x] = "complete"},
                             ![j].todo = NotDone(m, Selected(Packaged(m), jobs[j].filter))]
  /\ OnlyJobs

\* UpsertRecord: an error is only logged.
UpsertRecord(m, x, status) ==
  \/ recs' = [recs EXCEPT ![m][x] = status]
  \/ "io" \in Faults /\ recs' = recs

\* An incomplete contract fails the service without running the agent.
SkipIncomplete(j, x) ==
  /\ Running(j, "generation", "generate")
  /\ x \in jobs[j].todo \ jobs[j].full
  /\ UpsertRecord(jobs[j].m, x, "failed")
  /\ jobs' = [jobs EXCEPT ![j].todo = @ \ {x}]
  /\ UNCHANGED <<mig, sums, head, design, files, remote>>

\* A goroutine passes the semaphore and generateService begins.
StartService(j, x) ==
  /\ Running(j, "generation", "generate")
  /\ x \in jobs[j].todo \cap jobs[j].full
  /\ Cardinality(jobs[j].busy \cup jobs[j].saving) < Concurrency
  /\ UpsertRecord(jobs[j].m, x, "generating")
  /\ jobs' = [jobs EXCEPT ![j].todo = @ \ {x}, ![j].busy = @ \cup {x}]
  /\ UNCHANGED <<mig, sums, head, design, files, remote>>

\* The last agent run of the service is over: the outcome is recorded first ...
FinishService(j, x, status) ==
  /\ Running(j, "generation", "generate")
  /\ x \in jobs[j].busy
  /\ UpsertRecord(jobs[j].m, x, status)
  /\ jobs' = [jobs EXCEPT ![j].busy = @ \ {x}, ![j].saving = @ \cup {x}]
  /\ UNCHANGED <<mig, sums, head, design, files, remote>>

\* ... and then the files that run left, also when the gates failed. An agent
\* that left none, or an error of the store, leaves the collection as it is.
SaveFiles(j, x) ==
  /\ Running(j, "generation", "generate")
  /\ x \in jobs[j].saving
  /\ \/ files' = [files EXCEPT ![jobs[j].m] = @ \cup {x}]
     \/ files' = files
  /\ jobs' = [jobs EXCEPT ![j].saving = @ \ {x}]
  /\ UNCHANGED <<mig, sums, head, design, recs, remote>>

\* anyFailed: over every record of the migration, whatever the filter.
AnyFailed(j) == \E x \in Services : recs[jobs[j].m][x] = "failed"

\* wg.Wait has returned: the records are listed, assembleErrorAggregator stores
\* message_error.go (unless no error variables are found or the store fails), and
\* the final state is chosen.
Decide(j) ==
  /\ Running(j, "generation", "generate")
  /\ jobs[j].todo = {} /\ jobs[j].busy = {} /\ jobs[j].saving = {}
  /\ \/ files' = [files EXCEPT ![jobs[j].m] = @ \cup {Aggregator}]
     \/ files' = files
  /\ Goto(j, IF AnyFailed(j) THEN "mark_failed" ELSE "mark_ready")
  /\ UNCHANGED <<mig, sums, head, design, recs, remote>>

\* setFinalState: filtered by delete_time, not by state.
SetFinalState(j) ==
  /\ jobs[j].kind = "generation" /\ jobs[j].pc \in {"mark_ready", "mark_failed"}
  /\ Live(jobs[j].m)
  /\ mig' = [mig EXCEPT ![jobs[j].m].state =
               IF jobs[j].pc = "mark_ready" THEN "READY" ELSE "FAILED"]
  /\ Goto(j, "ack")
  /\ JobsAndMig

\* Run returns an error: no package, a list or the state update failed, or the
\* 90 minutes of the attempt ran out. After the last one the task is archived
\* and nobody marks the migration.
GenerationFails(j) ==
  /\ jobs[j].kind = "generation" /\ jobs[j].pc # "ack"
  /\ \/ "io" \in Faults
     \/ "stage" \in Faults /\ jobs[j].pc = "generate"
     \/ jobs[j].pc = "queued" /\ (~Live(jobs[j].m) \/ Packaged(jobs[j].m) = {})
     \/ jobs[j].pc \in {"mark_ready", "mark_failed"} /\ ~Live(jobs[j].m)
  /\ AttemptFails(j, "archive")
  /\ OnlyJobs

GenerationStep(j) ==
  \/ ReadPackage(j)
  \/ \E x \in Services : SkipIncomplete(j, x)
  \/ \E x \in Services : StartService(j, x)
  \/ \E x \in Services, status \in {"done", "failed"} : FinishService(j, x, status)
  \/ \E x \in Services : SaveFiles(j, x)
  \/ Decide(j)
  \/ SetFinalState(j)
  \/ GenerationFails(j)
=============================================================================
