--------------------------- MODULE AnalysisWorker ---------------------------
(***************************************************************************)
(* The analysis worker: one attempt of an analysis:run task, from the      *)
(* dedup check to the hand-over to the decomposition worker. Stages 1 to 6 *)
(* read the clone and keep their results in memory, so they are one step;  *)
(* each write to Mongo and the enqueue are steps of their own, and a crash *)
(* may come between any two.                                               *)
(***************************************************************************)
EXTENDS MigrationStore

\* FindCompletedForBranch: the newest COMPLETED summary s covers the head.
CoversHead(s) == LatestCompleted(s) /\ sums[s].sha = head

\* The dedup check of a migration's job found an analysis of the branch head.
DedupHit(j, s) ==
  /\ Running(j, "analysis", "queued")
  /\ jobs[j].m # 0
  /\ CoversHead(s)
  /\ jobs' = [jobs EXCEPT ![j].pc = "reuse_migration", ![j].ref = s]
  /\ OnlyJobs

\* No usable analysis, a standalone job, or a resolver or lookup that failed.
DedupMiss(j) ==
  /\ Running(j, "analysis", "queued")
  /\ \/ jobs[j].m = 0
     \/ \A s \in SummaryIds : ~CoversHead(s)
     \/ Faults \cap {"stage", "io"} # {}
  /\ Goto(j, "acquire")
  /\ OnlyJobs

\* The update ANALYZING -> DESIGNING that Write and WriteReuse share.
AdvanceToDesigning(m, s, reused) ==
  mig' = IF Live(m) /\ mig[m].state = "ANALYZING"
         THEN [mig EXCEPT ![m].state = "DESIGNING", ![m].summary = s,
                          ![m].reused = @ \/ reused]
         ELSE mig

\* WriteReuse, first update. A migration that is elsewhere is skipped silently.
ReuseMigration(j) ==
  /\ Running(j, "analysis", "reuse_migration")
  /\ AdvanceToDesigning(jobs[j].m, jobs[j].ref, TRUE)
  /\ Goto(j, "reuse_link")
  /\ JobsAndMig

\* WriteReuse, second update: a standalone summary becomes the migration's.
ReuseLink(j) ==
  /\ Running(j, "analysis", "reuse_link")
  /\ sums' = IF sums[jobs[j].ref].m = 0
             THEN [sums EXCEPT ![jobs[j].ref].m = jobs[j].m]
             ELSE sums
  /\ Goto(j, "reuse_close")
  /\ JobsAndSums

\* mutant: the guard on RUNNING is missing
MarkAnalysisFailedAny(s) ==
  sums' = [sums EXCEPT ![s].state = "FAILED"]

MarkAnalysisFailed(s) ==
  sums' = IF sums[s].state = "RUNNING" THEN [sums EXCEPT ![s].state = "FAILED"] ELSE sums

\* The job's own summary is closed as superseded; an error is only logged.
ReuseClose(j) ==
  /\ Running(j, "analysis", "reuse_close")
  /\ MarkAnalysisFailed(jobs[j].s) \/ ("io" \in Faults /\ sums' = sums)
  /\ Goto(j, "enqueue")
  /\ JobsAndSums

\* The commit of the clone; 0 when rev-parse fails, which is not an error.
ResolvedHead == {head} \cup (IF "noSha" \in Faults THEN {0} ELSE {})

\* Stages 1 to 6: the clone fixes the commit the summary will describe.
AcquireAndAnalyze(j) ==
  /\ Running(j, "analysis", "acquire")
  /\ \E sha \in ResolvedHead :
       jobs' = [jobs EXCEPT ![j].pc = "write_summary", ![j].sha = sha, ![j].ref = jobs[j].s]
  /\ OnlyJobs

\* Write, first update: RUNNING -> COMPLETED. A summary that is not RUNNING any
\* more is left alone, and so is the migration; the decompose task is still sent.
WriteSummary(j) ==
  /\ Running(j, "analysis", "write_summary")
  /\ LET s == jobs[j].s
         won == sums[s].state = "RUNNING"
     IN  /\ sums' = IF won THEN [sums EXCEPT ![s].state = "COMPLETED", ![s].sha = jobs[j].sha]
                    ELSE sums
         /\ Goto(j, IF jobs[j].m = 0 THEN "ack"
                    ELSE IF won THEN "write_migration" ELSE "enqueue")
  /\ JobsAndSums

\* Write, second update: ANALYZING -> DESIGNING.
WriteMigration(j) ==
  /\ Running(j, "analysis", "write_migration")
  /\ AdvanceToDesigning(jobs[j].m, jobs[j].s, FALSE)
  /\ Goto(j, "enqueue")
  /\ JobsAndMig

\* EnqueueDecompose, whose failure is only logged.
EnqueueDecompose(j) ==
  /\ Running(j, "analysis", "enqueue")
  /\ Enqueued([jobs EXCEPT ![j].pc = "ack"], NewJob("decompose", jobs[j].m, jobs[j].ref, {}))
  /\ OnlyJobs

\* mutant: the last attempt fails without marking anything
AnalysisFailsSilently(j) ==
  /\ jobs[j].kind = "analysis"
  /\ "stage" \in Faults /\ jobs[j].pc = "acquire"
  /\ AttemptFails(j, "archive")
  /\ OnlyJobs

\* A stage or a write fails: Run returns the error.
AnalysisFails(j) ==
  /\ jobs[j].kind = "analysis"
  /\ \/ "stage" \in Faults /\ jobs[j].pc = "acquire"
     \/ "io" \in Faults /\ jobs[j].pc \in {"write_summary", "write_migration",
                                          "reuse_migration", "reuse_link"}
  /\ AttemptFails(j, "mark_summary")
  /\ OnlyJobs

\* ProcessTask, last attempt: the summary is marked FAILED ...
MarkSummaryFailed(j) ==
  /\ Running(j, "analysis", "mark_summary")
  /\ MarkAnalysisFailed(jobs[j].s) \/ ("io" \in Faults /\ sums' = sums)
  /\ jobs' = [jobs EXCEPT ![j] = IF jobs[j].m = 0 THEN NoJob
                                 ELSE [jobs[j] EXCEPT !.pc = "mark_migration"]]
  /\ JobsAndSums

\* ... and then the migration, while it is ANALYZING.
MarkMigrationFailed(j) ==
  /\ Running(j, "analysis", "mark_migration")
  /\ \/ mig' = IF Live(jobs[j].m) /\ mig[jobs[j].m].state = "ANALYZING"
               THEN [mig EXCEPT ![jobs[j].m].state = "FAILED"]
               ELSE mig
     \/ "io" \in Faults /\ mig' = mig
  /\ jobs' = [jobs EXCEPT ![j] = NoJob]
  /\ JobsAndMig

AnalysisStep(j) ==
  \/ \E s \in SummaryIds : DedupHit(j, s)
  \/ DedupMiss(j)
  \/ ReuseMigration(j)
  \/ ReuseLink(j)
  \/ ReuseClose(j)
  \/ AcquireAndAnalyze(j)
  \/ WriteSummary(j)
  \/ WriteMigration(j)
  \/ EnqueueDecompose(j)
  \/ AnalysisFails(j)
  \/ MarkSummaryFailed(j)
  \/ MarkMigrationFailed(j)
=============================================================================
