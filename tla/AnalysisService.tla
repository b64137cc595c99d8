--------------------------- MODULE AnalysisService ---------------------------
(***************************************************************************)
(* RunAnalysis of the analysis service, as the steps it takes on the       *)
(* shared store: the duplicate check of a standalone run, the insertion of *)
(* the RUNNING summary, and the best-effort enqueue of the analysis task.  *)
(***************************************************************************)
EXTENDS MigrationStore

\* The next identifier of collection analysis_summaries.
NextSummary(s) == sums[s].state = "none" /\ \A t \in SummaryIds : t < s => sums[t].state # "none"

\* Standalone runs only, unless forced: the newest COMPLETED analysis of the
\* branch already covers the branch head.
DuplicateAnalysis == \E s \in SummaryIds : LatestCompleted(s) /\ sums[s].sha = head

\* repo.Create: a summary in state RUNNING linked to migration m (0: none).
CreateSummary(m, s) ==
  /\ NextSummary(s)
  /\ sums' = [sums EXCEPT ![s] = [state |-> "RUNNING", m |-> m, sha |-> 0]]

\* enqueuer.EnqueueAnalysis, whose failure is only logged.
EnqueueAnalysis(m, s) == Enqueued(jobs, NewJob("analysis", m, s, {}))
=============================================================================
