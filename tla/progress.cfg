\* Fair handlers and workers, failing stages and retries, two clients: everything
\* that was started ends.
CONSTANTS
  NumMigrations = 1
  MaxSummaries  = 2
  MaxJobs       = 3
  MaxRetry      = 1
  MaxCommits    = 1
  Services      = {s1}
  Aggregator    = agg
  Concurrency   = 2
  Drafts        <- SourceDrafts
  Faults        = {"stage"}
  Callers       = {c1, c2}
  ClientOps     = {"Create", "Start"}
  Filters       = {{}}
SPECIFICATION FairSpec
PROPERTIES AnalysisEnds DesignEnds
CHECK_DEADLOCK FALSE
