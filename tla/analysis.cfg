\* Two migrations and standalone analyses of one branch that moves once, with
\* crashes and failing stages: the dedup, reuse and retry races.
CONSTANTS
  NumMigrations = 2
  MaxSummaries  = 2
  MaxJobs       = 2
  MaxRetry      = 1
  MaxCommits    = 2
  Services      = {}
  Aggregator    = agg
  Concurrency   = 2
  Drafts        <- LinkedDrafts
  Faults        = {"crash", "stage"}
  Callers       = {c1}
  ClientOps     = {"Create", "Start", "RunAnalysis", "ForceAnalysis"}
  Filters       = {{}}
SPECIFICATION Spec
INVARIANTS TypeOK
PROPERTIES LinkedAnalysisCompleted AnalysesKeepTheirLifecycle
CHECK_DEADLOCK FALSE
