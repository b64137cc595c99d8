\* No fault at all: the approval lands before the design artifacts do.
CONSTANTS
  NumMigrations = 1
  MaxSummaries  = 1
  MaxJobs       = 2
  MaxRetry      = 1
  MaxCommits    = 1
  Services      = {s1, s2}
  Aggregator    = agg
  Concurrency   = 2
  Drafts        <- SourceDrafts
  Faults        = {}
  Callers       = {c1}
  ClientOps     = {"Create", "Start", "Approve"}
  Filters       = {{}}
SPECIFICATION Spec
INVARIANTS ReadyMeansAllDone
CHECK_DEADLOCK FALSE
