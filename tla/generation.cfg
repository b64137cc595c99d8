\* One client approves with and without a service filter and publishes; records,
\* files, lists and state updates may fail and the task is retried.
CONSTANTS
  NumMigrations = 1
  MaxSummaries  = 1
  MaxJobs       = 2
  MaxRetry      = 1
  MaxCommits    = 1
  Services      = {s1, s2}
  Aggregator    = agg
  Concurrency   = 2
  Drafts        <- FilledDrafts
  Faults        = {"io"}
  Callers       = {c1}
  ClientOps     = {"Create", "Start", "Approve", "Publish"}
  Filters       = {{}, {s1}}
SPECIFICATION Spec
INVARIANTS GeneratedWasDesigned
CHECK_DEADLOCK FALSE
