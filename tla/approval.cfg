\* Two clients assess, override, approve and publish one migration while a worker
\* or a handler may die between any two writes.
CONSTANTS
  NumMigrations = 1
  MaxSummaries  = 1
  MaxJobs       = 2
  MaxRetry      = 0
  MaxCommits    = 1
  Services      = {s1}
  Aggregator    = agg
  Concurrency   = 2
  Drafts        <- FilledDrafts
  Faults        = {"crash"}
  Callers       = {c1, c2}
  ClientOps     = {"Create", "Start", "Approve", "Assess", "Override", "Publish"}
  Filters       = {{}}
SPECIFICATION Spec
SYMMETRY Symmetry
INVARIANTS PlanBeforeApproval GeneratedOnlyAfterApproval PushedWasPushed InFlightIsJustified
CHECK_DEADLOCK FALSE
