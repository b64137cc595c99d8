\* Two clients take a migration to its end states and delete it, while stages fail,
\* enqueues are lost and the answer of a dispatch does not arrive.
CONSTANTS
  NumMigrations = 1
  MaxSummaries  = 1
  MaxJobs       = 2
  MaxRetry      = 1
  MaxCommits    = 1
  Services      = {s1}
  Aggregator    = agg
  Concurrency   = 2
  Drafts        <- FilledDrafts
  Faults        = {"stage", "lostTask", "lostReply", "noSha"}
  Callers       = {c1, c2}
  ClientOps     = {"Create", "Start", "Reject", "Assess", "Roadmap", "Enrich", "Blueprint", "Cancel", "Delete"}
  Filters       = {{}}
SPECIFICATION Spec
SYMMETRY CallerSymmetry
INVARIANTS RoadmapBeforeDerived
PROPERTIES DeletedIsFrozen
CHECK_DEADLOCK FALSE
