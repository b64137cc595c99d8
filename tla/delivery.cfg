CONSTANTS
  Names <- MCNames
  Monorepo <- MCMonorepo
  Drafts <- MCDrafts
  Within <- MCWithin
  Concurrencies = {1, 2}
  maxServiceAttempts = 2
  MaxFaults = 1
  MaxRuns = 2
SPECIFICATION Spec
INVARIANTS
  ContainersAreOwned
  DoneWasGreen
  LookupResolves
  DownloadKeepsWhatIsPushed
PROPERTIES
  TaskKeepsItsRecords
  TaskEnds
CHECK_DEADLOCK FALSE
