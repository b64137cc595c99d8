CONSTANTS
  Migrations = {m1, m2}
  Names <- MCNames
  Letters <- MCLetters
  Ending <- MCEnding
  Workspaces <- MCWorkspaces
  MaxSuffix = 2
  MaxAttempts = 2
SPECIFICATION PlanSpec
SYMMETRY MCSymmetry
INVARIANTS
  PlanPrefixesAreDistinct
  ArtifactsMatchPlan
  ForeignKeysReachTheirOwner
CHECK_DEADLOCK FALSE
