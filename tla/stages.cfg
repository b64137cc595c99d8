SPECIFICATION Spec
CONSTANTS
  j1 = j1
  j2 = j2
  Jobs = {j1, j2}
  PkgCatalog <- MCPkgCatalog
  ScopeCatalog <- MCScopeCatalog
  GroupCatalog <- MCGroupCatalog
  Languages <- MCLanguages
  MaxRequirementsDepth = 10
  EntryPoints <- MCEntryPoints
  LowerOf <- MCLowerOf
  CIBases <- MCCIBases
  Layer <- MCLayer
  TestNames <- MCTestNames
  SuffixEntrypoints <- MCSuffixEntrypoints
  Workspaces <- MCWorkspaces
  Assignments <- MCAssignments
  InitialRegistry <- MCInitialRegistry
  Releases <- MCReleases
  InitialAdvisories <- MCInitialAdvisories
  Disclosures <- MCDisclosures
  osvChunkSize = 2
  MaxCrashes = 1
CHECK_DEADLOCK FALSE
INVARIANTS
  ReportIsOfItsDependencies
  StatusFollowsOnePackage
  AliasIsOneModule
  IslandsAreCounted
PROPERTY
  StagesRunOut
