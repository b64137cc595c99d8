SPECIFICATION AdviceSpec
CONSTANTS
  Modules <- Four
  Trees <- MCTrees
  Advised <- MCAdvised
  TopK = 3
INVARIANTS
  SingletonsAreIsolated
  CyclesAreExact
  PathsAgreeWithoutPhp
  PlanAccountsForScore
PROPERTIES
  LouvainIsSettled
  ModularityNeverDrops
  Terminates
CHECK_DEADLOCK FALSE
