SPECIFICATION Spec
CONSTANTS
  Paths <- MCPaths
  Sources <- MCSources
  Trees <- MCTrees
  Options <- MCOptions
  StageName = 2
  ServerLimit = 3
  MaxForeign = 1
INVARIANTS
  
  DeleteBudgetHonoured
  ExtrasGone
  
