SPECIFICATION RunsSpec
CONSTANTS
  Definition <- Defs
  Handler = "main"
  Bodies <- AllBodies
  Programs <- AllPrograms
  Callees <- CalleesOf
  Empty <- EmptySummary
  Evaluate <- EvaluateBody
  Reported <- ThrowsOf
  Arity <- Sizes
  MaxDepth = 3
  MaxRuns = 2
CHECK_DEADLOCK FALSE
INVARIANTS
  Sound
  Solved
  
