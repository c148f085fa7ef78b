SPECIFICATION Spec
CONSTANTS
  Definition <- Defs
  Handler = "main"
  Bodies <- AllBodies
  Programs <- AllPrograms
  Callees <- CalleesOf
  Empty <- EmptySummary
  Evaluate <- EvaluateBody
  Reported <- ThrowsOf
  Arity <- Sizes
  MaxDepth = 3
CHECK_DEADLOCK FALSE
PROPERTY
  AnalysisEnds
