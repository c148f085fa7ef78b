SPECIFICATION Spec
CONSTANTS
  Node <- HandlerNodes
  Value <- TagSets
  Empty <- Always
  Step <- HandlerStep
  Requests <- HandlerRequests
  Exhausted <- UnknownTags
  Join <- JoinTags
  Closed <- Incomplete
  Resume <- KeepReads
  Given <- NoGiven
  MaxReads = 2
  Budgeted = {}
INVARIANTS
  TypeOK
  SettledJustified
  OneEvaluationPerInput
  SummariesAreLeast
PROPERTIES
  SolveEnds
