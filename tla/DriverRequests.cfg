SPECIFICATION Spec
CONSTANTS
  Node <- CompareAndThrowNodes
  Value <- AllSets
  Empty <- Always
  Step <- CompareAndThrowStep
  Requests <- CompareAndThrowRequests
  Exhausted <- UnknownTags
  Join <- JoinTags
  Closed <- Incomplete
  Resume <- DropReads
  Given <- CompareAndThrowGiven
  MaxReads = 2
  Budgeted <- CompareNodes
CHECK_DEADLOCK FALSE
INVARIANTS
  SettledRestsOnSettled
  SummariesAreLeast
PROPERTIES
  ImplementsTable
  SolveEnds
