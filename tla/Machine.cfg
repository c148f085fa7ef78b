SPECIFICATION Spec
CONSTANTS
  Programs <- MCPrograms
  Frozen <- NoFrozen
  JoinBatch = 2
  VisitCap = 4
  ExitBatch = 2
  PendingCap = 4
  Slice = 10
  Budget = 120
  AltCap = 3
  ForkCap = 2
  Dom = {0, 1, 2}
  Fuel = 8
INVARIANTS
  TypeOK
  NoReentry
  ExitsCovered
  AnswerCovered
PROPERTIES
  FinalStays
  Terminates
