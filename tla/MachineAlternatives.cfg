SPECIFICATION Spec
CONSTANTS
  Programs <- AlternativePrograms
  Frozen <- NoFrozen
  JoinBatch = 2
  VisitCap = 6
  ExitBatch = 2
  PendingCap = 8
  Slice = 40
  Budget = 120
  AltCap = 3
  ForkCap = 2
  Dom = {0, 1, 2}
  Fuel = 4
INVARIANTS
  ExitsCovered
