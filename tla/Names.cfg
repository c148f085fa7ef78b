SPECIFICATION Spec
CONSTANTS
  Char = {"a", "b", "/"}
  Separator = "/"
  Gap = "*"
  Name <- Names
  Pattern <- Patterns
  MaxNames = 3
CHECK_DEADLOCK FALSE
INVARIANTS
  EveryMatchOnce
  SingleNameAgrees
  TraversalBounded
