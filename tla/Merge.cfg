SPECIFICATION Spec
CONSTANTS
  Subject = {"f", "a", "b", "x"}
  ClassName = {"a", "b", "x"}
  FunctionName = {"f"}
  Condition = {"always", "one"}
  Always = "always"
  Inputs <- AllInputs
CHECK_DEADLOCK FALSE
INVARIANTS
  InForceIsStrongest
  MountOrder
  ClassKeys
  RefusedForAReason
