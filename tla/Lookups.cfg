SPECIFICATION LookupSpec
CONSTANTS
  Subject = {"f", "a", "x"}
  ClassName = {"a", "x"}
  FunctionName = {"f"}
  Condition = {"always"}
  Always = "always"
  Inputs <- NoInput
  Root = {"generated", "names", "declares", "uses", "collides", "absent", "twice", "unsigned"}
  ConsumerRoot = {"declares", "uses", "collides", "absent"}
  Sets <- RootSets
  Bundles <- AllBundles
  VariableName = {}
  Precedence <- Ranks
  MaxCalls = 4
  MaxSets = 2
CHECK_DEADLOCK FALSE
INVARIANTS
  OverItsSets
  FailsOnFirstBadSet
  SameSetsSameAnswers
