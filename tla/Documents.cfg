SPECIFICATION Spec
CONSTANTS
  Extension = {"core", "date", "spl"}
  ExtensionOrder <- Extensions
  PathOrder <- Paths
  ExtensionOf <- NamedFor
  Hand = {"manual/date"}
  NewPath <- Opened
  ClassOrder <- Classes
  CallableOrder <- Calls
  OwnerOf <- Owners
  Declares <- Source
  Handled = {"a::m", "f"}
  Thrown = {"a", "b"}
  Owned <- OwnedKeys
  Rendered <- Given
  Beginnings <- Starts
  MaxRuns = 5
  MaxStops = 2
CHECK_DEADLOCK FALSE
INVARIANTS
  OncePerSubject
  EntriesKept
  InPlace
  AsDeclared
  SecondRunIdle
PROPERTY
  HandUntouched
