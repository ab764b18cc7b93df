CONSTANTS
  Hook = {h1, h2}
  Size = {1, 3}
  HandoffAt = 2
  HandoffStep = 1
  Pid = {1, 2}
  MaxBorn = 3
  MaxHooks = 2
  MaxHops = 2
  Session = {"a", "b"}
  MaxInc = 2
  Leaving = {"a"}
  File = {"f"}
  Every = 2
  Ttl = 0
  Keep = 1
SPECIFICATION Spec
INVARIANTS
  ObservationsAreOwn
  StepIsEarned
  IncarnationsAreApart
  CorrectionMeetsItsOriginal
  HoldingsAreTrue
PROPERTIES
  EndSparesTheLiving
  OneScanPerLease
SYMMETRY Symmetry
CHECK_DEADLOCK FALSE
