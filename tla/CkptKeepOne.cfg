SPECIFICATION Spec
CONSTANTS
  Configs <- KeepOne
  TotalSteps = 3
  MaxRuns = 2
  MaxScore = 2
INVARIANTS TrackedIsWhole
CHECK_DEADLOCK FALSE
