SPECIFICATION Spec
CONSTANTS
  Configs <- Many
  TotalSteps = 5
  MaxRuns = 3
  MaxScore = 2
INVARIANTS TrackedIsWholeIfDurable RetentionHolds BestOnDiskUninterrupted
PROPERTIES ImplementsStore
CHECK_DEADLOCK FALSE
