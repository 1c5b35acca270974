SPECIFICATION FairSpec
CONSTANTS
  Work <- Pieces
  MaxConcurrent = 2
  MaxStops = 2
INVARIANTS PermitsConserved
PROPERTIES WorkIsKept WorkIsTaken StopEnds
CHECK_DEADLOCK FALSE
