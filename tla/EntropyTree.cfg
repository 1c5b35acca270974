SPECIFICATION Spec
CONSTANTS
  Settings <- MCSettings
  Lengths = {0, 3, 6}
  MaxModelLen = 10
  MinPrefix = 3
  MinSuffix = 2
  Margin = 2
INVARIANTS LeavesAreSamples ForksAreDistinct TrainedIsScored
