SPECIFICATION TrainingSpec
CONSTANTS
  Prompt = {1}
  Token = {a}
  MaxPrefixLen = 2
  RolloutN = 1
  InjectSlots = 1
  DispatchSlots = 1
  SftSlots = 1
  MaxStep = 5
  MaxNodes = 3
  MaxSftUpdates = 4
  MaxEvents = 2
  Settings <- EpochEnd
  MaxRestarts = 1
INVARIANTS ReplayedInOneEpoch
