SPECIFICATION LruSpec
CONSTANTS
  Watched = {"teacher"}
  Prompt = {1, 2}
  Token = {a}
  MaxPrefixLen = 1
  RolloutN = 3
  InjectSlots = 0
  DispatchSlots = 1
  SftSlots = 0
  MaxStep = 0
  MaxNodes = 2
  MaxSftUpdates = 1
  MaxEvents = 6
PROPERTIES DispatchLru
CHECK_DEADLOCK FALSE
