SPECIFICATION LruSpec
CONSTANTS
  Watched = {"tree", "node", "sft"}
  Prompt = {1, 2}
  Token = {a, b}
  MaxPrefixLen = 1
  RolloutN = 1
  InjectSlots = 1
  DispatchSlots = 1
  SftSlots = 1
  MaxStep = 1
  MaxNodes = 4
  MaxSftUpdates = 0
  MaxEvents = 2
INVARIANTS TypeOK TreeShape EventAccounting QueueMirrorsEvents NothingDangles
PROPERTIES OneUsefulAnswer WaitingIsServed
SYMMETRY TokenSymmetry
CHECK_DEADLOCK FALSE
