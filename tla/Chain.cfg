SPECIFICATION FairSpec
CONSTANTS
  p = p
  q = q
  Prompt = {p, q}
  MaxDepth <- MCMaxDepth
  InjectSlots = 2
  MaxConcurrent = 1
  MaxRestarts = 1
INVARIANTS ChainsWellFormed ReportsReachTheirNode OneRequestPerWaitingChain
PROPERTIES ImplementsLifecycle WaitingEnds
CHECK_DEADLOCK FALSE
