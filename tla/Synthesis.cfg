SPECIFICATION FairSpec
CONSTANTS
  a = a
  b = b
  eos = eos
  Token = {a, b, eos}
  Eos = eos
  Response <- MCResponse
  Solution <- MCSolution
  PromptLen = {1, 2}
  MaxRollouts = 2
  Calls = 2
  MaxModelLen = 6
  MinMatch = 1
  MinMatchPercent = 40
  MinSuffix = 2
  MinBranch = 3
INVARIANTS SplitIsExact FitsModel LongestFirst
PROPERTIES TaskEnds
CHECK_DEADLOCK FALSE
