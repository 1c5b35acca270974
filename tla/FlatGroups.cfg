SPECIFICATION Spec
CONSTANTS
  p = p
  word = word
  dot = dot
  Prompt = {p}
  Stop = {dot}
  TokensPerNode = 2
  NSegments = 3
  PromptLen = 2
  MaxModelLen = 7
  Response <- MCResponse
  Settings <- MCSettings
  RolloutN = 2
  PrefixRolloutN = 3
  BatchThreshold = 2
  SampleSize = 2
  InjectSlots = 1
  MaxPerPrompt = 1
  NBranchPoints = 1
  MinRemaining = 2
  MaxAge = 1
  MaxConcurrent = 1
  FloorHard = 2000
  FloorMastered = 100
  Priors <- MCPriors
  MaxDepth = 1
  MaxRuns = 2
INVARIANTS GroupsHaveTheirSize
