CONSTANTS
  Blocks <- LongBlocks
  Nonces = {1}
  Served <- OneCopy
  Height <- LongHeight
  Parent <- LongParent
  Uncles <- LongUncles
  Difficulty <- Ones
  CumulativeDifficulty <- LongCumulativeDifficulty
  NextDifficulty <- Ones
  WrongSeed = {}
  WrongOutputs = {}
  StaleMainchain = {}
  FromBroadcast = {}
  WatchIds = {}
  CanFailPow = {}
  CanExpire = {8}
  MainDifficultyAnswers = {TRUE}
  Receivers = 1
  Concurrent = FALSE
  Lawful <- LongBlocks
  ChainWindowSize = 2
  MinimumDifficulty = 1
  PruneSpare = 1
SPECIFICATION Spec
INVARIANTS
  IndexesAgree
  WindowKept
  DepthsSettled
  PruneStopsAtLiveKey
  PrunedStaysOut
