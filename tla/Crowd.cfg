CONSTANTS
  Blocks <- ForkBlocks
  Nonces = {1}
  Served <- CrowdServed
  Height <- ForkHeight
  Parent <- ForkParent
  Uncles <- ForkUncles
  Difficulty <- Ones
  CumulativeDifficulty <- ForkCumulativeDifficulty
  NextDifficulty <- Ones
  WrongSeed = {}
  WrongOutputs = {}
  StaleMainchain = {}
  FromBroadcast = {}
  WatchIds = {}
  CanFailPow = {}
  CanExpire = {}
  MainDifficultyAnswers = {TRUE}
  Receivers = 1
  Concurrent = TRUE
  Lawful <- ForkBlocks
  ChainWindowSize = 2
  MinimumDifficulty = 1
  PruneSpare = 1
SPECIFICATION Spec
INVARIANTS
  DepthBound
PROPERTIES
  LoopsTerminate
