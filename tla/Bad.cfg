CONSTANTS
  Blocks <- BadBlocks
  Nonces = {1}
  Served <- OneCopy
  Height <- BadHeight
  Parent <- BadParent
  Uncles <- BadUncles
  Difficulty <- Ones
  CumulativeDifficulty <- BadCumulativeDifficulty
  NextDifficulty <- Ones
  WrongSeed = {}
  WrongOutputs = {7}
  StaleMainchain = {}
  FromBroadcast = {}
  WatchIds = {2}
  CanFailPow = {}
  CanExpire = {}
  MainDifficultyAnswers = {TRUE}
  Receivers = 1
  Concurrent = FALSE
  Lawful = {1, 2, 3}
  ChainWindowSize = 2
  MinimumDifficulty = 1
  PruneSpare = 1
SPECIFICATION Spec
INVARIANTS
  ValidParent
  VerdictByContent
