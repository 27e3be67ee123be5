CONSTANTS
  Blocks <- DeepBlocks
  Nonces = {1}
  Served <- OrphanServed
  Height <- DeepHeight
  Parent <- DeepParent
  Uncles <- DeepUncles
  Difficulty <- Ones
  CumulativeDifficulty <- DeepCumulativeDifficulty
  NextDifficulty <- Ones
  WrongSeed = {}
  WrongOutputs = {}
  StaleMainchain = {}
  FromBroadcast = {}
  WatchIds = {}
  CanFailPow = {}
  CanExpire = {}
  MainDifficultyAnswers = {TRUE}
  Receivers = 1
  Concurrent = FALSE
  Lawful <- DeepBlocks
  ChainWindowSize = 2
  MinimumDifficulty = 1
  PruneSpare = 1
SPECIFICATION Spec
INVARIANTS
  DeepMeansBuiltUpon
