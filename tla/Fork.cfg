CONSTANTS
  Blocks <- ForkBlocks
  Nonces = {1}
  Served <- OneCopy
  Height <- ForkHeight
  Parent <- ForkParent
  Uncles <- ForkUncles
  Difficulty <- Ones
  CumulativeDifficulty <- ForkCumulativeDifficulty
  NextDifficulty <- Ones
  WrongSeed = {6}
  WrongOutputs = {}
  StaleMainchain = {}
  FromBroadcast <- ForkFromBroadcast
  WatchIds = {}
  CanFailPow = {}
  CanExpire = {}
  MainDifficultyAnswers = {TRUE}
  Receivers = 1
  Concurrent = FALSE
  Lawful = {1, 2, 3, 4, 5, 7, 8}
  ChainWindowSize = 2
  MinimumDifficulty = 1
  PruneSpare = 1
SPECIFICATION Spec
INVARIANTS
  TypeOK
  VerdictByContent
  NothingOverlooked
  TipIsBest
  BroadcastOnce
  OffersWhatVerifies
