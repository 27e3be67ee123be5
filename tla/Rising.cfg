CONSTANTS
  Blocks <- RisingBlocks
  Nonces = {1, 2}
  Served <- RisingServed
  Height <- RisingHeight
  Parent <- RisingParent
  Uncles <- RisingUncles
  Difficulty <- RisingDifficulty
  CumulativeDifficulty <- RisingCumulativeDifficulty
  NextDifficulty <- RisingNextDifficulty
  WrongSeed = {}
  WrongOutputs = {}
  StaleMainchain = {}
  FromBroadcast <- RisingFromBroadcast
  WatchIds = {}
  CanFailPow = {5}
  CanExpire = {}
  MainDifficultyAnswers = {TRUE, FALSE}
  Receivers = 2
  Concurrent = TRUE
  Lawful <- RisingBlocks
  ChainWindowSize = 2
  MinimumDifficulty = 1
  PruneSpare = 1
SPECIFICATION Spec
INVARIANTS
  TipIsBest
PROPERTIES
  VerdictIsFinal
