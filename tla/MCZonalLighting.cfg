SPECIFICATION FairSpec
CONSTANTS
  SequenceModulus = 4
  Environments <- MCEnvironments
INVARIANTS
  OnlyAskedIndicators
  CompanionsAreCompanions
  CachesTrueAtRest
  PatienceIsRewarded
PROPERTIES
  HazardDoesAsTold
  OneChangePerRequest
  ArbitrationCatchesUp
CHECK_DEADLOCK FALSE
