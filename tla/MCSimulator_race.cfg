SPECIFICATION SimulatorSpec
CONSTANTS
  Functions <- MCFunctions
  Capacity = 2
  kNoFault = "kNoFault"
INVARIANT RaceIsBenign
