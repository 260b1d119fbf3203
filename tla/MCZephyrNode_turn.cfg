SPECIFICATION Spec
CONSTANTS
  SequenceCounters <- MCSequenceCounters
  Commands <- TurnSignalCommands
  Faultable <- HazardAndLeft
  QueueDepth = 1
  HealthEvery = 1
INVARIANTS
  IndicatorExclusivity
  FaultedLampOff
  RegistryRemembersLit
  CountMatchesFlags
  LitLampIsAnnounced
PROPERTIES
  HazardBlocksIndicators
  ImplementsPolicy
