SPECIFICATION FairSpec
CONSTANTS
  SequenceCounters <- MCSequenceCounters
  Commands <- FewCommands
  Faultable <- HeadOnly
  QueueDepth = 2
  HealthEvery = 2
PROPERTIES
  ForcedOffIsAnnounced
  QueueDrains
  FaultIsReported
