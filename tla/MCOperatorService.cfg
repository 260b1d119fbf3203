SPECIFICATION FairOperatorSpec
CONSTANTS
  kNodeHeartbeatTimeout = 3
  MaxElapsed = 2
  MaxSilence = 5
  ReportedStates <- MCReportedStates
  LampOrder <- MCLampOrder
  Environments <- MCEnvironments
  MaxVersion = 2
  MaxInFlight = 1
  MaxPulls = 1
  MaxStarts = 2
INVARIANTS
  OperatorTypeOK
  DisplayTrueAtRest
  SilentNodeIsNotAvailable
PROPERTIES
  DisplayNeverGoesBack
  PullRepairs
  NoFalseAlarm
CHECK_DEADLOCK FALSE
