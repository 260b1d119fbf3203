SPECIFICATION FairOperatorSpec
CONSTANTS
  kNodeHeartbeatTimeout = 3
  MaxElapsed = 2
  MaxSilence = 5
  ReportedStates <- MCReportedStates
  LampOrder <- MCLampOrder
  Environments <- DeployedEnvironments
  MaxVersion = 2
  MaxInFlight = 1
  MaxPulls = 1
  MaxStarts = 2
PROPERTY DisplayIsNotFrozen
CHECK_DEADLOCK FALSE
