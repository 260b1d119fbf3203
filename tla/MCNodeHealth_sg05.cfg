SPECIFICATION Spec
CONSTANTS
  kNodeHeartbeatTimeout = 4
  MaxElapsed = 2
  MaxSilence = 6
  ReportedStates <- MCReportedStates
INVARIANT SilentNodeIsReportedUnavailable
