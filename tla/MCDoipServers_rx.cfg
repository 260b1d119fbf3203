SPECIFICATION Spec
CONSTANTS
  Servers = {"DoipTcpServer", "DoipServer"}
  Testers = {"console", "workshop"}
  FrameKinds <- MCFrameKinds
  kHeaderSize = 2
  kRxBufSize = 5
  MaxPayload <- MCMaxPayload
  MinActivation = 2
  MinDiagnostic = 1
  MayWrite = {TRUE, FALSE}
  Width = 16
  MaxOutstanding = 7
  MaxFrames = 3
  MaxSessions = 3
INVARIANT RxLenWithinBuffer
CHECK_DEADLOCK FALSE
