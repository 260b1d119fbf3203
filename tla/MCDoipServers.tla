---------------------------- MODULE MCDoipServers ----------------------------
EXTENDS DoipServers

\* An activation, a request, a frame of another version, and one that fits into no
\* buffer although DoipTcpServer accepts its length.
MCFrameKinds ==
  {[type |-> "activation", plen |-> 2], [type |-> "diagnostic", plen |-> 1],
   [type |-> "foreign", plen |-> 0], [type |-> "other", plen |-> 4]}

\* DoipTcpServer accepts a payload as long as its buffer.
MCMaxPayload == [s \in Servers |-> IF s = "DoipTcpServer" THEN kRxBufSize ELSE 3]
=============================================================================
