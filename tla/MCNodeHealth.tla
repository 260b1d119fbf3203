---------------------------- MODULE MCNodeHealth ----------------------------
(* The states the two builds report; a loop of at most half the timeout.   *)
EXTENDS NodeHealth

MCReportedStates == {"kOperational", "kDegraded", "kFaulted"}
=============================================================================
