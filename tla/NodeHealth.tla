----------------------------- MODULE NodeHealth -----------------------------
(***************************************************************************)
(* What the controller's side knows of the node's health.  Two components  *)
(* are fed with the same events: NodeHealthMonitor, which watches for the  *)
(* heartbeat (and which nothing but its tests instantiates), and the cache *)
(* of CentralZoneController, which is what the HMI is told.                *)
(*                                                                         *)
(* The node is the environment: it reports, or falls silent.  Time passes  *)
(* in the calls of ProcessMainLoop; silence is history, the time since the *)
(* last report, capped at MaxSilence.                                      *)
(***************************************************************************)
EXTENDS Naturals

CONSTANTS
  kNodeHeartbeatTimeout,   \* 2000 ms in the code
  MaxElapsed,              \* the longest elapsed_time of a call
  MaxSilence,              \* cap of the times
  ReportedStates           \* the health states the node reports

HealthStates == {"kUnknown", "kOperational", "kDegraded", "kFaulted", "kUnavailable"}

ASSUME TimeoutAssumption ==
  /\ kNodeHeartbeatTimeout \in Nat \ {0}
  /\ MaxElapsed \in Nat \ {0}
  /\ MaxSilence \in Nat /\ MaxSilence >= kNodeHeartbeatTimeout + MaxElapsed
ASSUME ReportsAssumption == ReportedStates \subseteq HealthStates

VARIABLES
  \* NodeHealthMonitor
  monitored,               \* cached_node_health_status_
  time_since_last_update,  \* time_since_last_health_update_
  status_received,         \* health_status_received_
  \* CentralZoneController
  cached,                  \* cached_node_health_status_
  is_node_available,       \* is_exterior_node_available_
  silence

vars == <<monitored, time_since_last_update, status_received,
          cached, is_node_available, silence>>

\* The two flags the rules look at; the fault count travels along unread.
Status == [health_state : HealthStates, link : BOOLEAN, service : BOOLEAN]
NoStatus == [health_state |-> "kUnknown", link |-> FALSE, service |-> FALSE]

Capped(t) == IF t < MaxSilence THEN t ELSE MaxSilence

Init ==
  /\ monitored = NoStatus
  /\ time_since_last_update = 0
  /\ status_received = FALSE
  /\ cached = NoStatus
  /\ is_node_available = FALSE
  /\ silence = 0

-----------------------------------------------------------------------------
\* Mutation of OnNodeHealthStatus: the watchdog is not rewound.
OnNodeHealthStatusNotRewound(status) ==
  /\ monitored' = status
  /\ status_received' = TRUE
  /\ cached' = status
  /\ silence' = 0
  /\ UNCHANGED <<is_node_available, time_since_last_update>>

\* UpdateNodeHealthStatus and CentralZoneController::OnNodeHealthStatusReceived.
OnNodeHealthStatus(status) ==
  /\ monitored' = status
  /\ time_since_last_update' = 0
  /\ status_received' = TRUE
  /\ cached' = status
  /\ silence' = 0
  /\ UNCHANGED is_node_available

\* Mutation of OnServiceAvailability: a service that is back revives the node.
OnServiceAvailabilityRevives(available) ==
  /\ monitored' = [monitored EXCEPT
       !.service = available,
       !.health_state = IF ~status_received THEN @
                        ELSE IF available THEN "kOperational" ELSE "kUnavailable",
       !.link = @ \/ (available /\ status_received)]
  /\ cached' = [cached EXCEPT !.service = available]
  /\ is_node_available' = available
  /\ UNCHANGED <<time_since_last_update, status_received, silence>>

\* SetServiceAvailability and CentralZoneController::OnServiceAvailabilityChanged.
\* (The fan-out transport of the Linux controller only ever reports TRUE.)
OnServiceAvailability(available) ==
  /\ monitored' = [monitored EXCEPT
       !.service = available,
       !.health_state = IF ~available /\ status_received THEN "kUnavailable" ELSE @]
  /\ cached' = [cached EXCEPT !.service = available]
  /\ is_node_available' = available
  /\ UNCHANGED <<time_since_last_update, status_received, silence>>

ProcessMainLoop(elapsed) ==
  /\ IF status_received
     THEN /\ time_since_last_update' = Capped(time_since_last_update + elapsed)
          /\ monitored' =
               IF time_since_last_update' >= kNodeHeartbeatTimeout
               THEN [health_state |-> "kUnavailable", link |-> FALSE, service |-> FALSE]
               ELSE monitored
     ELSE UNCHANGED <<time_since_last_update, monitored>>
  /\ silence' = Capped(silence + elapsed)
  /\ UNCHANGED <<status_received, cached, is_node_available>>

Next ==
  \/ \E state \in ReportedStates, link \in BOOLEAN, service \in BOOLEAN :
       OnNodeHealthStatus([health_state |-> state, link |-> link, service |-> service])
  \/ \E available \in BOOLEAN : OnServiceAvailability(available)
  \/ \E elapsed \in 1 .. MaxElapsed : ProcessMainLoop(elapsed)

Spec == Init /\ [][Next]_vars
-----------------------------------------------------------------------------
IsNodeAvailable ==
  /\ status_received
  /\ monitored.health_state # "kUnavailable"
  /\ monitored.service /\ monitored.link

TypeOK ==
  /\ monitored \in Status /\ cached \in Status
  /\ {time_since_last_update, silence} \subseteq 0 .. MaxSilence
  /\ {status_received, is_node_available} \subseteq BOOLEAN

\* A node that has been silent for the timeout is not available for the monitor,
\* whatever the transport says of the service meanwhile.
SilentNodeIsNotAvailable ==
  silence >= kNodeHeartbeatTimeout => ~IsNodeAvailable

\* The monitor escalates only with a reason: kUnavailable was reported, or the node
\* had reported and then fell silent for the timeout, or the service went.
NoFalseAlarm ==
  [][ (monitored.health_state # "kUnavailable" /\ monitored'.health_state = "kUnavailable") =>
        \/ silence' = 0 /\ cached'.health_state = "kUnavailable"
        \/ status_received /\ silence' >= kNodeHeartbeatTimeout
        \/ status_received /\ ~is_node_available' ]_vars

\* Once unavailable, only a report of the node makes it available again.
OnlyAReportRevives ==
  [][ (status_received /\ monitored.health_state = "kUnavailable"
       /\ monitored'.health_state # "kUnavailable") => silence' = 0 /\ cached' = monitored' ]_vars

(***************************************************************************)
(* SG-05 of the safety goals says of the controller what only the monitor  *)
(* does: that it reports a node silent for the timeout as kUnavailable to  *)
(* its clients.  What they are told is the controller's own cache.         *)
(***************************************************************************)
SilentNodeIsReportedUnavailable ==
  status_received /\ silence >= kNodeHeartbeatTimeout =>
    cached.health_state = "kUnavailable"
=============================================================================
