--------------------------- MODULE OperatorService ---------------------------
(***************************************************************************)
(* From the controller's caches to the operator's display.  NodeHealth     *)
(* keeps the health cache; the lamp cache is here, as a version number for *)
(* each lamp: 0 until the node has told of it, one more for each change of *)
(* its output, so that the odd versions are on and the even ones off.      *)
(* Four kinds of threads pass the states on:                               *)
(*                                                                         *)
(*   receivers  of the controller cache a report under the lock and, after *)
(*              it is released, publish it to the HMI                      *)
(*   dispatch   of the operator service answers RequestGetAllLampStates:   *)
(*              lamp by lamp it reads the cache and then publishes         *)
(*   IO         of the HMI merges an event into pending_                   *)
(*   GUI        of the HMI takes pending_ over into the display, and asks  *)
(*              for all lamp states every two seconds                      *)
(*                                                                         *)
(* What differs between behaviours is the environment, fixed from the      *)
(* start: the transport, the receiver threads that run and the topics the  *)
(* node reports on.                                                        *)
(***************************************************************************)
EXTENDS LightingDomain, NodeHealth, Sequences, FiniteSets

CONSTANTS
  LampOrder,      \* the lamp functions in the order a full answer lists them
  Environments,   \* records [transport, receivers, topics]
  MaxVersion,     \* bound: how often the output of a lamp changes
  MaxInFlight,    \* bound: events under way to the HMI
  MaxPulls,       \* bound: requests for all lamps that wait to be handled
  MaxStarts       \* bound: how often the HMI is started

Lamps == {LampOrder[i] : i \in DOMAIN LampOrder}
Health == "kNodeHealth"
Topics == Lamps \cup {Health}

ASSUME LampOrderAssumption == LampOrder \in Seq(LampFunctions)
ASSUME EnvironmentsAssumption ==
  \A e \in Environments :
    /\ e.transport \in {"vsomeip", "udp"} /\ IsFiniteSet(e.receivers)
    /\ e.topics \subseteq Topics
ASSUME OperatorBoundsAssumption == {MaxVersion, MaxInFlight, MaxPulls, MaxStarts} \subseteq Nat

VARIABLES
  environment,
  \* the controller
  cached_lamp_statuses,   \* versions
  relaying,               \* of each receiver: what it has cached and must publish
  pulls,                  \* requests for all lamps that have arrived
  snapshot,               \* dispatch: the lamps it has still to read
  read,                   \* dispatch: what it has read and must publish
  \* the HMI
  to_hmi,                 \* the events under way to it
  hmi_running,
  starts,                 \* how often it was started
  pending,                \* pending_: the contents of the topics heard of
  display,                \* what the dashboard shows
  told                    \* history: the topics whose present content was
                          \* published while the HMI listened, and not lost

controller_side == <<cached_lamp_statuses, relaying>>
dispatch_side == <<pulls, snapshot, read>>
hmi_side == <<hmi_running, starts, pending, display>>
operator_vars == <<environment, controller_side, dispatch_side, to_hmi, hmi_side, told, vars>>

Nothing == [topic |-> "none", content |-> 0]
Event(topic, content) == [topic |-> topic, content |-> content]

\* Nothing pending: no optional has a value.
NonePending == [t \in {} |-> 0]

IsOn(version) == version % 2 = 1

\* The dashboard before the first event: every lamp off, nothing known of the node.
Blank == [t \in Topics |-> IF t = Health THEN NoStatus ELSE 0]

OperatorInit ==
  /\ Init
  /\ environment \in Environments
  /\ cached_lamp_statuses = [f \in Lamps |-> 0]
  /\ relaying = [r \in environment.receivers |-> Nothing]
  /\ pulls = 0 /\ snapshot = << >> /\ read = Nothing
  /\ to_hmi = << >>
  /\ hmi_running = FALSE /\ starts = 0
  /\ pending = NonePending /\ display = Blank
  /\ told = {}

Cached(topic) == IF topic = Health THEN cached ELSE cached_lamp_statuses[topic]

-----------------------------------------------------------------------------
(* receivers: CentralZoneController's handlers, whose observer is the      *)
(* operator service                                                        *)

\* The cache is written; UpdateLampStatus, which only arbitration reads, goes along.
OnLampStatusReceived(r, f) ==
  /\ relaying[r] = Nothing
  /\ cached_lamp_statuses[f] < MaxVersion
  /\ cached_lamp_statuses' = [cached_lamp_statuses EXCEPT ![f] = @ + 1]
  /\ relaying' = [relaying EXCEPT ![r] = Event(f, cached_lamp_statuses'[f])]
  /\ told' = told \ {f}
  /\ UNCHANGED <<vars, dispatch_side, to_hmi, hmi_side>>

OnNodeHealthStatusReceived(r, status) ==
  /\ relaying[r] = Nothing
  /\ OnNodeHealthStatus(status)
  /\ relaying' = [relaying EXCEPT ![r] = Event(Health, status)]
  /\ told' = told \ {Health}
  /\ UNCHANGED <<cached_lamp_statuses, dispatch_side, to_hmi, hmi_side>>

\* The operator service passes nothing on: the next health event is to tell of it.
OnServiceAvailabilityChanged(r, available) ==
  /\ relaying[r] = Nothing
  /\ OnServiceAvailability(available)
  /\ told' = told \ {Health}
  /\ UNCHANGED <<controller_side, dispatch_side, to_hmi, hmi_side>>

\* Mutation of Publish: events are kept for an HMI that is not there.
PublishKept(event) ==
  /\ Len(to_hmi) < MaxInFlight
  /\ to_hmi' = Append(to_hmi, event)
  /\ told' = told

\* An event goes to who has subscribed; it is not kept for who subscribes later.
Publish(event) ==
  /\ Len(to_hmi) < MaxInFlight
  /\ to_hmi' = IF hmi_running THEN Append(to_hmi, event) ELSE to_hmi
  /\ told' = IF hmi_running /\ event.topic \in Topics
                /\ Event(event.topic, Cached(event.topic)) = event
             THEN told \cup {event.topic} ELSE told

Relay(r) ==
  /\ relaying[r] # Nothing
  /\ Publish(relaying[r])
  /\ relaying' = [relaying EXCEPT ![r] = Nothing]
  /\ UNCHANGED <<vars, cached_lamp_statuses, dispatch_side, hmi_side>>

Receiver(r) ==
  \/ \E f \in environment.topics \ {Health} : OnLampStatusReceived(r, f)
  \/ /\ Health \in environment.topics
     /\ \/ \E state \in ReportedStates, link \in BOOLEAN, service \in BOOLEAN :
             OnNodeHealthStatusReceived(r,
               [health_state |-> state, link |-> link, service |-> service])
        \/ \E available \in BOOLEAN : OnServiceAvailabilityChanged(r, available)
  \/ Relay(r)

\* Time passes for the heartbeat of the node.
HeartbeatTick ==
  /\ Health \in environment.topics
  /\ \E elapsed \in 1 .. MaxElapsed : ProcessMainLoop(elapsed)
  /\ UNCHANGED <<controller_side, dispatch_side, to_hmi, hmi_side, told>>

-----------------------------------------------------------------------------
(* dispatch: OperatorServiceProvider, HandleGetAllLampStatesRequest        *)

\* Mutation of GetAllIsDelivered: the method is registered with vsomeip, too.
GetAllIsDeliveredAlways(transport) == TRUE

\* The vsomeip adapter hands over the methods it registered: the lamp requests and
\* the one for the node's health.  The UDP adapter hands over whatever arrives.
GetAllIsDelivered(transport) == transport = "udp"

\* Mutation of LampsOfAnswer: the last lamp is left out.
LampsOfAnswerShort == SubSeq(LampOrder, 1, Len(LampOrder) - 1)

LampsOfAnswer == LampOrder

HandleGetAllLampStates ==
  /\ pulls > 0 /\ snapshot = << >> /\ read = Nothing
  /\ pulls' = pulls - 1
  /\ snapshot' = LampsOfAnswer
  /\ UNCHANGED <<vars, controller_side, read, to_hmi, hmi_side, told>>

\* GetCachedLampStatus, under the lock; a lamp not told of is published as a status
\* of no lamp, which the HMI ignores.
ReadCachedLampStatus ==
  /\ snapshot # << >> /\ read = Nothing
  /\ LET f == Head(snapshot) IN
     read' = IF cached_lamp_statuses[f] = 0 THEN Event("kUnknown", 0)
             ELSE Event(f, cached_lamp_statuses[f])
  /\ snapshot' = Tail(snapshot)
  /\ UNCHANGED <<vars, controller_side, pulls, to_hmi, hmi_side, told>>

PublishRead ==
  /\ read # Nothing
  /\ Publish(read)
  /\ read' = Nothing
  /\ UNCHANGED <<vars, controller_side, pulls, snapshot, hmi_side>>

Dispatch == HandleGetAllLampStates \/ ReadCachedLampStatus \/ PublishRead

-----------------------------------------------------------------------------
(* the HMI: OperatorServiceConsumer, QmlHmiBridge and MainWindow           *)

StartHmi ==
  /\ ~hmi_running /\ starts < MaxStarts
  /\ hmi_running' = TRUE /\ starts' = starts + 1
  /\ told' = {}
  /\ UNCHANGED <<vars, controller_side, dispatch_side, to_hmi, pending, display>>

StopHmi ==
  /\ hmi_running
  /\ hmi_running' = FALSE
  /\ pending' = NonePending /\ display' = Blank
  /\ to_hmi' = << >>
  /\ told' = {}
  /\ UNCHANGED <<vars, controller_side, dispatch_side, starts>>

\* Mutation of Merged: an event replaces what was pending of the other topics.
MergedAlone(event) == [t \in {event.topic} |-> event.content]

\* OnLampStatusUpdated and OnNodeHealthUpdated write their own optionals.
Merged(event) ==
  IF event.topic = "kUnknown" THEN pending
  ELSE [t \in DOMAIN pending \cup {event.topic} |->
          IF t = event.topic THEN event.content ELSE pending[t]]

Deliver(topic) ==
  /\ to_hmi # << >> /\ Head(to_hmi).topic = topic
  /\ pending' = Merged(Head(to_hmi))
  /\ to_hmi' = Tail(to_hmi)
  /\ UNCHANGED <<vars, controller_side, dispatch_side, hmi_running, starts, display, told>>

\* A datagram to the HMI, or a request from it, is lost.
Lose ==
  /\ environment.transport = "udp"
  /\ \/ /\ to_hmi # << >>
        /\ to_hmi' = Tail(to_hmi)
        /\ told' = told \ {Head(to_hmi).topic}
        /\ UNCHANGED pulls
     \/ /\ pulls > 0
        /\ pulls' = pulls - 1
        /\ UNCHANGED <<to_hmi, told>>
  /\ UNCHANGED <<vars, controller_side, snapshot, read, hmi_side>>

\* The 80 ms timer: pending_ is swapped out under its mutex, then shown.  Only the
\* GUI thread sees the display, so the two are one step for everyone else.
pollAndUpdate ==
  /\ hmi_running
  /\ pending # NonePending
  /\ display' = [t \in Topics |-> IF t \in DOMAIN pending THEN pending[t] ELSE display[t]]
  /\ pending' = NonePending
  /\ UNCHANGED <<vars, controller_side, dispatch_side, to_hmi, hmi_running, starts, told>>

\* The 2 s timer.
onPullTimerExpired ==
  /\ hmi_running
  /\ GetAllIsDelivered(environment.transport)
  /\ pulls < MaxPulls
  /\ pulls' = pulls + 1
  /\ UNCHANGED <<vars, controller_side, snapshot, read, to_hmi, hmi_side, told>>

-----------------------------------------------------------------------------
OperatorNext ==
  /\ \/ \E r \in environment.receivers : Receiver(r)
     \/ HeartbeatTick
     \/ Dispatch
     \/ StartHmi \/ StopHmi
     \/ \E t \in Topics \cup {"kUnknown"} : Deliver(t)
     \/ Lose
     \/ pollAndUpdate \/ onPullTimerExpired
  /\ UNCHANGED environment

OperatorSpec == OperatorInit /\ [][OperatorNext]_operator_vars

Step(A) == A /\ UNCHANGED environment

\* The threads run and the timers fire; what is sent again and again gets through.
OperatorFairness ==
  /\ WF_operator_vars(Step(\E r \in environment.receivers : Relay(r)))
  /\ WF_operator_vars(Step(ReadCachedLampStatus \/ PublishRead))
  /\ SF_operator_vars(Step(HandleGetAllLampStates))
  /\ \A t \in Lamps \cup {"kUnknown"} : SF_operator_vars(Step(Deliver(t)))
  /\ WF_operator_vars(Step(pollAndUpdate))
  /\ WF_operator_vars(Step(onPullTimerExpired))

FairOperatorSpec == OperatorSpec /\ OperatorFairness
-----------------------------------------------------------------------------
Contents(t) == IF t = Health THEN Status ELSE 0 .. MaxVersion
IsEvent(e) == e = Event("kUnknown", 0) \/ (e.topic \in Topics /\ e.content \in Contents(e.topic))

\* The type invariant, and that nothing is kept for an HMI that does not run.
OperatorTypeOK ==
  /\ environment \in Environments
  /\ cached_lamp_statuses \in [Lamps -> 0 .. MaxVersion]
  /\ \A r \in environment.receivers : relaying[r] = Nothing \/ IsEvent(relaying[r])
  /\ read = Nothing \/ IsEvent(read)
  /\ pulls \in 0 .. MaxPulls
  /\ Len(to_hmi) <= MaxInFlight /\ \A i \in DOMAIN to_hmi : IsEvent(to_hmi[i])
  /\ DOMAIN pending \subseteq DOMAIN display /\ DOMAIN display = Topics
  /\ \A t \in DOMAIN display : display[t] \in Contents(t)
  /\ \A t \in DOMAIN pending : pending[t] \in Contents(t)
  /\ ~hmi_running => to_hmi = << >> /\ pending = NonePending /\ display = Blank

\* vsomeip keeps the order of the events and loses none to who listens.
InOrder == environment.transport = "vsomeip" /\ Cardinality(environment.receivers) = 1

AtRest ==
  /\ hmi_running
  /\ \A r \in environment.receivers : relaying[r] = Nothing
  /\ to_hmi = << >> /\ pending = NonePending

\* With one receiver and vsomeip, when nothing is under way the dashboard shows of
\* each topic what the controller holds, if it has published that since the HMI was
\* started: nothing is lost between IO thread, mutex and timer.
DisplayTrueAtRest ==
  InOrder /\ AtRest => \A t \in told : display[t] = Cached(t)

\* With one receiver and vsomeip the dashboard never goes back to an older state of
\* a lamp while the HMI runs: no answer to a pull overtakes a newer event.
DisplayNeverGoesBack ==
  [][InOrder /\ hmi_running /\ hmi_running' =>
       \A f \in Lamps : display'[f] >= display[f]]_operator_vars

(***************************************************************************)
(* operator_service_interface.hpp and lighting_service_ids.hpp say of      *)
(* RequestGetAllLampStates that the display never stays frozen because the *)
(* HMI calls it every two seconds: in the end a running HMI shows as on    *)
(* the lamps that the controller knows to be on, and no others.            *)
(***************************************************************************)
DisplayIsNotFrozen ==
  <>[](hmi_running =>
         \A f \in Lamps : IsOn(display[f]) <=> IsOn(cached_lamp_statuses[f]))

\* Where the requests are delivered, pulling keeps that promise: whatever was lost,
\* missed before a start, published in the wrong order by two receivers or overtaken
\* by an older answer, the next answers repair it.
PullRepairs == environment.transport = "udp" => DisplayIsNotFrozen
=============================================================================
