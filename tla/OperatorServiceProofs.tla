-------------------------- MODULE OperatorServiceProofs --------------------------
(***************************************************************************)
(* Theorems about NodeHealth, for every timeout and every loop period, and *)
(* about OperatorService, for every set of environments, every lamp order, *)
(* queues of any length and any number of starts of the HMI.               *)
(*                                                                         *)
(* IInv ties the monitor's watchdog to the history variable: from the      *)
(* first report on it is the time of silence, and once it has run out the  *)
(* state is kUnavailable and stays so until the next report.  The operator *)
(* system keeps it, as every step of it is a step of NodeHealth or leaves  *)
(* the health alone.                                                       *)
(*                                                                         *)
(* OperatorInv follows a state from the controller's cache to the display: *)
(* what a receiver has still to publish is what the cache holds (Fresh),   *)
(* along the way versions only grow (Ordered), and of a topic told of the  *)
(* newest piece under way, or else what is shown, is what the cache holds  *)
(* (ToldIsUnderWay).  It needs one receiver and vsomeip; that nothing is   *)
(* ahead of the cache (NotAhead) holds in every environment.               *)
(***************************************************************************)
EXTENDS OperatorService, SequenceTheorems, FiniteSetTheorems, TLAPS

-----------------------------------------------------------------------------
(* NodeHealth. *)

WatchdogInv ==
  status_received =>
    /\ time_since_last_update = silence
    /\ silence >= kNodeHeartbeatTimeout => monitored.health_state = "kUnavailable"

IInv == TypeOK /\ WatchdogInv

\* A capped time is a time, and is past the timeout exactly if the time is.
LEMMA CappedFact ==
  ASSUME NEW t \in Nat
  PROVE  /\ Capped(t) \in 0 .. MaxSilence
         /\ Capped(t) >= kNodeHeartbeatTimeout <=> t >= kNodeHeartbeatTimeout
  BY TimeoutAssumption DEF Capped

LEMMA InitInv == Init => IInv
<1> SUFFICES ASSUME Init PROVE IInv
  OBVIOUS
<1>1. NoStatus \in Status
  BY DEF NoStatus, Status, HealthStates
<1>2. 0 \in 0 .. MaxSilence
  BY TimeoutAssumption
<1>3. TypeOK
  BY <1>1, <1>2, Zenon DEF Init, TypeOK
<1>4. WatchdogInv
  BY Zenon DEF Init, WatchdogInv
<1> QED
  BY <1>3, <1>4 DEF IInv

LEMMA ReportKeepsInv ==
  ASSUME IInv, NEW status \in Status, OnNodeHealthStatus(status)
  PROVE  IInv'
  BY TimeoutAssumption DEF IInv, TypeOK, WatchdogInv, OnNodeHealthStatus

LEMMA AvailabilityKeepsInv ==
  ASSUME IInv, NEW available \in BOOLEAN, OnServiceAvailability(available)
  PROVE  IInv'
<1>1. TypeOK'
  <2>1. monitored' \in Status
    BY DEF IInv, TypeOK, OnServiceAvailability, Status, HealthStates
  <2>2. cached' \in Status
    BY DEF IInv, TypeOK, OnServiceAvailability, Status
  <2> QED
    BY <2>1, <2>2 DEF IInv, TypeOK, OnServiceAvailability
<1>2. WatchdogInv'
  BY DEF IInv, TypeOK, WatchdogInv, OnServiceAvailability, Status
<1> QED
  BY <1>1, <1>2 DEF IInv

LEMMA LoopKeepsInv ==
  ASSUME IInv, NEW elapsed \in 1 .. MaxElapsed, ProcessMainLoop(elapsed)
  PROVE  IInv'
<1>1. silence + elapsed \in Nat /\ time_since_last_update + elapsed \in Nat
  BY TimeoutAssumption DEF IInv, TypeOK
<1>2. silence' = Capped(silence + elapsed)
  BY DEF ProcessMainLoop
<1>3. CASE status_received
  <2>1. time_since_last_update' = Capped(time_since_last_update + elapsed)
    BY <1>3 DEF ProcessMainLoop
  <2>2. monitored' = IF time_since_last_update' >= kNodeHeartbeatTimeout
                     THEN [health_state |-> "kUnavailable", link |-> FALSE, service |-> FALSE]
                     ELSE monitored
    BY <1>3 DEF ProcessMainLoop
  <2>3. TypeOK'
    BY <1>1, <1>2, <2>1, <2>2, CappedFact
       DEF IInv, TypeOK, ProcessMainLoop, Status, HealthStates
  <2>4. WatchdogInv'
    BY <1>2, <1>3, <2>1, <2>2 DEF IInv, WatchdogInv
  <2> QED
    BY <2>3, <2>4 DEF IInv
<1>4. CASE ~status_received
  BY <1>1, <1>2, <1>4, CappedFact DEF IInv, TypeOK, WatchdogInv, ProcessMainLoop
<1> QED
  BY <1>3, <1>4

LEMMA StepInv == IInv /\ [Next]_vars => IInv'
<1> SUFFICES ASSUME IInv, [Next]_vars PROVE IInv'
  OBVIOUS
<1>1. ASSUME NEW state \in ReportedStates, NEW link \in BOOLEAN, NEW service \in BOOLEAN,
             OnNodeHealthStatus([health_state |-> state, link |-> link, service |-> service])
      PROVE  IInv'
  <2>1. [health_state |-> state, link |-> link, service |-> service] \in Status
    BY ReportsAssumption DEF Status
  <2> QED
    BY <1>1, <2>1, ReportKeepsInv
<1>2. ASSUME NEW available \in BOOLEAN, OnServiceAvailability(available)
      PROVE  IInv'
  BY <1>2, AvailabilityKeepsInv
<1>3. ASSUME NEW elapsed \in 1 .. MaxElapsed, ProcessMainLoop(elapsed)
      PROVE  IInv'
  BY <1>3, LoopKeepsInv
<1>4. CASE UNCHANGED vars
  BY <1>4 DEF IInv, TypeOK, WatchdogInv, vars
<1> QED
  BY <1>1, <1>2, <1>3, <1>4 DEF Next

LEMMA Invariance == Spec => []IInv
  BY InitInv, StepInv, PTL DEF Spec

\* Every variable of the two components keeps its type.
THEOREM TypeCorrect == Spec => []TypeOK
  BY Invariance, PTL DEF IInv

\* The heartbeat watchdog: a node silent for the timeout is not available for the
\* monitor, however the transport's availability changes meanwhile.
THEOREM Watchdog == Spec => []SilentNodeIsNotAvailable
<1>1. IInv => SilentNodeIsNotAvailable
  BY DEF IInv, WatchdogInv, SilentNodeIsNotAvailable, IsNodeAvailable
<1> QED
  BY <1>1, Invariance, PTL

\* And it does not cry wolf: kUnavailable has one of the three reasons.
THEOREM Justified == Spec => NoFalseAlarm
<1> DEFINE Escalates == /\ monitored.health_state # "kUnavailable"
                        /\ monitored'.health_state = "kUnavailable"
           Reason == \/ silence' = 0 /\ cached'.health_state = "kUnavailable"
                     \/ status_received /\ silence' >= kNodeHeartbeatTimeout
                     \/ status_received /\ ~is_node_available'
<1>1. IInv /\ [Next]_vars => (Escalates => Reason)
  <2> SUFFICES ASSUME IInv, [Next]_vars, Escalates PROVE Reason
    OBVIOUS
  <2>1. ASSUME NEW status, OnNodeHealthStatus(status) PROVE Reason
    BY <2>1 DEF OnNodeHealthStatus
  <2>2. ASSUME NEW available \in BOOLEAN, OnServiceAvailability(available) PROVE Reason
    BY <2>2 DEF OnServiceAvailability, IInv, TypeOK, Status
  <2>3. ASSUME NEW elapsed \in 1 .. MaxElapsed, ProcessMainLoop(elapsed) PROVE Reason
    <3>1. status_received /\ time_since_last_update' >= kNodeHeartbeatTimeout
      BY <2>3 DEF ProcessMainLoop
    <3> QED
      BY <2>3, <3>1 DEF ProcessMainLoop, IInv, WatchdogInv
  <2>4. CASE UNCHANGED vars
    BY <2>4 DEF vars
  <2> QED
    BY <2>1, <2>2, <2>3, <2>4 DEF Next
<1> QED
  BY <1>1, Invariance, PTL DEF Spec, NoFalseAlarm

\* Nothing but a report of the node makes an unavailable node available again.
THEOREM Revival == Spec => OnlyAReportRevives
<1> DEFINE Revives == /\ status_received /\ monitored.health_state = "kUnavailable"
                      /\ monitored'.health_state # "kUnavailable"
           Report == silence' = 0 /\ cached' = monitored'
<1>1. IInv /\ [Next]_vars => (Revives => Report)
  <2> SUFFICES ASSUME IInv, [Next]_vars, Revives PROVE Report
    OBVIOUS
  <2>1. ASSUME NEW status, OnNodeHealthStatus(status) PROVE Report
    BY <2>1 DEF OnNodeHealthStatus
  <2>2. ASSUME NEW available \in BOOLEAN, OnServiceAvailability(available) PROVE Report
    BY <2>2 DEF OnServiceAvailability, IInv, TypeOK, Status
  <2>3. ASSUME NEW elapsed \in 1 .. MaxElapsed, ProcessMainLoop(elapsed) PROVE Report
    BY <2>3 DEF ProcessMainLoop
  <2>4. CASE UNCHANGED vars
    BY <2>4 DEF vars
  <2> QED
    BY <2>1, <2>2, <2>3, <2>4 DEF Next
<1> QED
  BY <1>1, Invariance, PTL DEF Spec, OnlyAReportRevives

-----------------------------------------------------------------------------
(* OperatorService: typing. *)

Versions == 0 .. MaxVersion
LampEvents == [topic : Lamps, content : Versions]
HealthEvents == [topic : {Health}, content : Status]
Events == LampEvents \cup HealthEvents \cup {Event("kUnknown", 0)}

OperatorTyping ==
  /\ IInv
  /\ environment \in Environments
  /\ cached_lamp_statuses \in [Lamps -> Versions]
  /\ relaying \in [environment.receivers -> Events \cup {Nothing}]
  /\ read \in Events \cup {Nothing}
  /\ snapshot \in Seq(Lamps)
  /\ pulls \in 0 .. MaxPulls
  /\ to_hmi \in Seq(Events) /\ Len(to_hmi) <= MaxInFlight
  /\ hmi_running \in BOOLEAN
  /\ DOMAIN pending \subseteq Topics /\ \A t \in DOMAIN pending : pending[t] \in Contents(t)
  /\ DOMAIN display = Topics /\ \A t \in Topics : display[t] \in Contents(t)
  /\ told \subseteq Topics
  /\ ~hmi_running => /\ to_hmi = << >> /\ pending = NonePending /\ display = Blank
                     /\ told = {}

\* The names of the lamps, of the health topic, and of what is neither, differ.
LEMMA TopicNames ==
  /\ LampOrder \in Seq(Lamps) /\ Health \notin Lamps
  /\ "kUnknown" \notin Topics /\ "none" \notin Topics
<1>1. /\ DOMAIN LampOrder = 1 .. Len(LampOrder)
      /\ \A i \in 1 .. Len(LampOrder) : LampOrder[i] \in LampFunctions
  BY LampOrderAssumption, LenProperties, ElementOfSeq
<1>2. Lamps \subseteq LampFunctions
  BY <1>1 DEF Lamps
<1>3. LampOrder \in Seq(Lamps)
  <2>1. Len(LampOrder) \in Nat /\ LampOrder \in [1 .. Len(LampOrder) -> Lamps]
    BY <1>1, LampOrderAssumption, LenProperties DEF Lamps
  <2> QED
    BY <2>1
<1> QED
  BY <1>2, <1>3 DEF Topics, Health, LampFunctions

LEMMA BoundTypes == /\ MaxVersion \in Nat /\ MaxInFlight \in Nat /\ MaxPulls \in Nat
  BY OperatorBoundsAssumption

\* A topic's contents, and what an event may carry.
LEMMA EventTypes ==
  /\ \A f \in Lamps, n \in Versions : Event(f, n) \in Events
  /\ \A s \in Status : Event(Health, s) \in Events
  /\ \A e \in Events : /\ e = Event("kUnknown", 0) \/ (e.topic \in Topics /\ e.content \in Contents(e.topic))
                       /\ e.topic \in Topics => e.content \in Contents(e.topic)
                       /\ e.topic \in Lamps => e.content \in Versions
                       /\ e # Nothing
  /\ \A f \in Lamps : Contents(f) = Versions
  /\ Contents(Health) = Status
<1>1. \A f \in Lamps : f # Health /\ f \in Topics /\ Contents(f) = Versions
  BY TopicNames DEF Topics, Contents, Versions
<1>2. Contents(Health) = Status /\ Health \in Topics
  BY DEF Contents, Topics
<1>3. /\ \A f \in Lamps, n \in Versions : Event(f, n) \in Events
      /\ \A s \in Status : Event(Health, s) \in Events
  BY DEF Event, Events, LampEvents, HealthEvents
<1>4. ASSUME NEW e \in Events
      PROVE  /\ e = Event("kUnknown", 0) \/ (e.topic \in Topics /\ e.content \in Contents(e.topic))
             /\ e.topic \in Topics => e.content \in Contents(e.topic)
             /\ e.topic \in Lamps => e.content \in Versions
             /\ e # Nothing
  <2>1. CASE e \in LampEvents
    BY <1>1, <2>1, TopicNames DEF LampEvents, Nothing
  <2>2. CASE e \in HealthEvents
    BY <1>2, <2>2, TopicNames DEF HealthEvents, Nothing
  <2>3. CASE e = Event("kUnknown", 0)
    BY <2>3, TopicNames DEF Event, Nothing, Topics
  <2> QED
    BY <2>1, <2>2, <2>3 DEF Events
<1> QED
  BY <1>1, <1>2, <1>3, <1>4

LEMMA BlankTypes ==
  /\ DOMAIN Blank = Topics /\ \A t \in Topics : Blank[t] \in Contents(t)
  /\ \A f \in Lamps : Blank[f] = 0
  /\ DOMAIN NonePending = {}
<1>1. NoStatus \in Status /\ 0 \in Versions
  BY BoundTypes DEF NoStatus, Status, HealthStates, Versions
<1>2. DOMAIN Blank = Topics /\ DOMAIN NonePending = {}
  BY DEF Blank, NonePending
<1>3. \A f \in Lamps : f \in Topics /\ f # Health /\ Blank[f] = 0
  BY TopicNames DEF Topics, Blank
<1>4. Blank[Health] = NoStatus
  BY DEF Blank, Topics
<1>5. \A t \in Topics : Blank[t] \in Contents(t)
  BY <1>1, <1>3, <1>4, EventTypes DEF Topics
<1> QED
  BY <1>2, <1>3, <1>5

LEMMA OperatorInitTyping ==
  ASSUME OperatorInit
  PROVE  OperatorTyping
<1>1. IInv
  BY InitInv DEF OperatorInit
<1>2. /\ cached_lamp_statuses \in [Lamps -> Versions] /\ pulls \in 0 .. MaxPulls
      /\ to_hmi \in Seq(Events) /\ Len(to_hmi) <= MaxInFlight /\ snapshot \in Seq(Lamps)
  BY BoundTypes, EmptySeq DEF OperatorInit, Versions
<1>3. /\ DOMAIN pending = {}
      /\ DOMAIN display = Topics /\ \A t \in Topics : display[t] \in Contents(t)
  BY BlankTypes DEF OperatorInit
<1> QED
  BY <1>1, <1>2, <1>3 DEF OperatorInit, OperatorTyping

\* Every step of the operator system is a step of NodeHealth or leaves the health alone.
LEMMA HealthStep ==
  ASSUME [OperatorNext]_operator_vars
  PROVE  [Next]_vars
  BY DEF OperatorNext, operator_vars, Receiver, OnLampStatusReceived,
     OnNodeHealthStatusReceived, OnServiceAvailabilityChanged, Relay, HeartbeatTick, Dispatch,
     HandleGetAllLampStates, ReadCachedLampStatus, PublishRead, StartHmi, StopHmi, Deliver,
     Lose, pollAndUpdate, onPullTimerExpired, Next

\* What a step leaves alone: the HMI and what is under way to it; dispatch.
HmiKept == UNCHANGED <<environment, to_hmi, hmi_running, pending, display>>
DispatchKept == UNCHANGED <<read, snapshot, pulls>>

LEMMA EnvironmentTypes ==
  ASSUME OperatorTyping
  PROVE  /\ environment.topics \subseteq Topics /\ IsFiniteSet(environment.receivers)
         /\ environment.transport \in {"vsomeip", "udp"}
  BY EnvironmentsAssumption DEF OperatorTyping

\* Typing carries over a step that touches neither the HMI nor dispatch.
LEMMA ReceiverStepTypes ==
  ASSUME OperatorTyping, IInv', HmiKept, DispatchKept,
         cached_lamp_statuses' \in [Lamps -> Versions],
         relaying' \in [environment.receivers -> Events \cup {Nothing}],
         told' \subseteq told
  PROVE  OperatorTyping'
<1>1. ~hmi_running' => told' = {}
  BY DEF OperatorTyping, HmiKept
<1>2. pending' = pending /\ (DOMAIN pending')  = DOMAIN pending /\ display' = display
  BY DEF HmiKept
<1> QED
  BY <1>1, <1>2 DEF OperatorTyping, HmiKept, DispatchKept, NonePending, Blank, Contents

\* The three handlers: what they write and what they hand on.
LEMMA LampCached ==
  ASSUME OperatorTyping, NEW r \in environment.receivers,
         NEW f \in environment.topics \ {Health}, OnLampStatusReceived(r, f),
         environment' = environment
  PROVE  /\ f \in Lamps /\ relaying[r] = Nothing
         /\ cached_lamp_statuses' \in [Lamps -> Versions]
         /\ cached_lamp_statuses'[f] > cached_lamp_statuses[f]
         /\ \A g \in Lamps : g # f => cached_lamp_statuses'[g] = cached_lamp_statuses[g]
         /\ relaying' \in [environment.receivers -> Events \cup {Nothing}]
         /\ relaying'[r] = Event(f, cached_lamp_statuses'[f])
         /\ \A q \in environment.receivers : q # r => relaying'[q] = relaying[q]
         /\ told' = told \ {f} /\ cached' = cached
         /\ HmiKept /\ DispatchKept
<1>1. f \in Lamps
  BY EnvironmentTypes DEF Topics
<1>2. /\ cached_lamp_statuses \in [Lamps -> Versions] /\ cached_lamp_statuses[f] < MaxVersion
      /\ cached_lamp_statuses' = [cached_lamp_statuses EXCEPT ![f] = @ + 1]
      /\ relaying \in [environment.receivers -> Events \cup {Nothing}]
      /\ relaying' = [relaying EXCEPT ![r] = Event(f, cached_lamp_statuses'[f])]
  BY DEF OperatorTyping, OnLampStatusReceived
<1>3. cached_lamp_statuses'[f] = cached_lamp_statuses[f] + 1 /\ cached_lamp_statuses[f] \in Nat
  BY <1>1, <1>2 DEF Versions
<1>4. cached_lamp_statuses'[f] \in Versions
  BY <1>1, <1>2, <1>3, BoundTypes DEF Versions
<1>5. Event(f, cached_lamp_statuses'[f]) \in Events
  BY <1>1, <1>4, EventTypes
<1>6. /\ relaying[r] = Nothing /\ told' = told \ {f} /\ cached' = cached
      /\ HmiKept /\ DispatchKept
  BY DEF OnLampStatusReceived, vars, dispatch_side, hmi_side, HmiKept, DispatchKept
<1>7. cached_lamp_statuses' \in [Lamps -> Versions]
  BY <1>1, <1>2, <1>3, <1>4
<1>8. /\ relaying' \in [environment.receivers -> Events \cup {Nothing}]
      /\ relaying'[r] = Event(f, cached_lamp_statuses'[f])
      /\ \A q \in environment.receivers : q # r => relaying'[q] = relaying[q]
  BY <1>2, <1>5
<1> QED
  BY <1>1, <1>2, <1>3, <1>6, <1>7, <1>8

LEMMA HealthCached ==
  ASSUME OperatorTyping, NEW r \in environment.receivers, NEW status \in Status,
         OnNodeHealthStatusReceived(r, status), environment' = environment
  PROVE  /\ relaying[r] = Nothing
         /\ relaying' \in [environment.receivers -> Events \cup {Nothing}]
         /\ relaying'[r] = Event(Health, cached')
         /\ \A q \in environment.receivers : q # r => relaying'[q] = relaying[q]
         /\ told' = told \ {Health} /\ cached_lamp_statuses' = cached_lamp_statuses
         /\ HmiKept /\ DispatchKept
<1>1. /\ relaying \in [environment.receivers -> Events \cup {Nothing}]
      /\ relaying' = [relaying EXCEPT ![r] = Event(Health, status)] /\ cached' = status
  BY DEF OperatorTyping, OnNodeHealthStatusReceived, OnNodeHealthStatus
<1>2. Event(Health, status) \in Events
  BY EventTypes
<1>3. /\ relaying[r] = Nothing /\ told' = told \ {Health}
      /\ cached_lamp_statuses' = cached_lamp_statuses
      /\ HmiKept /\ DispatchKept
  BY DEF OnNodeHealthStatusReceived, dispatch_side, hmi_side, HmiKept, DispatchKept
<1> QED
  BY <1>1, <1>2, <1>3

LEMMA AvailabilityCached ==
  ASSUME OperatorTyping, NEW r \in environment.receivers, NEW available \in BOOLEAN,
         OnServiceAvailabilityChanged(r, available), environment' = environment
  PROVE  /\ relaying[r] = Nothing /\ relaying' = relaying
         /\ told' = told \ {Health} /\ cached_lamp_statuses' = cached_lamp_statuses
         /\ HmiKept /\ DispatchKept
  BY DEF OnServiceAvailabilityChanged, controller_side, dispatch_side, hmi_side, HmiKept,
     DispatchKept

\* An event published goes to a running HMI, or nowhere.
LEMMA Published ==
  ASSUME OperatorTyping, NEW e \in Events, Publish(e)
  PROVE  /\ to_hmi' \in Seq(Events) /\ Len(to_hmi') <= MaxInFlight
         /\ told' \subseteq Topics
         /\ hmi_running =>
              /\ Len(to_hmi') = Len(to_hmi) + 1 /\ to_hmi'[Len(to_hmi) + 1] = e
              /\ \A i \in 1 .. Len(to_hmi) : to_hmi'[i] = to_hmi[i]
         /\ ~hmi_running => to_hmi' = to_hmi /\ told' = told
<1>1. /\ to_hmi \in Seq(Events) /\ Len(to_hmi) < MaxInFlight /\ told \subseteq Topics
      /\ to_hmi' = IF hmi_running THEN Append(to_hmi, e) ELSE to_hmi
  BY DEF OperatorTyping, Publish
<1>2. /\ told' = told \/ (e.topic \in Topics /\ told' = told \cup {e.topic})
      /\ ~hmi_running => told' = told
  BY DEF Publish
<1>3. Len(to_hmi) \in Nat /\ MaxInFlight \in Nat
  BY <1>1, LenProperties, BoundTypes
<1>4. CASE hmi_running
  BY <1>1, <1>2, <1>3, <1>4, AppendProperties
<1>5. CASE ~hmi_running
  BY <1>1, <1>2, <1>3, <1>5
<1> QED
  BY <1>4, <1>5

LEMMA PublishTypes ==
  ASSUME OperatorTyping, NEW e \in Events, Publish(e), IInv',
         UNCHANGED <<environment, cached_lamp_statuses, hmi_running, pending, display,
                     snapshot, pulls>>,
         relaying' \in [environment.receivers -> Events \cup {Nothing}],
         read' \in Events \cup {Nothing}
  PROVE  OperatorTyping'
<1>1. ~hmi_running => to_hmi' = << >> /\ told' = {}
  BY Published DEF OperatorTyping
<1>2. (DOMAIN pending') = DOMAIN pending
  OBVIOUS
<1> QED
  BY <1>1, <1>2, Published DEF OperatorTyping, NonePending, Blank, Contents

\* The first event leaves the queue.
LEMMA QueueShrinks ==
  ASSUME OperatorTyping, to_hmi # << >>, to_hmi' = Tail(to_hmi)
  PROVE  /\ to_hmi' \in Seq(Events) /\ Len(to_hmi) \in Nat \ {0}
         /\ Len(to_hmi') = Len(to_hmi) - 1 /\ Len(to_hmi') <= MaxInFlight
         /\ \A i \in 1 .. Len(to_hmi') : to_hmi'[i] = to_hmi[i + 1]
         /\ Head(to_hmi) = to_hmi[1] /\ Head(to_hmi) \in Events
<1>1. to_hmi \in Seq(Events) /\ Len(to_hmi) <= MaxInFlight /\ MaxInFlight \in Nat
  BY BoundTypes DEF OperatorTyping
<1> QED
  BY <1>1, HeadTailProperties, EmptySeq

-----------------------------------------------------------------------------
(* The invariant: from the controller's cache to the display. *)

\* What a topic's newest event in a queue says, if there is one.
NoneOf(q, t) == \A i \in 1 .. Len(q) : q[i].topic # t
LastIs(q, t, v) ==
  \E i \in 1 .. Len(q) : /\ q[i].topic = t /\ q[i].content = v
                         /\ \A j \in 1 .. Len(q) : j > i => q[j].topic # t

\* What the dashboard shows of a topic once the timer has fired.
Shown(t) == IF t \in DOMAIN pending THEN pending[t] ELSE display[t]

\* Over vsomeip no request for all lamps arrives.
NoAnswers ==
  environment.transport = "vsomeip" => pulls = 0 /\ snapshot = << >> /\ read = Nothing

\* The one receiver publishes what the cache holds.
Fresh ==
  InOrder => \A r \in environment.receivers :
    relaying[r] # Nothing =>
      relaying[r].topic \in Topics /\ relaying[r].content = Cached(relaying[r].topic)

\* From the display to the cache the versions of a lamp only grow.
Ordered ==
  InOrder => \A f \in Lamps :
    /\ display[f] <= Shown(f) /\ Shown(f) <= cached_lamp_statuses[f]
    /\ \A i \in 1 .. Len(to_hmi) : to_hmi[i].topic = f =>
         Shown(f) <= to_hmi[i].content /\ to_hmi[i].content <= cached_lamp_statuses[f]
    /\ \A i, j \in 1 .. Len(to_hmi) :
         i < j /\ to_hmi[i].topic = f /\ to_hmi[j].topic = f =>
           to_hmi[i].content <= to_hmi[j].content

\* Of a topic told of, the newest that is under way is what the cache holds.
Reaches(t) == LastIs(to_hmi, t, Cached(t)) \/ (NoneOf(to_hmi, t) /\ Shown(t) = Cached(t))
ToldIsUnderWay == InOrder => \A t \in told : Reaches(t)

OperatorInv == OperatorTyping /\ NoAnswers /\ Fresh /\ Ordered /\ ToldIsUnderWay

LEMMA OneReceiver ==
  ASSUME OperatorTyping, InOrder, NEW r \in environment.receivers,
         NEW q \in environment.receivers
  PROVE  q = r
<1>1. IsFiniteSet(environment.receivers) /\ Cardinality(environment.receivers) = 1
  BY EnvironmentTypes DEF InOrder
<1>2. \E x : environment.receivers = {x}
  BY <1>1, FS_Singleton
<1> QED
  BY <1>2

\* Versions are numbers all along the way.
LEMMA VersionTypes ==
  ASSUME OperatorTyping, NEW f \in Lamps
  PROVE  /\ cached_lamp_statuses[f] \in Nat /\ display[f] \in Nat /\ Shown(f) \in Nat
         /\ Cached(f) = cached_lamp_statuses[f]
         /\ \A i \in 1 .. Len(to_hmi) : to_hmi[i].topic = f => to_hmi[i].content \in Nat
<1>1. f \in Topics /\ f # Health /\ Contents(f) = Versions /\ Versions \subseteq Nat
  BY TopicNames, EventTypes DEF Topics, Versions
<1>2. \A i \in 1 .. Len(to_hmi) : to_hmi[i] \in Events
  BY ElementOfSeq DEF OperatorTyping
<1>3. \A i \in 1 .. Len(to_hmi) : to_hmi[i].topic = f => to_hmi[i].content \in Nat
  BY <1>1, <1>2, EventTypes
<1>4. cached_lamp_statuses[f] \in Nat /\ display[f] \in Nat /\ Shown(f) \in Nat
  BY <1>1 DEF OperatorTyping, Shown
<1> QED
  BY <1>1, <1>3, <1>4 DEF Cached

LEMMA OperatorInitInv ==
  ASSUME OperatorInit
  PROVE  OperatorInv
<1>1. OperatorTyping
  BY OperatorInitTyping
<1>2. NoAnswers /\ Fresh /\ ToldIsUnderWay
  BY DEF OperatorInit, NoAnswers, Fresh, ToldIsUnderWay
<1>3. Ordered
  <2>1. /\ Len(to_hmi) = 0 /\ DOMAIN pending = {}
        /\ \A f \in Lamps : display[f] = 0 /\ cached_lamp_statuses[f] = 0
    BY TopicNames DEF OperatorInit, NonePending, Blank, Topics
  <2> QED
    BY <2>1 DEF Ordered, Shown
<1> QED
  BY <1>1, <1>2, <1>3 DEF OperatorInv

\* A receiver writes the cache of one topic: of that topic nothing is told any more.
LEMMA CacheInv ==
  ASSUME OperatorInv, OperatorTyping', HmiKept, DispatchKept,
         NEW r \in environment.receivers, NEW t \in Topics,
         \A s \in Topics : s # t => Cached(s)' = Cached(s),
         t \in Lamps => Cached(t)' >= Cached(t),
         told' = told \ {t}, relaying[r] = Nothing,
         relaying'[r] = Nothing \/ relaying'[r] = Event(t, Cached(t)')
  PROVE  OperatorInv'
<1>1. /\ InOrder' <=> InOrder
      /\ \A s \in Topics : Shown(s)' = Shown(s)
      /\ to_hmi' = to_hmi /\ display' = display /\ environment' = environment
  BY DEF HmiKept, InOrder, Shown
<1>2. NoAnswers'
  BY DEF OperatorInv, NoAnswers, HmiKept, DispatchKept
<1>3. Fresh'
  <2> SUFFICES ASSUME InOrder, NEW q \in environment.receivers, relaying'[q] # Nothing
               PROVE  relaying'[q].topic \in Topics
                      /\ relaying'[q].content = (Cached(relaying[q].topic))'
    BY <1>1 DEF Fresh
  <2>1. q = r
    BY OneReceiver DEF OperatorInv
  <2>2. relaying'[q] = Event(t, Cached(t)')
    BY <2>1
  <2>3. relaying'[q].topic = t /\ relaying'[q].content = Cached(t)'
    BY <2>2 DEF Event
  <2> QED
    BY <2>3 DEF Cached
<1>4. Ordered'
  <2> SUFFICES ASSUME InOrder, NEW f \in Lamps
               PROVE  /\ display[f] <= Shown(f) /\ Shown(f) <= cached_lamp_statuses'[f]
                      /\ \A i \in 1 .. Len(to_hmi) : to_hmi[i].topic = f =>
                           /\ Shown(f) <= to_hmi[i].content
                           /\ to_hmi[i].content <= cached_lamp_statuses'[f]
                      /\ \A i, j \in 1 .. Len(to_hmi) :
                           i < j /\ to_hmi[i].topic = f /\ to_hmi[j].topic = f =>
                             to_hmi[i].content <= to_hmi[j].content
    BY <1>1, TopicNames DEF Ordered, Topics
  <2>1. f \in Topics /\ Cached(f) = cached_lamp_statuses[f] /\ Cached(f)' = cached_lamp_statuses'[f]
    BY TopicNames DEF Topics, Cached
  <2>2. /\ cached_lamp_statuses'[f] \in Nat /\ cached_lamp_statuses[f] \in Nat
        /\ Shown(f) \in Nat
        /\ \A i \in 1 .. Len(to_hmi) : to_hmi[i].topic = f => to_hmi[i].content \in Nat
    BY VersionTypes, TopicNames DEF OperatorInv, OperatorTyping, Versions
  <2>3. cached_lamp_statuses'[f] >= cached_lamp_statuses[f]
    BY <2>1, <2>2
  <2> QED
    BY <2>2, <2>3 DEF OperatorInv, Ordered
<1>5. ToldIsUnderWay'
  <2> SUFFICES ASSUME InOrder, NEW s \in told, s # t
               PROVE  Reaches(s)'
    BY <1>1 DEF ToldIsUnderWay
  <2>1. s \in Topics /\ Cached(s)' = Cached(s)
    BY DEF OperatorInv, OperatorTyping
  <2> QED
    BY <1>1, <2>1 DEF OperatorInv, ToldIsUnderWay, Reaches
<1> QED
  BY <1>2, <1>3, <1>4, <1>5 DEF OperatorInv

\* Steps that leave the caches, the HMI and what is under way to it alone.
FlowKept == HmiKept /\ UNCHANGED <<cached_lamp_statuses, cached, told>>

LEMMA QuietInv ==
  ASSUME OperatorInv, OperatorTyping', FlowKept, NoAnswers',
         \A r \in environment.receivers : relaying'[r] # Nothing => relaying'[r] = relaying[r]
  PROVE  OperatorInv'
<1>1. /\ InOrder' <=> InOrder
      /\ \A s : Shown(s)' = Shown(s) /\ Cached(s)' = Cached(s)
      /\ UNCHANGED <<environment, to_hmi, display, cached_lamp_statuses, told>>
  BY DEF FlowKept, HmiKept, InOrder, Shown, Cached
<1>2. Fresh' /\ Ordered' /\ ToldIsUnderWay'
  BY <1>1 DEF OperatorInv, Fresh, Ordered, ToldIsUnderWay, Reaches
<1> QED
  BY <1>2 DEF OperatorInv

\* The one receiver publishes: the event goes to the end of the queue, and of its
\* topic it is the newest.
LEMMA RelayInv ==
  ASSUME OperatorInv, NEW r \in environment.receivers, Relay(r), environment' = environment,
         IInv'
  PROVE  OperatorInv'
<1> DEFINE e == relaying[r]
           n == Len(to_hmi)
<1>1. /\ e \in Events /\ e # Nothing /\ Publish(e)
      /\ UNCHANGED <<environment, cached, cached_lamp_statuses, hmi_running, pending, display,
                     read, snapshot, pulls>>
      /\ relaying' = [relaying EXCEPT ![r] = Nothing]
      /\ relaying \in [environment.receivers -> Events \cup {Nothing}]
  BY DEF OperatorInv, OperatorTyping, Relay, vars, dispatch_side, hmi_side
<1>2. OperatorTyping'
  <2>1. relaying' \in [environment.receivers -> Events \cup {Nothing}]
    BY <1>1
  <2>2. read' \in Events \cup {Nothing}
    BY <1>1 DEF OperatorInv, OperatorTyping
  <2> QED
    BY <1>1, <2>1, <2>2, PublishTypes DEF OperatorInv
<1>3. /\ InOrder' <=> InOrder
      /\ \A s : Shown(s)' = Shown(s) /\ Cached(s)' = Cached(s)
  BY <1>1 DEF InOrder, Shown, Cached
<1>4. NoAnswers'
  BY <1>1 DEF OperatorInv, NoAnswers
<1>5. Fresh'
  <2> SUFFICES ASSUME InOrder, NEW q \in environment.receivers
               PROVE  relaying'[q] = Nothing
    BY <1>1, <1>3 DEF Fresh
  <2> QED
    BY <1>1, OneReceiver DEF OperatorInv
<1>6. CASE ~hmi_running
  <2>1. to_hmi' = to_hmi /\ told' = told
    BY <1>1, <1>6, Published DEF OperatorInv
  <2>2. Ordered' /\ ToldIsUnderWay'
    BY <1>1, <1>3, <2>1 DEF OperatorInv, Ordered, ToldIsUnderWay, Reaches
  <2> QED
    BY <1>2, <1>4, <1>5, <2>2 DEF OperatorInv
<1>7. CASE hmi_running
  <2>1. /\ n \in Nat /\ Len(to_hmi') = n + 1 /\ to_hmi'[n + 1] = e
        /\ \A i \in 1 .. n : to_hmi'[i] = to_hmi[i]
    BY <1>1, <1>7, Published, LenProperties DEF OperatorInv, OperatorTyping
  <2>2. \A i \in 1 .. n + 1 : i \in 1 .. n \/ i = n + 1
    BY <2>1
  <2> HIDE DEF n
  <2>3. InOrder => e.topic \in Topics /\ e.content = Cached(e.topic)
    BY <1>1 DEF OperatorInv, Fresh
  <2>4. Ordered'
    <3> SUFFICES ASSUME InOrder, NEW f \in Lamps
                 PROVE  /\ display[f] <= Shown(f) /\ Shown(f) <= cached_lamp_statuses[f]
                        /\ \A i \in 1 .. n + 1 : to_hmi'[i].topic = f =>
                             /\ Shown(f) <= to_hmi'[i].content
                             /\ to_hmi'[i].content <= cached_lamp_statuses[f]
                        /\ \A i, j \in 1 .. n + 1 :
                             i < j /\ to_hmi'[i].topic = f /\ to_hmi'[j].topic = f =>
                               to_hmi'[i].content <= to_hmi'[j].content
      BY <1>1, <1>3, <2>1 DEF Ordered
    <3>1. /\ display[f] <= Shown(f) /\ Shown(f) <= cached_lamp_statuses[f]
          /\ \A i \in 1 .. n : to_hmi[i].topic = f =>
               Shown(f) <= to_hmi[i].content /\ to_hmi[i].content <= cached_lamp_statuses[f]
          /\ \A i, j \in 1 .. n : i < j /\ to_hmi[i].topic = f /\ to_hmi[j].topic = f =>
               to_hmi[i].content <= to_hmi[j].content
      BY DEF OperatorInv, Ordered, n
    <3>2. cached_lamp_statuses[f] \in Nat /\ (e.topic = f => e.content = cached_lamp_statuses[f])
      BY <2>3, VersionTypes DEF OperatorInv
    <3>3. ASSUME NEW i \in 1 .. n + 1, to_hmi'[i].topic = f
          PROVE  /\ Shown(f) <= to_hmi'[i].content
                 /\ to_hmi'[i].content <= cached_lamp_statuses[f]
      BY <2>1, <2>2, <3>1, <3>2, <3>3
    <3>4. ASSUME NEW i \in 1 .. n + 1, NEW j \in 1 .. n + 1, i < j,
                 to_hmi'[i].topic = f, to_hmi'[j].topic = f
          PROVE  to_hmi'[i].content <= to_hmi'[j].content
      <4>1. i \in 1 .. n
        BY <2>1, <2>2, <3>4
      <4>2. CASE j \in 1 .. n
        BY <2>1, <3>1, <3>4, <4>1, <4>2
      <4>3. CASE j = n + 1
        BY <2>1, <3>2, <3>3, <3>4, <4>3
      <4> QED
        BY <2>2, <4>2, <4>3
    <3> QED
      BY <3>1, <3>3, <3>4
  <2>5. ToldIsUnderWay'
    <3> SUFFICES ASSUME InOrder, NEW t \in told'
                 PROVE  \/ LastIs(to_hmi', t, Cached(t))
                        \/ NoneOf(to_hmi', t) /\ Shown(t) = Cached(t)
      BY <1>3 DEF ToldIsUnderWay, Reaches
    <3>1. CASE t = e.topic
      <4>1. /\ n + 1 \in 1 .. Len(to_hmi') /\ to_hmi'[n + 1].topic = t
            /\ to_hmi'[n + 1].content = Cached(t)
            /\ \A j \in 1 .. Len(to_hmi') : ~(j > n + 1)
        BY <2>1, <2>3, <3>1
      <4> QED
        BY <4>1 DEF LastIs
    <3>2. CASE t # e.topic
      <4>1. t \in told
        BY <1>1, <3>2 DEF Publish
      <4>2. Reaches(t)
        BY <4>1 DEF OperatorInv, ToldIsUnderWay
      <4>3. CASE NoneOf(to_hmi, t) /\ Shown(t) = Cached(t)
        <5>1. NoneOf(to_hmi', t)
          BY <2>1, <2>2, <3>2, <4>3 DEF NoneOf, n
        <5> QED
          BY <4>3, <5>1
      <4>4. CASE LastIs(to_hmi, t, Cached(t))
        <5>1. PICK i \in 1 .. n : /\ to_hmi[i].topic = t /\ to_hmi[i].content = Cached(t)
                                  /\ \A j \in 1 .. n : j > i => to_hmi[j].topic # t
          BY <4>4 DEF LastIs, n
        <5>2. /\ i \in 1 .. Len(to_hmi') /\ to_hmi'[i] = to_hmi[i]
              /\ \A j \in 1 .. Len(to_hmi') : j > i => to_hmi'[j].topic # t
          BY <2>1, <2>2, <3>2, <5>1
        <5> QED
          BY <5>1, <5>2 DEF LastIs
      <4> QED
        BY <4>2, <4>3, <4>4 DEF Reaches
    <3> QED
      BY <3>1, <3>2
  <2> QED
    BY <1>2, <1>4, <1>5, <2>4, <2>5 DEF OperatorInv
<1> QED
  BY <1>6, <1>7

\* Out of vsomeip nothing is promised but the types.
LEMMA UnorderedInv ==
  ASSUME OperatorTyping', environment' = environment, environment.transport # "vsomeip"
  PROVE  OperatorInv'
  BY DEF OperatorInv, NoAnswers, Fresh, Ordered, ToldIsUnderWay, InOrder

LEMMA PublishReadInv ==
  ASSUME OperatorInv, PublishRead, environment' = environment, IInv'
  PROVE  OperatorInv'
<1>1. /\ read \in Events /\ Publish(read) /\ read' = Nothing
      /\ UNCHANGED <<environment, cached_lamp_statuses, hmi_running, pending, display,
                     relaying, snapshot, pulls>>
  BY DEF OperatorInv, OperatorTyping, PublishRead, controller_side, hmi_side
<1>2. OperatorTyping'
  BY <1>1, PublishTypes DEF OperatorInv, OperatorTyping
<1>3. environment.transport # "vsomeip"
  BY DEF OperatorInv, NoAnswers, PublishRead
<1> QED
  BY <1>2, <1>3, UnorderedInv

\* Dispatch, the timers of the node and the HMI's request change nothing under way.
LEMMA DispatchInv ==
  ASSUME OperatorInv, HandleGetAllLampStates \/ ReadCachedLampStatus \/ onPullTimerExpired,
         environment' = environment, IInv'
  PROVE  OperatorInv'
<1>1. FlowKept /\ relaying' = relaying
  BY DEF HandleGetAllLampStates, ReadCachedLampStatus, onPullTimerExpired, FlowKept, HmiKept,
     vars, controller_side, hmi_side
<1>2. pulls' \in 0 .. MaxPulls
  BY BoundTypes DEF OperatorInv, OperatorTyping, HandleGetAllLampStates, ReadCachedLampStatus,
     onPullTimerExpired
<1>3. snapshot' \in Seq(Lamps) /\ read' \in Events \cup {Nothing}
  <2>1. CASE HandleGetAllLampStates
    BY <2>1, TopicNames
       DEF OperatorInv, OperatorTyping, HandleGetAllLampStates, LampsOfAnswer
  <2>2. CASE ReadCachedLampStatus
    <3>1. Head(snapshot) \in Lamps /\ snapshot' \in Seq(Lamps)
      BY <2>2, HeadTailProperties DEF OperatorInv, OperatorTyping, ReadCachedLampStatus
    <3>2. cached_lamp_statuses[Head(snapshot)] \in Versions
      BY <3>1 DEF OperatorInv, OperatorTyping
    <3>3. read' \in Events
      BY <2>2, <3>1, <3>2, EventTypes DEF ReadCachedLampStatus, Events
    <3> QED
      BY <3>1, <3>3
  <2>3. CASE onPullTimerExpired
    BY <2>3 DEF OperatorInv, OperatorTyping, onPullTimerExpired
  <2> QED
    BY <2>1, <2>2, <2>3
<1>4. OperatorTyping'
  <2>1. (DOMAIN pending') = DOMAIN pending
    BY <1>1 DEF FlowKept, HmiKept
  <2> QED
    BY <1>1, <1>2, <1>3, <2>1
       DEF OperatorInv, OperatorTyping, FlowKept, HmiKept, NonePending, Blank, Contents
<1>5. NoAnswers'
  BY DEF OperatorInv, NoAnswers, HandleGetAllLampStates, ReadCachedLampStatus,
     onPullTimerExpired, GetAllIsDelivered
<1> QED
  BY <1>1, <1>4, <1>5, QuietInv

LEMMA HeartbeatInv ==
  ASSUME OperatorInv, HeartbeatTick, environment' = environment, IInv'
  PROVE  OperatorInv'
<1>1. FlowKept /\ DispatchKept /\ relaying' = relaying
  BY DEF HeartbeatTick, ProcessMainLoop, FlowKept, HmiKept, DispatchKept, controller_side,
     dispatch_side, hmi_side
<1>2. OperatorTyping'
  BY <1>1, ReceiverStepTypes DEF OperatorInv, OperatorTyping, FlowKept
<1>3. NoAnswers'
  BY <1>1 DEF OperatorInv, NoAnswers, DispatchKept, FlowKept, HmiKept
<1> QED
  BY <1>1, <1>2, <1>3, QuietInv

\* The HMI starts, or stops: nothing has been told.
LEMMA HmiInv ==
  ASSUME OperatorInv, StartHmi \/ StopHmi, environment' = environment, IInv'
  PROVE  OperatorInv'
<1>1. /\ UNCHANGED <<cached_lamp_statuses, relaying, read, snapshot, pulls, cached>>
      /\ hmi_running' \in BOOLEAN /\ told' = {}
  BY DEF StartHmi, StopHmi, vars, controller_side, dispatch_side
<1>2. to_hmi' = << >> /\ pending' = NonePending /\ display' = Blank
  BY DEF OperatorInv, OperatorTyping, StartHmi, StopHmi
<1>3. /\ Len(to_hmi') = 0 /\ (DOMAIN pending') = {}
      /\ \A f \in Lamps : display'[f] = 0
      /\ (DOMAIN display') = Topics /\ \A t \in Topics : display'[t] \in Contents(t)
      /\ 0 <= MaxInFlight
  BY <1>2, BlankTypes, BoundTypes DEF Contents
<1>4. OperatorTyping'
  BY <1>1, <1>2, <1>3, EmptySeq
     DEF OperatorInv, OperatorTyping, NonePending, Blank, Contents
<1>5. NoAnswers' /\ Fresh' /\ ToldIsUnderWay'
  BY <1>1 DEF OperatorInv, NoAnswers, Fresh, ToldIsUnderWay, InOrder, Cached
<1>6. Ordered'
  <2> SUFFICES ASSUME InOrder, NEW f \in Lamps
               PROVE  display'[f] <= Shown(f)' /\ Shown(f)' <= cached_lamp_statuses[f]
    BY <1>1, <1>3 DEF Ordered, InOrder
  <2>1. Shown(f)' = 0 /\ display'[f] = 0
    BY <1>3 DEF Shown
  <2> QED
    BY <2>1, VersionTypes DEF OperatorInv
<1> QED
  BY <1>4, <1>5, <1>6 DEF OperatorInv

\* The timer shows what was pending: what is shown in the end stays the same.
LEMMA ShowInv ==
  ASSUME OperatorInv, pollAndUpdate, environment' = environment, IInv'
  PROVE  /\ OperatorInv'
         /\ \A t \in Topics : display'[t] = Shown(t) /\ Shown(t)' = Shown(t)
<1>1. /\ UNCHANGED <<environment, cached_lamp_statuses, relaying, read, snapshot, pulls, cached,
                     to_hmi, hmi_running, told>>
      /\ hmi_running /\ (DOMAIN pending') = {} /\ (DOMAIN display') = Topics
      /\ \A t \in Topics : display'[t] = Shown(t)
  BY DEF pollAndUpdate, vars, controller_side, dispatch_side, NonePending, Shown
<1>2. \A t \in Topics : Shown(t)' = Shown(t) /\ Shown(t) \in Contents(t)
  BY <1>1 DEF Shown, OperatorInv, OperatorTyping
<1>3. OperatorTyping'
  BY <1>1, <1>2 DEF OperatorInv, OperatorTyping, Contents
<1>4. NoAnswers' /\ Fresh'
  BY <1>1 DEF OperatorInv, NoAnswers, Fresh, InOrder, Cached
<1>5. Ordered'
  <2> SUFFICES ASSUME InOrder, NEW f \in Lamps
               PROVE  /\ display'[f] <= Shown(f) /\ Shown(f) <= cached_lamp_statuses[f]
                      /\ \A i \in 1 .. Len(to_hmi) : to_hmi[i].topic = f =>
                           /\ Shown(f) <= to_hmi[i].content
                           /\ to_hmi[i].content <= cached_lamp_statuses[f]
                      /\ \A i, j \in 1 .. Len(to_hmi) :
                           i < j /\ to_hmi[i].topic = f /\ to_hmi[j].topic = f =>
                             to_hmi[i].content <= to_hmi[j].content
    BY <1>1, <1>2, TopicNames DEF Ordered, InOrder, Topics
  <2>1. Shown(f) \in Nat /\ display'[f] = Shown(f)
    BY <1>1, VersionTypes DEF OperatorInv, Topics
  <2> QED
    BY <2>1 DEF OperatorInv, Ordered
<1>6. ToldIsUnderWay'
  BY <1>1, <1>2 DEF OperatorInv, OperatorTyping, ToldIsUnderWay, Reaches, InOrder, Cached
<1> QED
  BY <1>1, <1>2, <1>3, <1>4, <1>5, <1>6 DEF OperatorInv

\* An event is lost.
LEMMA LoseInv ==
  ASSUME OperatorInv, Lose, environment' = environment, IInv'
  PROVE  OperatorInv'
<1>1. /\ environment.transport # "vsomeip"
      /\ UNCHANGED <<cached_lamp_statuses, relaying, read, snapshot, hmi_running, pending,
                     display>>
      /\ told' \subseteq told
  BY DEF Lose, vars, controller_side, hmi_side
<1>2. /\ to_hmi' \in Seq(Events) /\ Len(to_hmi') <= MaxInFlight /\ pulls' \in 0 .. MaxPulls
      /\ to_hmi = << >> => to_hmi' = to_hmi
  BY QueueShrinks, BoundTypes DEF OperatorInv, OperatorTyping, Lose
<1>3. OperatorTyping'
  <2>1. (DOMAIN pending') = DOMAIN pending
    BY <1>1
  <2> QED
    BY <1>1, <1>2, <2>1 DEF OperatorInv, OperatorTyping, NonePending, Blank, Contents
<1> QED
  BY <1>1, <1>3, UnorderedInv

\* The first event is taken over into pending.
LEMMA DeliverInv ==
  ASSUME OperatorInv, NEW topic, Deliver(topic), environment' = environment, IInv'
  PROVE  OperatorInv'
<1> DEFINE e == Head(to_hmi)
           n == Len(to_hmi')
<1>1. /\ to_hmi # << >> /\ to_hmi' = Tail(to_hmi) /\ pending' = Merged(e)
      /\ UNCHANGED <<environment, cached_lamp_statuses, relaying, read, snapshot, pulls, cached,
                     hmi_running, display, told>>
      /\ hmi_running
  BY DEF Deliver, vars, controller_side, dispatch_side, OperatorInv, OperatorTyping
<1>2. /\ to_hmi' \in Seq(Events) /\ Len(to_hmi) \in Nat \ {0}
      /\ n = Len(to_hmi) - 1 /\ n <= MaxInFlight /\ n \in Nat
      /\ \A i \in 1 .. n : to_hmi'[i] = to_hmi[i + 1] /\ i + 1 \in 1 .. Len(to_hmi)
      /\ e = to_hmi[1] /\ e \in Events /\ 1 \in 1 .. Len(to_hmi)
  BY <1>1, QueueShrinks DEF OperatorInv
<1> HIDE DEF e, n
<1>3. \A t \in Topics : /\ e.topic = t => Shown(t)' = e.content
                        /\ e.topic # t => Shown(t)' = Shown(t)
  BY <1>1, <1>2, EventTypes, TopicNames DEF Shown, Merged
<1>4. /\ (DOMAIN pending') \subseteq Topics
      /\ \A t \in DOMAIN pending' : pending'[t] \in Contents(t)
  BY <1>1, <1>2, EventTypes, TopicNames
     DEF Merged, OperatorInv, OperatorTyping, Event
<1>5. OperatorTyping'
  BY <1>1, <1>2, <1>4 DEF OperatorInv, OperatorTyping, n, Contents
<1>6. NoAnswers' /\ Fresh'
  BY <1>1 DEF OperatorInv, NoAnswers, Fresh, InOrder, Cached
<1>7. Ordered'
  <2> SUFFICES ASSUME InOrder, NEW f \in Lamps
               PROVE  /\ display[f] <= Shown(f)' /\ Shown(f)' <= cached_lamp_statuses[f]
                      /\ \A i \in 1 .. n : to_hmi'[i].topic = f =>
                           /\ Shown(f)' <= to_hmi'[i].content
                           /\ to_hmi'[i].content <= cached_lamp_statuses[f]
                      /\ \A i, j \in 1 .. n :
                           i < j /\ to_hmi'[i].topic = f /\ to_hmi'[j].topic = f =>
                             to_hmi'[i].content <= to_hmi'[j].content
    BY <1>1 DEF Ordered, InOrder, n
  <2>1. /\ display[f] <= Shown(f) /\ Shown(f) <= cached_lamp_statuses[f]
        /\ \A i \in 1 .. Len(to_hmi) : to_hmi[i].topic = f =>
             Shown(f) <= to_hmi[i].content /\ to_hmi[i].content <= cached_lamp_statuses[f]
        /\ \A i, j \in 1 .. Len(to_hmi) :
             i < j /\ to_hmi[i].topic = f /\ to_hmi[j].topic = f =>
               to_hmi[i].content <= to_hmi[j].content
    BY DEF OperatorInv, Ordered
  <2>2. /\ f \in Topics /\ display[f] \in Nat /\ Shown(f) \in Nat
        /\ cached_lamp_statuses[f] \in Nat
        /\ \A i \in 1 .. Len(to_hmi) : to_hmi[i].topic = f => to_hmi[i].content \in Nat
    BY VersionTypes DEF OperatorInv, Topics
  <2>3. \A i \in 1 .. n : 1 < i + 1
    BY <1>2
  <2>4. \A i, j \in 1 .. n : i < j => i + 1 < j + 1
    BY <1>2
  <2>5. \A i, j \in 1 .. n :
          i < j /\ to_hmi'[i].topic = f /\ to_hmi'[j].topic = f =>
            to_hmi'[i].content <= to_hmi'[j].content
    BY <1>2, <2>1, <2>4
  <2>6. \A i \in 1 .. n : to_hmi'[i].topic = f => to_hmi'[i].content <= cached_lamp_statuses[f]
    BY <1>2, <2>1
  <2>7. /\ display[f] <= Shown(f)' /\ Shown(f)' <= cached_lamp_statuses[f]
        /\ \A i \in 1 .. n : to_hmi'[i].topic = f => Shown(f)' <= to_hmi'[i].content
    <3>1. CASE e.topic = f
      <4>1. Shown(f)' = to_hmi[1].content /\ to_hmi[1].topic = f
        BY <1>2, <1>3, <2>2, <3>1
      <4>2. ASSUME NEW i \in 1 .. n, to_hmi'[i].topic = f
            PROVE  to_hmi[1].content <= to_hmi'[i].content
        <5>1. 1 < i + 1 /\ i + 1 \in 1 .. Len(to_hmi) /\ to_hmi'[i] = to_hmi[i + 1]
          BY <1>2, <2>3
        <5> QED
          BY <1>2, <2>1, <4>1, <4>2, <5>1
      <4>3. display[f] <= to_hmi[1].content /\ to_hmi[1].content <= cached_lamp_statuses[f]
        BY <1>2, <2>1, <2>2, <4>1
      <4> QED
        BY <4>1, <4>2, <4>3
    <3>2. CASE e.topic # f
      BY <1>2, <1>3, <2>1, <2>2, <3>2
    <3> QED
      BY <3>1, <3>2
  <2> QED
    BY <2>5, <2>6, <2>7
<1>8. ToldIsUnderWay'
  <2> SUFFICES ASSUME InOrder, NEW t \in told
               PROVE  \/ LastIs(to_hmi', t, Cached(t))
                      \/ NoneOf(to_hmi', t) /\ Shown(t)' = Cached(t)
    BY <1>1 DEF ToldIsUnderWay, Reaches, InOrder, Cached
  <2>1. Reaches(t) /\ t \in Topics
    BY DEF OperatorInv, OperatorTyping, ToldIsUnderWay
  <2>2. CASE NoneOf(to_hmi, t) /\ Shown(t) = Cached(t)
    <3>1. NoneOf(to_hmi', t) /\ e.topic # t
      BY <1>2, <2>2 DEF NoneOf, n
    <3> QED
      BY <1>3, <2>1, <2>2, <3>1
  <2>3. CASE LastIs(to_hmi, t, Cached(t))
    <3>1. PICK i \in 1 .. Len(to_hmi) :
            /\ to_hmi[i].topic = t /\ to_hmi[i].content = Cached(t)
            /\ \A j \in 1 .. Len(to_hmi) : j > i => to_hmi[j].topic # t
      BY <2>3 DEF LastIs
    <3>2. CASE i = 1
      <4>1. e.topic = t /\ e.content = Cached(t)
        BY <1>2, <3>1, <3>2
      <4>2. \A j \in 1 .. n : to_hmi'[j].topic # t
        BY <1>2, <3>1, <3>2
      <4> QED
        BY <1>3, <2>1, <4>1, <4>2 DEF NoneOf, n
    <3>3. CASE i # 1
      <4>1. /\ i - 1 \in 1 .. n /\ (i - 1) + 1 = i
            /\ \A j \in 1 .. n : j > i - 1 => j + 1 > i
        BY <1>2, <3>3
      <4>2. /\ to_hmi'[i - 1].topic = t /\ to_hmi'[i - 1].content = Cached(t)
            /\ \A j \in 1 .. n : j > i - 1 => to_hmi'[j].topic # t
        BY <1>2, <3>1, <4>1
      <4> QED
        BY <4>1, <4>2 DEF LastIs, n
    <3> QED
      BY <3>2, <3>3
  <2> QED
    BY <2>1, <2>2, <2>3 DEF Reaches
<1> QED
  BY <1>5, <1>6, <1>7, <1>8 DEF OperatorInv

LEMMA StutterInv ==
  ASSUME OperatorInv, UNCHANGED operator_vars
  PROVE  OperatorInv'
<1>1. /\ FlowKept /\ DispatchKept /\ relaying' = relaying
  BY DEF operator_vars, FlowKept, HmiKept, DispatchKept, controller_side, dispatch_side,
     hmi_side, vars
<1>2. IInv'
  BY StepInv DEF operator_vars, OperatorInv, OperatorTyping
<1>3. OperatorTyping'
  BY <1>1, <1>2, ReceiverStepTypes DEF OperatorInv, OperatorTyping, FlowKept
<1>4. NoAnswers'
  BY <1>1 DEF OperatorInv, NoAnswers, DispatchKept, FlowKept, HmiKept
<1> QED
  BY <1>1, <1>3, <1>4, QuietInv

LEMMA ReceiverInv ==
  ASSUME OperatorInv, NEW r \in environment.receivers, Receiver(r),
         environment' = environment, IInv'
  PROVE  OperatorInv'
<1>1. ASSUME NEW f \in environment.topics \ {Health}, OnLampStatusReceived(r, f)
      PROVE  OperatorInv'
  <2>1. /\ f \in Lamps /\ relaying[r] = Nothing
        /\ cached_lamp_statuses' \in [Lamps -> Versions]
        /\ cached_lamp_statuses'[f] > cached_lamp_statuses[f]
        /\ \A g \in Lamps : g # f => cached_lamp_statuses'[g] = cached_lamp_statuses[g]
        /\ relaying' \in [environment.receivers -> Events \cup {Nothing}]
        /\ relaying'[r] = Event(f, cached_lamp_statuses'[f])
        /\ told' = told \ {f} /\ cached' = cached
        /\ HmiKept /\ DispatchKept
    BY <1>1, LampCached DEF OperatorInv
  <2>2. OperatorTyping'
    BY <2>1, ReceiverStepTypes DEF OperatorInv
  <2>3. f \in Topics /\ f # Health /\ Cached(f)' = cached_lamp_statuses'[f]
    BY <2>1, TopicNames DEF Topics, Cached
  <2>4. \A s \in Topics : s # f => Cached(s)' = Cached(s)
    BY <2>1 DEF Topics, Cached
  <2>5. Cached(f)' >= Cached(f)
    <3>1. Cached(f) = cached_lamp_statuses[f] /\ cached_lamp_statuses[f] \in Nat
      BY <2>1, VersionTypes DEF OperatorInv
    <3>2. cached_lamp_statuses'[f] \in Nat
      BY <2>1 DEF Versions
    <3> QED
      BY <2>1, <2>3, <3>1, <3>2
  <2> QED
    BY <2>1, <2>2, <2>3, <2>4, <2>5, CacheInv
<1>2. ASSUME NEW status \in Status, OnNodeHealthStatusReceived(r, status)
      PROVE  OperatorInv'
  <2>1. /\ relaying[r] = Nothing /\ relaying'[r] = Event(Health, cached')
        /\ relaying' \in [environment.receivers -> Events \cup {Nothing}]
        /\ told' = told \ {Health} /\ cached_lamp_statuses' = cached_lamp_statuses
        /\ HmiKept /\ DispatchKept
    BY <1>2, HealthCached DEF OperatorInv
  <2>2. OperatorTyping'
    BY <2>1, ReceiverStepTypes DEF OperatorInv, OperatorTyping
  <2>3. /\ Health \in Topics /\ Health \notin Lamps /\ Cached(Health)' = cached'
        /\ \A s \in Topics : s # Health => Cached(s)' = Cached(s)
    BY <2>1, TopicNames DEF Topics, Cached
  <2> QED
    BY <2>1, <2>2, <2>3, CacheInv
<1>3. ASSUME NEW available \in BOOLEAN, OnServiceAvailabilityChanged(r, available)
      PROVE  OperatorInv'
  <2>1. /\ relaying[r] = Nothing /\ relaying' = relaying
        /\ told' = told \ {Health} /\ cached_lamp_statuses' = cached_lamp_statuses
        /\ HmiKept /\ DispatchKept
    BY <1>3, AvailabilityCached DEF OperatorInv
  <2>2. OperatorTyping'
    BY <2>1, ReceiverStepTypes DEF OperatorInv, OperatorTyping
  <2>3. /\ Health \in Topics /\ Health \notin Lamps
        /\ \A s \in Topics : s # Health => Cached(s)' = Cached(s)
    BY <2>1, TopicNames DEF Topics, Cached
  <2> QED
    BY <2>1, <2>2, <2>3, CacheInv
<1>4. CASE Relay(r)
  BY <1>4, RelayInv
<1>5. \A state \in ReportedStates, link \in BOOLEAN, service \in BOOLEAN :
        [health_state |-> state, link |-> link, service |-> service] \in Status
  BY ReportsAssumption DEF Status
<1> QED
  BY <1>1, <1>2, <1>3, <1>4, <1>5 DEF Receiver

LEMMA OperatorStepInv ==
  ASSUME OperatorInv, [OperatorNext]_operator_vars
  PROVE  OperatorInv'
<1>1. IInv'
  BY HealthStep, StepInv DEF OperatorInv, OperatorTyping
<1>2. CASE UNCHANGED operator_vars
  BY <1>2, StutterInv
<1>3. ASSUME environment' = environment, NEW r \in environment.receivers, Receiver(r)
      PROVE  OperatorInv'
  BY <1>1, <1>3, ReceiverInv
<1>4. CASE environment' = environment /\ HeartbeatTick
  BY <1>1, <1>4, HeartbeatInv
<1>5. CASE environment' = environment /\ Dispatch
  BY <1>1, <1>5, DispatchInv, PublishReadInv DEF Dispatch
<1>6. CASE environment' = environment /\ (StartHmi \/ StopHmi)
  BY <1>1, <1>6, HmiInv
<1>7. ASSUME environment' = environment, NEW t, Deliver(t)
      PROVE  OperatorInv'
  BY <1>1, <1>7, DeliverInv
<1>8. CASE environment' = environment /\ Lose
  BY <1>1, <1>8, LoseInv
<1>9. CASE environment' = environment /\ (pollAndUpdate \/ onPullTimerExpired)
  BY <1>1, <1>9, ShowInv, DispatchInv
<1> QED
  BY <1>2, <1>3, <1>4, <1>5, <1>6, <1>7, <1>8, <1>9 DEF OperatorNext

LEMMA OperatorInvariance == OperatorSpec => []OperatorInv
<1>1. OperatorInit => OperatorInv
  BY OperatorInitInv
<1>2. OperatorInv /\ [OperatorNext]_operator_vars => OperatorInv'
  BY OperatorStepInv
<1> QED
  BY <1>1, <1>2, PTL DEF OperatorSpec

-----------------------------------------------------------------------------
(* The theorems about the operator system. *)

\* What the controller's side knows of the node's health is as NodeHealth says,
\* whatever the threads that pass it on do meanwhile.
THEOREM HealthRefinement == OperatorSpec => Spec
<1>1. OperatorInit => Init
  BY DEF OperatorInit
<1>2. [OperatorNext]_operator_vars => [Next]_vars
  BY HealthStep
<1> QED
  BY <1>1, <1>2, PTL DEF OperatorSpec, Spec

\* So the watchdog keeps its two promises in the operator system, too.
THEOREM OperatorWatchdog == OperatorSpec => []SilentNodeIsNotAvailable /\ NoFalseAlarm
  BY HealthRefinement, Watchdog, Justified, PTL

\* Type correctness, of versions, events and bounds, and that nothing is kept for an
\* HMI that does not run.
THEOREM OperatorTypeCorrect == OperatorSpec => []OperatorTypeOK
<1>1. OperatorInv => OperatorTypeOK
  <2> SUFFICES ASSUME OperatorInv
               PROVE  OperatorTypeOK
    OBVIOUS
  <2>1. \A e \in Events \cup {Nothing} : e = Nothing \/ IsEvent(e)
    BY EventTypes DEF IsEvent
  <2>2. \A r \in environment.receivers : relaying[r] = Nothing \/ IsEvent(relaying[r])
    BY <2>1 DEF OperatorInv, OperatorTyping
  <2>3. \A i \in DOMAIN to_hmi : IsEvent(to_hmi[i])
    <3> SUFFICES ASSUME NEW i \in DOMAIN to_hmi
                 PROVE  IsEvent(to_hmi[i])
      OBVIOUS
    <3>1. to_hmi[i] \in Events
      BY LenProperties, ElementOfSeq DEF OperatorInv, OperatorTyping
    <3> QED
      BY <3>1, EventTypes DEF IsEvent
  <2> QED
    BY <2>1, <2>2, <2>3 DEF OperatorInv, OperatorTyping, OperatorTypeOK, Versions
<1> QED
  BY <1>1, OperatorInvariance, PTL

\* With one receiver and vsomeip the dashboard at rest is right about every topic told
\* of since the HMI started: the newest of a topic under way is what the cache holds,
\* and at rest nothing is under way.
THEOREM DisplayTrue == OperatorSpec => []DisplayTrueAtRest
<1>1. OperatorInv => DisplayTrueAtRest
  <2> SUFFICES ASSUME OperatorInv, InOrder, AtRest, NEW t \in told
               PROVE  display[t] = Cached(t)
    BY DEF DisplayTrueAtRest
  <2>1. Reaches(t) /\ Len(to_hmi) = 0 /\ DOMAIN pending = {}
    BY BlankTypes DEF OperatorInv, ToldIsUnderWay, AtRest
  <2> QED
    BY <2>1 DEF Reaches, LastIs, Shown
<1> QED
  BY <1>1, OperatorInvariance, PTL

\* And it never goes back to an older state of a lamp while the HMI runs: what is
\* pending is never older than what is shown.
THEOREM DisplayMovesOn == OperatorSpec => DisplayNeverGoesBack
<1>1. OperatorInv /\ [OperatorNext]_operator_vars =>
        [InOrder /\ hmi_running /\ hmi_running' =>
           \A f \in Lamps : display'[f] >= display[f]]_operator_vars
  <2> SUFFICES ASSUME OperatorInv, OperatorNext, InOrder, hmi_running, hmi_running',
                      NEW f \in Lamps
               PROVE  display'[f] >= display[f]
    OBVIOUS
  <2>1. f \in Topics /\ display[f] \in Nat /\ Shown(f) \in Nat
    BY VersionTypes DEF OperatorInv, Topics
  <2>2. CASE pollAndUpdate
    <3>1. display'[f] = Shown(f)
      BY <2>1, <2>2 DEF pollAndUpdate, Shown
    <3> QED
      BY <2>1, <3>1 DEF OperatorInv, Ordered
  <2>3. CASE ~pollAndUpdate
    <3>1. display' = display
      BY <2>3 DEF OperatorNext, Receiver, OnLampStatusReceived, OnNodeHealthStatusReceived,
        OnServiceAvailabilityChanged, Relay, HeartbeatTick, Dispatch, HandleGetAllLampStates,
        ReadCachedLampStatus, PublishRead, StartHmi, StopHmi, Deliver, Lose,
        onPullTimerExpired, hmi_side
    <3> QED
      BY <2>1, <3>1
  <2> QED
    BY <2>2, <2>3
<1> QED
  BY <1>1, OperatorInvariance, PTL DEF OperatorSpec, DisplayNeverGoesBack

-----------------------------------------------------------------------------
(* Whatever is lost, overtaken or published twice: nothing under way or    *)
(* shown is ahead of the controller's cache.                               *)

\* A cache holds what an event tells of a lamp, or something newer.
Holds(cache, e) == e.topic \in Lamps => e.content <= cache[e.topic]

NotAhead ==
  /\ \A r \in environment.receivers : Holds(cached_lamp_statuses, relaying[r])
  /\ Holds(cached_lamp_statuses, read)
  /\ \A i \in 1 .. Len(to_hmi) : Holds(cached_lamp_statuses, to_hmi[i])
  /\ \A f \in Lamps : /\ Shown(f) <= cached_lamp_statuses[f]
                      /\ display[f] <= cached_lamp_statuses[f]

\* The cache only grows, so what it has held it has held for good.
LEMMA HeldForGood ==
  ASSUME OperatorTyping, OperatorTyping', [OperatorNext]_operator_vars
  PROVE  /\ \A f \in Lamps : cached_lamp_statuses[f] <= cached_lamp_statuses'[f]
         /\ \A e \in Events \cup {Nothing} :
              Holds(cached_lamp_statuses, e) => Holds(cached_lamp_statuses', e)
<1>1. \A f \in Lamps : cached_lamp_statuses[f] \in Nat /\ cached_lamp_statuses'[f] \in Nat
  BY DEF OperatorTyping, Versions
<1>2. ASSUME NEW f \in Lamps
      PROVE  cached_lamp_statuses[f] <= cached_lamp_statuses'[f]
  <2>1. CASE cached_lamp_statuses' = cached_lamp_statuses
    BY <1>1, <2>1
  <2>2. ASSUME environment' = environment, NEW r \in environment.receivers,
               NEW g \in environment.topics \ {Health}, OnLampStatusReceived(r, g)
        PROVE  cached_lamp_statuses[f] <= cached_lamp_statuses'[f]
    <3>1. /\ cached_lamp_statuses'[g] > cached_lamp_statuses[g]
          /\ f # g => cached_lamp_statuses'[f] = cached_lamp_statuses[f]
      BY <2>2, LampCached
    <3> QED
      BY <1>1, <3>1
  <2> QED
    BY <2>1, <2>2
       DEF OperatorNext, operator_vars, controller_side, Receiver, OnNodeHealthStatusReceived,
           OnServiceAvailabilityChanged, Relay, HeartbeatTick, Dispatch,
           HandleGetAllLampStates, ReadCachedLampStatus, PublishRead, StartHmi, StopHmi,
           Deliver, Lose, pollAndUpdate, onPullTimerExpired
<1>3. ASSUME NEW e \in Events \cup {Nothing}, Holds(cached_lamp_statuses, e), e.topic \in Lamps
      PROVE  e.content <= cached_lamp_statuses'[e.topic]
  <2>1. e.content \in Nat
    BY <1>3, EventTypes, TopicNames DEF Nothing, Versions
  <2> QED
    BY <1>1, <1>2, <1>3, <2>1 DEF Holds
<1> QED
  BY <1>2, <1>3 DEF Holds

\* What a receiver and dispatch have in hand.
LEMMA InHandNotAhead ==
  ASSUME OperatorTyping, OperatorTyping', NotAhead, [OperatorNext]_operator_vars
  PROVE  /\ environment' = environment
         /\ \A r \in environment.receivers : Holds(cached_lamp_statuses', relaying'[r])
         /\ Holds(cached_lamp_statuses', read')
<1>1. environment' = environment
  BY DEF OperatorNext, operator_vars
<1>2. Holds(cached_lamp_statuses', Nothing)
  BY TopicNames DEF Holds, Nothing, Topics
<1>3. ASSUME NEW r \in environment.receivers
      PROVE  Holds(cached_lamp_statuses', relaying'[r])
  <2>1. relaying[r] \in Events \cup {Nothing}
    BY DEF OperatorTyping
  <2>2. CASE relaying'[r] = relaying[r]
    BY <1>3, <2>1, <2>2, HeldForGood DEF NotAhead
  <2>3. ASSUME NEW q \in environment.receivers, Receiver(q)
        PROVE  Holds(cached_lamp_statuses', relaying'[r])
    <3>1. ASSUME NEW f \in environment.topics \ {Health}, OnLampStatusReceived(q, f)
          PROVE  Holds(cached_lamp_statuses', relaying'[r])
      <4>1. /\ relaying'[q] = Event(f, cached_lamp_statuses'[f])
            /\ r # q => relaying'[r] = relaying[r]
            /\ f \in Lamps /\ cached_lamp_statuses' \in [Lamps -> Versions]
        BY <1>1, <1>3, <3>1, LampCached
      <4>2. cached_lamp_statuses'[f] <= cached_lamp_statuses'[f]
        BY <4>1 DEF Versions
      <4> QED
        BY <2>2, <4>1, <4>2 DEF Holds, Event
    <3>2. ASSUME NEW status \in Status, OnNodeHealthStatusReceived(q, status)
          PROVE  Holds(cached_lamp_statuses', relaying'[r])
      <4>1. /\ relaying'[q] = Event(Health, cached')
            /\ r # q => relaying'[r] = relaying[r]
        BY <1>1, <1>3, <3>2, HealthCached
      <4> QED
        BY <2>2, <4>1, TopicNames DEF Holds, Event
    <3>3. ASSUME NEW available \in BOOLEAN, OnServiceAvailabilityChanged(q, available)
          PROVE  Holds(cached_lamp_statuses', relaying'[r])
      BY <1>1, <2>2, <3>3, AvailabilityCached
    <3>4. CASE Relay(q)
      <4>1. relaying' = [relaying EXCEPT ![q] = Nothing]
        BY <3>4 DEF Relay
      <4>2. relaying'[r] = Nothing \/ relaying'[r] = relaying[r]
        BY <4>1 DEF OperatorTyping
      <4> QED
        BY <1>2, <2>2, <4>2
    <3>5. \A state \in ReportedStates, link \in BOOLEAN, service \in BOOLEAN :
            [health_state |-> state, link |-> link, service |-> service] \in Status
      BY ReportsAssumption DEF Status
    <3> QED
      BY <2>3, <3>1, <3>2, <3>3, <3>4, <3>5 DEF Receiver
  <2> QED
    BY <2>2, <2>3
       DEF OperatorNext, operator_vars, controller_side, HeartbeatTick, Dispatch,
           HandleGetAllLampStates, ReadCachedLampStatus, PublishRead, StartHmi, StopHmi,
           Deliver, Lose, pollAndUpdate, onPullTimerExpired
<1>4. Holds(cached_lamp_statuses', read')
  <2>1. CASE read' = read
    BY <2>1, HeldForGood DEF NotAhead, OperatorTyping
  <2>2. CASE PublishRead
    BY <1>2, <2>2 DEF PublishRead
  <2>3. CASE ReadCachedLampStatus
    <3>1. PICK f : /\ read' = IF cached_lamp_statuses[f] = 0 THEN Event("kUnknown", 0)
                              ELSE Event(f, cached_lamp_statuses[f])
                   /\ cached_lamp_statuses' = cached_lamp_statuses
      BY <2>3 DEF ReadCachedLampStatus, controller_side
    <3>2. f \in Lamps => cached_lamp_statuses'[f] <= cached_lamp_statuses'[f]
      BY DEF OperatorTyping, Versions
    <3>3. "kUnknown" \notin Lamps
      BY TopicNames DEF Topics
    <3> QED
      BY <3>1, <3>2, <3>3 DEF Holds, Event
  <2> QED
    BY <2>1, <2>2, <2>3
       DEF OperatorNext, operator_vars, dispatch_side, Receiver, OnLampStatusReceived,
           OnNodeHealthStatusReceived, OnServiceAvailabilityChanged, Relay, HeartbeatTick,
           Dispatch, HandleGetAllLampStates, StartHmi, StopHmi, Deliver, Lose,
           pollAndUpdate, onPullTimerExpired
<1> QED
  BY <1>1, <1>3, <1>4

\* What is published was in hand; what is delivered, shown or started afresh is no more.
LEMMA StepNotAhead ==
  ASSUME OperatorTyping, OperatorTyping', NotAhead, [OperatorNext]_operator_vars
  PROVE  NotAhead'
<1> DEFINE Below(n, f) == n <= cached_lamp_statuses'[f]
<1>1. /\ \A e \in Events \cup {Nothing} :
           Holds(cached_lamp_statuses, e) => Holds(cached_lamp_statuses', e)
      /\ \A r \in environment.receivers : relaying[r] \in Events \cup {Nothing}
      /\ read \in Events \cup {Nothing}
      /\ \A i \in 1 .. Len(to_hmi) :
           to_hmi[i] \in Events /\ Holds(cached_lamp_statuses', to_hmi[i])
  <2>1. \A i \in 1 .. Len(to_hmi) : to_hmi[i] \in Events
    BY ElementOfSeq DEF OperatorTyping
  <2> QED
    BY <2>1, HeldForGood DEF OperatorTyping, NotAhead
<1>2. ASSUME NEW f \in Lamps
      PROVE  /\ cached_lamp_statuses'[f] \in Nat
             /\ Below(0, f) /\ Below(Shown(f), f) /\ Below(display[f], f)
  <2>1. /\ Shown(f) \in Nat /\ display[f] \in Nat /\ cached_lamp_statuses[f] \in Nat
        /\ cached_lamp_statuses'[f] \in Nat
    BY VersionTypes DEF OperatorTyping, Versions
  <2>2. cached_lamp_statuses[f] <= cached_lamp_statuses'[f]
    BY HeldForGood
  <2> QED
    BY <2>1, <2>2 DEF NotAhead
<1>3. ASSUME NEW e \in Events, Publish(e), Holds(cached_lamp_statuses, e),
             NEW i \in 1 .. Len(to_hmi')
      PROVE  Holds(cached_lamp_statuses', to_hmi'[i])
  <2>1. Len(to_hmi) \in Nat
    BY LenProperties DEF OperatorTyping
  <2>2. \/ to_hmi' = to_hmi
        \/ /\ Len(to_hmi') = Len(to_hmi) + 1 /\ to_hmi'[Len(to_hmi) + 1] = e
           /\ \A j \in 1 .. Len(to_hmi) : to_hmi'[j] = to_hmi[j]
    BY <1>3, Published DEF OperatorTyping
  <2>3. i \in 1 .. Len(to_hmi) \/ i = Len(to_hmi) + 1
    BY <1>3, <2>1, <2>2
  <2>4. CASE to_hmi' = to_hmi
    BY <1>1, <1>3, <2>4
  <2>5. CASE to_hmi' # to_hmi
    BY <1>1, <1>3, <2>2, <2>3, <2>5
  <2> QED
    BY <2>4, <2>5
<1>4. ASSUME to_hmi # << >>, to_hmi' = Tail(to_hmi), NEW i \in 1 .. Len(to_hmi')
      PROVE  Holds(cached_lamp_statuses', to_hmi'[i])
  <2>1. to_hmi'[i] = to_hmi[i + 1] /\ i + 1 \in 1 .. Len(to_hmi)
    BY <1>4, QueueShrinks
  <2> QED
    BY <1>1, <2>1
<1>5. \A i \in 1 .. Len(to_hmi') : Holds(cached_lamp_statuses', to_hmi'[i])
  <2>1. CASE to_hmi' = to_hmi
    BY <1>1, <2>1
  <2>2. CASE to_hmi' = << >>
    BY <2>2
  <2>3. ASSUME NEW r \in environment.receivers, Relay(r)
        PROVE  \A i \in 1 .. Len(to_hmi') : Holds(cached_lamp_statuses', to_hmi'[i])
    BY <1>1, <1>3, <2>3 DEF Relay, NotAhead
  <2>4. CASE PublishRead
    BY <1>1, <1>3, <2>4 DEF PublishRead, NotAhead
  <2>5. CASE to_hmi # << >> /\ to_hmi' = Tail(to_hmi)
    BY <1>4, <2>5
  <2> QED
    BY <2>1, <2>2, <2>3, <2>4, <2>5
       DEF OperatorNext, operator_vars, Receiver, OnLampStatusReceived,
           OnNodeHealthStatusReceived, OnServiceAvailabilityChanged, HeartbeatTick, Dispatch,
           HandleGetAllLampStates, ReadCachedLampStatus, StartHmi, StopHmi, Deliver, Lose,
           pollAndUpdate, onPullTimerExpired
<1>6. ASSUME NEW f \in Lamps
      PROVE  Below(Shown(f)', f) /\ Below(display'[f], f)
  <2>1. f \in Topics
    BY DEF Topics
  <2>2. CASE UNCHANGED <<pending, display>>
    BY <1>2, <2>2 DEF Shown
  <2>3. CASE StopHmi
    <3>1. display'[f] = 0 /\ Shown(f)' = 0
      BY <2>3, BlankTypes DEF StopHmi, Shown
    <3> QED
      BY <1>2, <3>1
  <2>4. CASE pollAndUpdate
    <3>1. display'[f] = Shown(f) /\ Shown(f)' = Shown(f)
      BY <2>1, <2>4, BlankTypes DEF pollAndUpdate, Shown
    <3> QED
      BY <1>2, <3>1
  <2>5. ASSUME NEW t, Deliver(t)
        PROVE  Below(Shown(f)', f) /\ Below(display'[f], f)
    <3>1. /\ to_hmi # << >> /\ to_hmi' = Tail(to_hmi) /\ pending' = Merged(Head(to_hmi))
          /\ display' = display
      BY <2>5 DEF Deliver
    <3>2. PICK e : e = Head(to_hmi)
      OBVIOUS
    <3>3. e \in Events /\ e = to_hmi[1] /\ 1 \in 1 .. Len(to_hmi)
      BY <3>1, <3>2, QueueShrinks
    <3>4. Holds(cached_lamp_statuses', e)
      BY <1>1, <3>3
    <3>5. CASE e.topic = f
      <4>1. Shown(f)' = e.content
        BY <2>1, <3>1, <3>2, <3>5, TopicNames DEF Merged, Shown
      <4> QED
        BY <1>2, <3>1, <3>4, <3>5, <4>1 DEF Holds
    <3>6. CASE e.topic # f
      <4>1. Shown(f)' = Shown(f)
        BY <2>1, <3>1, <3>2, <3>6, TopicNames DEF Merged, Shown
      <4> QED
        BY <1>2, <3>1, <4>1
    <3> QED
      BY <3>5, <3>6
  <2> QED
    BY <2>2, <2>3, <2>4, <2>5
       DEF OperatorNext, operator_vars, hmi_side, Receiver, OnLampStatusReceived,
           OnNodeHealthStatusReceived, OnServiceAvailabilityChanged, Relay, HeartbeatTick,
           Dispatch, HandleGetAllLampStates, ReadCachedLampStatus, PublishRead, StartHmi,
           Lose, onPullTimerExpired
<1>7. /\ environment' = environment /\ Holds(cached_lamp_statuses', read')
      /\ \A r \in environment.receivers : Holds(cached_lamp_statuses', relaying'[r])
  BY InHandNotAhead
<1> QED
  BY <1>5, <1>6, <1>7 DEF NotAhead, Holds

\* Over either transport, with any number of receivers and whatever is lost, overtaken
\* or missed before a start: the dashboard never shows a state of a lamp that the
\* controller has not cached before.
THEOREM NothingInvented ==
  OperatorSpec => [](\A f \in Lamps : display[f] <= cached_lamp_statuses[f])
<1>1. OperatorInit => NotAhead
  <2> SUFFICES ASSUME OperatorInit
               PROVE  NotAhead
    OBVIOUS
  <2>1. Holds(cached_lamp_statuses, Nothing)
    BY TopicNames DEF Holds, Nothing, Topics
  <2>2. \A f \in Lamps : display[f] = 0 /\ Shown(f) = 0 /\ cached_lamp_statuses[f] = 0
    BY BlankTypes DEF OperatorInit, Shown
  <2>3. to_hmi = << >> /\ read = Nothing /\ relaying = [r \in environment.receivers |-> Nothing]
    BY DEF OperatorInit
  <2> QED
    BY <2>1, <2>2, <2>3 DEF NotAhead
<1>2. /\ OperatorInv => OperatorTyping
      /\ NotAhead => \A f \in Lamps : display[f] <= cached_lamp_statuses[f]
  BY DEF OperatorInv, NotAhead
<1>3. OperatorTyping /\ OperatorTyping' /\ NotAhead /\ [OperatorNext]_operator_vars => NotAhead'
  BY StepNotAhead
<1> QED
  BY <1>1, <1>2, <1>3, OperatorInvariance, PTL DEF OperatorSpec
=============================================================================
