---------------------------- MODULE ZonalLighting ----------------------------
(***************************************************************************)
(* The controller and the bare-metal lighting node on their Ethernet link: *)
(* Controller and Stm32Node, with the datagrams under way between them in  *)
(* to_node and to_czc.  Datagrams keep their order; nothing on either side *)
(* retransmits or acknowledges one.                                        *)
(*                                                                         *)
(* What differs between behaviours is the environment, fixed from the      *)
(* start: what the operator asks for and how often, and what goes wrong.   *)
(* The operator makes one request after another, as fast as the controller *)
(* takes them.  The history variables are read by no action, but for the   *)
(* bounds on presses and node_starts.                                      *)
(***************************************************************************)
EXTENDS LightingDomain, Sequences

CONSTANTS
  SequenceModulus,  \* of the controller's uint16_t counter
  Environments      \* the environments examined, see the assumption

(***************************************************************************)
(* requests: records of a lamp function and an action; presses: how many   *)
(* are made; lossy: may the link lose datagrams; answers: what the         *)
(* controller's first transport may answer; czc_restarts: may the          *)
(* controller crash; node_restarts: how often the node may.                *)
(***************************************************************************)
ASSUME EnvironmentsAssumption ==
  \A e \in Environments :
    /\ e.requests \subseteq [function : LampFunctions, action : LampCommandActions]
    /\ {e.presses, e.node_restarts} \subseteq Nat
    /\ {e.lossy, e.czc_restarts} \subseteq BOOLEAN /\ e.answers \subseteq BOOLEAN
ASSUME ModulusAssumption == SequenceModulus \in Nat \ {0, 1}

VARIABLES
  environment,
  \* Controller
  operator, lamp_command, context, decision, next_sequence_counter,
  receiving, cached_lamp_statuses, lamp_status_cache, outgoing,
  \* Stm32Node
  lamp_output, faulted, last_hazard_sequence, active_indicator_before_hazard, sent,
  \* the link
  to_node,       \* commands, each with the request it was sent for
  to_czc,        \* status events
  \* history
  presses,       \* the requests made so far
  patient,       \* each of them was made when the system was at rest
  informed,      \* each for the hazard lamp when nothing of that lamp was under way
  asked,         \* the lamp functions requested so far
  expected,      \* what the requests should have brought about
  hazard_press,  \* the request of the last hazard command the node handled
  told,          \* the functions of which the node has sent an event since it started
  orphans,       \* may there be companions whose hazard command the node does not know
  node_starts    \* how often the node has started again

SequenceCounters == 0 .. SequenceModulus - 1
CZC == INSTANCE Controller
Node == INSTANCE Stm32Node WITH Commands <- {}, Faultable <- {}

controller == <<operator, lamp_command, context, decision, next_sequence_counter,
                receiving, cached_lamp_statuses, lamp_status_cache>>
node == <<lamp_output, faulted, last_hazard_sequence, active_indicator_before_hazard>>
link == <<to_node, to_czc>>
operator_history == <<presses, patient, informed, asked, expected>>
node_history == <<hazard_press, told, orphans, node_starts>>
history == <<operator_history, node_history>>
vars == <<environment, controller, outgoing, node, sent, link, history>>

Init ==
  /\ environment \in Environments
  /\ CZC!Init /\ Node!Init
  /\ to_node = << >> /\ to_czc = << >>
  /\ presses = 0 /\ patient = TRUE /\ informed = TRUE /\ asked = {} /\ hazard_press = 0
  /\ expected = [hazard |-> FALSE, lit |-> {}, saved |-> {}]
  /\ told = {} /\ orphans = FALSE /\ node_starts = 0

AtRest ==
  /\ operator = "idle" /\ receiving = CZC!None
  /\ to_node = << >> /\ to_czc = << >>

HazardAtRest ==
  /\ \A i \in DOMAIN to_node : to_node[i].command.function # "kHazardLamp"
  /\ "kHazardLamp" \notin {to_czc[i].function : i \in DOMAIN to_czc} \cup {receiving.function}

-----------------------------------------------------------------------------
(* What a request means to an operator who knows the node's rules: a       *)
(* hazard request toggles, and brings back the indicator it interrupted;   *)
(* an indicator request counts only while the hazard lamp is off.          *)
Answer(e, request) ==
  LET f == request.function
      action == Resolve(IF f \in e.lit THEN "kOn" ELSE "kOff", request.action) IN
  CASE f = "kHazardLamp" /\ ~e.hazard -> [e EXCEPT !.hazard = TRUE, !.saved = e.lit]
    [] f = "kHazardLamp" /\ e.hazard  -> [hazard |-> FALSE, lit |-> e.saved, saved |-> {}]
    [] f \in Indicators /\ ~e.hazard  ->
         [e EXCEPT !.lit = IF action = "kActivate" THEN {f} ELSE @ \ {f}]
    [] OTHER -> e

Press(request) ==
  /\ presses < environment.presses
  /\ CZC!SendLampCommand(request.function, request.action)
  /\ presses' = presses + 1
  /\ patient' = (patient /\ AtRest)
  /\ informed' = (informed /\ (request.function = "kHazardLamp" => HazardAtRest))
  /\ asked' = asked \cup {request.function}
  /\ expected' = Answer(expected, request)
  /\ UNCHANGED <<node_history, link>>

OperatorThread ==
  /\ \/ CZC!OperatorStep
     \/ \E accepted \in environment.answers : CZC!SendNext(accepted)
  /\ to_node' = to_node \o [i \in DOMAIN outgoing' |->
                              [command |-> outgoing'[i], press |-> presses]]
  /\ UNCHANGED <<to_czc, history>>

\* The receiver thread takes an event from its socket, and finishes with it.
Receive ==
  /\ to_czc # << >>
  /\ CZC!OnLampStatusReceived(Head(to_czc))
  /\ to_czc' = Tail(to_czc)
  /\ UNCHANGED <<to_node, history>>

FinishReceiving ==
  /\ CZC!UpdateLampStatus
  /\ UNCHANGED <<link, history>>

\* The controller crashes: it forgets everything, and may lose what was waiting
\* in its socket.
Restart ==
  /\ environment.czc_restarts
  /\ CZC!Restart
  /\ to_czc' \in {to_czc, << >>}
  /\ UNCHANGED <<to_node, history>>

ControllerStep ==
  /\ \/ \E request \in environment.requests : Press(request)
     \/ OperatorThread \/ Receive \/ FinishReceiving \/ Restart
  /\ sent' = << >>
  /\ UNCHANGED node

-----------------------------------------------------------------------------
NodeStep ==
  /\ to_node # << >>
  /\ Node!OnTransportMessageReceived(Head(to_node).command)
  /\ to_node' = Tail(to_node)
  /\ to_czc' = to_czc \o sent'
  /\ hazard_press' = IF Head(to_node).command.function = "kHazardLamp"
                     THEN Head(to_node).press ELSE hazard_press
  /\ told' = told \cup {sent'[i].function : i \in DOMAIN sent'}
  /\ outgoing' = << >>
  /\ UNCHANGED <<controller, operator_history, orphans, node_starts>>

\* The node starts again; what was in its network interface may be lost.
RestartNode ==
  /\ node_starts < environment.node_restarts
  /\ Node!Restart
  /\ to_node' \in {to_node, << >>}
  /\ node_starts' = node_starts + 1
  /\ told' = {}
  /\ orphans' = (orphans \/ to_node' # << >> \/ operator = "send")
  /\ outgoing' = << >>
  /\ UNCHANGED <<controller, to_czc, operator_history, hazard_press>>

LoseCommand ==
  /\ to_node # << >>
  /\ to_node' = Tail(to_node)
  /\ orphans' = (orphans \/ Head(to_node).command.function = "kHazardLamp")
  /\ UNCHANGED to_czc

LoseEvent ==
  /\ to_czc # << >>
  /\ to_czc' = Tail(to_czc)
  /\ UNCHANGED <<to_node, orphans>>

Lose ==
  /\ environment.lossy
  /\ LoseCommand \/ LoseEvent
  /\ outgoing' = << >> /\ sent' = << >>
  /\ UNCHANGED <<controller, node, operator_history, hazard_press, told, node_starts>>

Next ==
  /\ ControllerStep \/ NodeStep \/ RestartNode \/ Lose
  /\ UNCHANGED environment

Spec == Init /\ [][Next]_vars

\* Every thread runs, and the link delivers; the operator need not press.
Fairness ==
  /\ WF_vars(ControllerStep /\ OperatorThread /\ UNCHANGED environment)
  /\ WF_vars(ControllerStep /\ (Receive \/ FinishReceiving) /\ UNCHANGED environment)
  /\ WF_vars(NodeStep /\ UNCHANGED environment)

FairSpec == Spec /\ Fairness
-----------------------------------------------------------------------------
TypeOK ==
  /\ operator \in CZC!OperatorPoints
  /\ next_sequence_counter \in SequenceCounters
  /\ \A f \in LampFunctions :
       {cached_lamp_statuses[f], lamp_status_cache[f]} \subseteq OutputStates \cup {"kUnknown"}
  /\ Node!TypeOK
  /\ environment \in Environments
  /\ presses \in 0 .. environment.presses /\ node_starts \in 0 .. environment.node_restarts
  /\ {patient, informed, orphans} \subseteq BOOLEAN
  /\ \A i \in DOMAIN to_node : /\ to_node[i].command \in LampCommand(SequenceCounters)
                               /\ to_node[i].press \in 1 .. environment.presses

\* The network delivers and the controller stays up; the node may start again.
Delivers == ~environment.lossy /\ ~environment.czc_restarts

\* And so does the node, and no send is refused.
BothStayUp == Delivers /\ environment.node_restarts = 0
NothingFails == BothStayUp /\ environment.answers = {TRUE}

\* Hazard is asked for by its button only, which toggles.
TogglesHazard ==
  \A r \in environment.requests : r.function = "kHazardLamp" => r.action = "kToggle"

\* As the counter counts: until it has wrapped, it tells the requests apart.
Counting == presses < SequenceModulus

\* The hazard lamp goes on only on a command to activate it and stays on until one to
\* deactivate it (SG-01), although the node toggles it whatever the command says: the
\* operator may press the indicators as fast as he likes, but hazard only when the
\* answer to the last hazard command has come.
HazardDoesAsTold ==
  [][ /\ BothStayUp /\ TogglesHazard /\ informed
      /\ Node!IsOn("kHazardLamp") # Node!IsOn("kHazardLamp")'
      => Head(to_node).command.action =
           IF Node!IsOn("kHazardLamp") THEN "kDeactivate" ELSE "kActivate" ]_vars

\* Whatever is lost or started again, the hazard lamp changes at most once for a
\* request, and never for one older than the last it changed for; but it goes off
\* when the node starts again.
OneChangePerRequest ==
  [][ (Node!IsOn("kHazardLamp") # Node!IsOn("kHazardLamp")') =>
        hazard_press' > hazard_press \/ node_starts' > node_starts ]_vars

\* An indicator is on only if the operator has asked for that indicator, although
\* every hazard request sends the node a command for each of them.  The exception is
\* a fan-out whose hazard datagram was lost, or forgotten by a node that started
\* again: its companions are obeyed.
OnlyAskedIndicators == orphans \/ Node!Lit \subseteq asked

\* What the node drops as a companion of its last hazard command was sent for the
\* same request as that command, until the counter wraps.
CompanionsAreCompanions ==
  Counting /\ ~environment.czc_restarts /\ to_node # << >> =>
    LET c == Head(to_node).command IN
    c.function \in Indicators /\ Node!IsCompanion(c) => Head(to_node).press = hazard_press

\* The cache holds what the node drives, of every lamp the node has told of since it
\* started; the others are off, whatever the cache says of them.
Knows(cache) ==
  \A f \in LampFunctions :
    IF f \in told THEN cache[f] = lamp_output[f] ELSE ~Node!IsOn(f)

\* When nothing is under way both caches of the controller are right about the lamps
\* of which the node has told, even if it started again meanwhile.
CachesTrueAtRest ==
  Delivers /\ AtRest => Knows(lamp_status_cache) /\ Knows(cached_lamp_statuses)

\* An operator who always waited for rest gets what each request means: at rest the
\* hazard lamp and the indicators are as all the requests so far say.
PatienceIsRewarded ==
  NothingFails /\ TogglesHazard /\ Counting /\ patient /\ AtRest =>
    (Node!IsOn("kHazardLamp") <=> expected.hazard) /\ Node!Lit = expected.lit

\* Whatever the operator did last, the cache that arbitration reads ends up true.
ArbitrationCatchesUp == Delivers => <>[]Knows(lamp_status_cache)
=============================================================================
