----------------------------- MODULE ZephyrNode -----------------------------
(***************************************************************************)
(* The exterior lighting node of the Zephyr build (main.cpp of             *)
(* zephyr_nucleo_h753zi): the threads that share the function manager.     *)
(*                                                                         *)
(*   udp_rx   puts every valid lamp command in a queue, or drops it        *)
(*   cmd      takes them in order and applies them under g_lamp_mgr_mutex  *)
(*   health   broadcasts every lamp and, less often, the fault state, also *)
(*            under the mutex                                              *)
(*   doip     injects and clears faults WITHOUT the mutex                  *)
(*                                                                         *)
(* The blink thread only reads the outputs (BlinkManager models it).       *)
(*                                                                         *)
(* Grain of atomicity.  The threads have preemptive priorities, and doip   *)
(* has the lowest: it runs while cmd waits for a command, for the mutex or *)
(* inside a network send.  So a step of cmd is the code from one send to   *)
(* the next, ended by that send, and a step of doip is one statement that  *)
(* the others can see, because they preempt it anywhere.                   *)
(***************************************************************************)
EXTENDS LightingDomain, Integers, FiniteSets, Sequences

CONSTANTS
  SequenceCounters,  \* sequence counters that senders use
  Commands,          \* the commands that reach the socket
  Faultable,         \* the lamp functions a diagnostic tester faults
  QueueDepth,        \* slots of g_lamp_cmd_queue (8 in the code)
  HealthEvery        \* broadcasts per health report (5 in the code)

ASSUME CommandsAssumption ==
  /\ SequenceCounters \subseteq Nat
  /\ Commands \subseteq LampCommand(SequenceCounters)
ASSUME FaultableAssumption == Faultable \subseteq LampFunctions
ASSUME QueueDepthAssumption == QueueDepth \in Nat \ {0}
ASSUME HealthEveryAssumption == HealthEvery \in Nat \ {0}

VARIABLES
  lamp_output,          \* output_state of each of lamp_statuses_
  faulted,              \* the functions whose flag in faulted_ is set
  active_fault_count,   \* active_fault_count_
  active_indicator,     \* g_indicator_registry.active_indicator
  hazard_active,        \* g_indicator_registry.hazard_active
  last_hazard_sequence, \* g_last_hazard_sequence
  queue,                \* g_lamp_cmd_queue
  cmd_pc,               \* where the cmd thread is, see CmdPoints
  cmd,                  \* the command it handles
  doip,                 \* what the doip thread is in the middle of
  broadcast,            \* lamps the health thread has sent in this broadcast
  tick_count,           \* tick_count modulo HealthEvery
  health_due,           \* the broadcast just ended is followed by a report
  published,            \* the output last sent for each lamp
  reported_fault_count  \* active_fault_count of the last health report sent

lamps == <<lamp_output, faulted, active_fault_count>>
registry == <<active_indicator, hazard_active, last_hazard_sequence>>
cmd_thread == <<queue, cmd_pc, cmd>>
health_thread == <<broadcast, tick_count, health_due, reported_fault_count>>
vars == <<lamps, registry, cmd_thread, doip, health_thread, published>>

\* kAllFunctions, in the order of the broadcast.
kAllFunctions ==
  <<"kLeftIndicator", "kRightIndicator", "kHazardLamp", "kParkLamp", "kHeadLamp">>

NoCommand == [function |-> "kUnknown", action |-> "kNoAction", sequence_counter |-> 0]
NoReport == -1
Idle == [step |-> "idle", function |-> "kUnknown"]

\* In the first two points cmd waits for the queue and for the mutex.  In the
\* others it holds the mutex and is inside a send; the name says what follows.
CmdPoints == {"get", "lock", "send_left", "send_right", "restore", "forget",
              "apply", "unlock"}
CmdHoldsMutex == cmd_pc \notin {"get", "lock"}
MutexIsFree == ~CmdHoldsMutex /\ broadcast = 0

IsOn(f) == lamp_output[f] = "kOn"
Lit == {f \in Indicators : IsOn(f)}

Init ==
  /\ lamp_output = [f \in LampFunctions |-> "kOff"]
  /\ faulted = {}
  /\ active_fault_count = 0
  /\ active_indicator = "kUnknown"
  /\ hazard_active = FALSE
  /\ last_hazard_sequence = 0
  /\ queue = << >>
  /\ cmd_pc = "get"
  /\ cmd = NoCommand
  /\ doip = Idle
  /\ broadcast = 0
  /\ tick_count = 0
  /\ health_due = FALSE
  /\ published = [f \in LampFunctions |-> "kUnknown"]
  /\ reported_fault_count = NoReport

-----------------------------------------------------------------------------
(* udp_rx *)

\* A valid datagram arrives; k_msgq_put with K_NO_WAIT drops it when full.
ReceiveCommand(c) ==
  /\ IF Len(queue) < QueueDepth THEN queue' = Append(queue, c)
                                ELSE UNCHANGED queue
  /\ UNCHANGED <<lamps, registry, cmd_pc, cmd, doip, health_thread, published>>

-----------------------------------------------------------------------------
(* cmd *)

\* The outputs once ApplyCommand has run with this action on every lamp of fs.
Applied(fs, action) ==
  [f \in LampFunctions |->
     IF f \in fs THEN OutputAfter(f \in faulted, lamp_output[f], action)
                 ELSE lamp_output[f]]

\* SendLampStatusEvent(f): the status sent is the one the lamp has now.
Send(f) == published' = [published EXCEPT ![f] = lamp_output'[f]]

\* The mutex is released and the loop is back at k_msgq_get.
Finish == cmd_pc' = "get" /\ cmd' = NoCommand

GetCommand ==
  /\ cmd_pc = "get" /\ queue # << >>
  /\ cmd_pc' = "lock"
  /\ cmd' = Head(queue)
  /\ queue' = Tail(queue)
  /\ UNCHANGED <<lamps, registry, doip, health_thread, published>>

\* The mutex is taken and ApplyLampCommand dispatches on the function.
Dispatches(functions) ==
  /\ cmd_pc = "lock" /\ MutexIsFree
  /\ cmd.function \in functions
  /\ UNCHANGED <<faulted, active_fault_count, queue, doip, health_thread>>

(***************************************************************************)
(* HandleHazard toggles whatever action the command carries.  Going off it *)
(* also switches both indicators off, and later restores the remembered    *)
(* one; going on it remembers the indicator that is on, even if a fault    *)
(* keeps the hazard lamp itself off.                                       *)
(***************************************************************************)
HazardOff ==
  /\ Dispatches({"kHazardLamp"}) /\ IsOn("kHazardLamp")
  /\ last_hazard_sequence' = cmd.sequence_counter
  /\ hazard_active' = FALSE
  /\ lamp_output' = Applied({"kHazardLamp"} \cup Indicators, "kDeactivate")
  /\ Send("kHazardLamp")
  /\ cmd_pc' = "send_left"
  /\ UNCHANGED <<active_indicator, cmd>>

\* Mutation of HazardOn: the indicator that is on is not captured, so that
\* hazard-off restores the one last asked for.
HazardOnWithoutCapture ==
  /\ Dispatches({"kHazardLamp"}) /\ ~IsOn("kHazardLamp")
  /\ last_hazard_sequence' = cmd.sequence_counter
  /\ lamp_output' = Applied({"kHazardLamp"}, "kActivate")
  /\ hazard_active' = TRUE
  /\ Send("kHazardLamp")
  /\ cmd_pc' = "unlock"
  /\ UNCHANGED <<active_indicator, cmd>>

HazardOn ==
  /\ Dispatches({"kHazardLamp"}) /\ ~IsOn("kHazardLamp")
  /\ last_hazard_sequence' = cmd.sequence_counter
  /\ lamp_output' = Applied({"kHazardLamp"}, "kActivate")
  /\ active_indicator' = CASE IsOn("kLeftIndicator")  -> "kLeftIndicator"
                           [] ~IsOn("kLeftIndicator") /\ IsOn("kRightIndicator")
                                -> "kRightIndicator"
                           [] Lit = {} -> "kUnknown"
  /\ hazard_active' = TRUE
  /\ Send("kHazardLamp")
  /\ cmd_pc' = "unlock"
  /\ UNCHANGED cmd

\* After hazard-off, the indicators are sent one by one.
SendIndicator(point, f, next) ==
  /\ cmd_pc = point
  /\ cmd_pc' = next
  /\ UNCHANGED <<lamps, registry, queue, cmd, doip, health_thread>>
  /\ Send(f)

\* Mutation of RestoreIndicator: the restored indicator is not sent.
RestoreIndicatorSilently ==
  /\ cmd_pc = "restore" /\ active_indicator # "kUnknown"
  /\ lamp_output' = Applied({active_indicator}, "kActivate")
  /\ cmd_pc' = "forget"
  /\ UNCHANGED <<faulted, active_fault_count, registry, queue, cmd, doip,
                 health_thread, published>>

\* Mutation of RestoreIndicator: the output is written past the fault guard.
RestoreIndicatorUnguarded ==
  /\ cmd_pc = "restore" /\ active_indicator # "kUnknown"
  /\ lamp_output' = [lamp_output EXCEPT ![active_indicator] = "kOn"]
  /\ Send(active_indicator)
  /\ cmd_pc' = "forget"
  /\ UNCHANGED <<faulted, active_fault_count, registry, queue, cmd, doip,
                 health_thread>>

RestoreIndicator ==
  /\ cmd_pc = "restore" /\ active_indicator # "kUnknown"
  /\ lamp_output' = Applied({active_indicator}, "kActivate")
  /\ Send(active_indicator)
  /\ cmd_pc' = "forget"
  /\ UNCHANGED <<faulted, active_fault_count, registry, queue, cmd, doip,
                 health_thread>>

NothingToRestore ==
  /\ cmd_pc = "restore" /\ active_indicator = "kUnknown"
  /\ Finish
  /\ UNCHANGED <<lamps, registry, queue, doip, health_thread, published>>

ForgetIndicator ==
  /\ cmd_pc = "forget"
  /\ active_indicator' = "kUnknown"
  /\ Finish
  /\ UNCHANGED <<lamps, hazard_active, last_hazard_sequence, queue, doip,
                 health_thread, published>>

(***************************************************************************)
(* HandleIndicator.  A command of the last hazard's fan-out (its companion,*)
(* known by the sequence counter) is dropped, and so is any while the      *)
(* hazard lamp is on.                                                      *)
(***************************************************************************)
\* Mutation of IndicatorDropped: indicators are let through while hazard is on.
IndicatorDroppedIfCompanion == cmd.sequence_counter = last_hazard_sequence

IndicatorDropped ==
  cmd.sequence_counter = last_hazard_sequence \/ IsOn("kHazardLamp")

DropIndicator ==
  /\ Dispatches(Indicators) /\ IndicatorDropped
  /\ Finish
  /\ UNCHANGED <<lamp_output, registry, published>>

\* What a toggle means is decided here, once.
Resolved == Resolve(lamp_output[cmd.function], cmd.action)

\* What an accepted command does to the registry: activation records the
\* operator's intent, deactivation withdraws it.
RecordIntent ==
  /\ active_indicator' =
       CASE Resolved = "kActivate" -> cmd.function
         [] Resolved = "kDeactivate" /\ active_indicator = cmd.function -> "kUnknown"
         [] OTHER -> active_indicator
  /\ UNCHANGED <<hazard_active, last_hazard_sequence>>

\* Mutation of MustSwitchOver: the opposite indicator is left alone.
MustSwitchOverNever == FALSE

MustSwitchOver == Resolved = "kActivate" /\ IsOn(Opposite(cmd.function))

\* The opposite indicator is switched off and sent before this one comes on.
SwitchOver ==
  /\ Dispatches(Indicators) /\ ~IndicatorDropped /\ MustSwitchOver
  /\ RecordIntent
  /\ lamp_output' = Applied({Opposite(cmd.function)}, "kDeactivate")
  /\ Send(Opposite(cmd.function))
  /\ cmd_pc' = "apply"
  /\ cmd' = [cmd EXCEPT !.action = Resolved]

ApplyAfterSwitchOver ==
  /\ cmd_pc = "apply"
  /\ lamp_output' = Applied({cmd.function}, cmd.action)
  /\ Send(cmd.function)
  /\ cmd_pc' = "unlock"
  /\ UNCHANGED <<faulted, active_fault_count, registry, queue, cmd, doip,
                 health_thread>>

\* kNoAction comes this way too, and its status is sent.
ApplyIndicator ==
  /\ Dispatches(Indicators) /\ ~IndicatorDropped /\ ~MustSwitchOver
  /\ RecordIntent
  /\ lamp_output' = Applied({cmd.function}, Resolved)
  /\ Send(cmd.function)
  /\ cmd_pc' = "unlock"
  /\ UNCHANGED cmd

(***************************************************************************)
(* Park and head lamps need no arbitration; a refused command, and one for *)
(* the unknown function, is dropped without a status.                      *)
(***************************************************************************)
OtherSucceeds ==
  /\ cmd.function # "kUnknown"
  /\ ApplySucceeds(cmd.function \in faulted, lamp_output[cmd.function], cmd.action)

\* Mutation of ApplyOther: only a lamp that went off is sent.
ApplyOtherSilently ==
  /\ Dispatches({"kParkLamp", "kHeadLamp", "kUnknown"}) /\ OtherSucceeds
  /\ lamp_output' = Applied({cmd.function}, cmd.action)
  /\ IF lamp_output'[cmd.function] = "kOff" THEN Send(cmd.function)
                                           ELSE UNCHANGED published
  /\ cmd_pc' = "unlock"
  /\ UNCHANGED <<registry, cmd>>

ApplyOther ==
  /\ Dispatches({"kParkLamp", "kHeadLamp", "kUnknown"}) /\ OtherSucceeds
  /\ lamp_output' = Applied({cmd.function}, cmd.action)
  /\ Send(cmd.function)
  /\ cmd_pc' = "unlock"
  /\ UNCHANGED <<registry, cmd>>

RejectOther ==
  /\ Dispatches({"kParkLamp", "kHeadLamp", "kUnknown"}) /\ ~OtherSucceeds
  /\ Finish
  /\ UNCHANGED <<lamp_output, registry, published>>

Unlock ==
  /\ cmd_pc = "unlock"
  /\ Finish
  /\ UNCHANGED <<lamps, registry, queue, doip, health_thread, published>>

CmdLock == \/ HazardOff \/ HazardOn
           \/ DropIndicator \/ SwitchOver \/ ApplyIndicator
           \/ ApplyOther \/ RejectOther

CmdContinue == \/ SendIndicator("send_left", "kLeftIndicator", "send_right")
               \/ SendIndicator("send_right", "kRightIndicator", "restore")
               \/ RestoreIndicator \/ NothingToRestore \/ ForgetIndicator
               \/ ApplyAfterSwitchOver
               \/ Unlock

-----------------------------------------------------------------------------
(* doip: HandleFaultInjection, HandleFaultClear and HandleClearAllFaults,  *)
(* called by the UDS services 0x31 and 0x14.  The tester gets its answer   *)
(* before the next request, so at most one is in progress.                 *)

DoipUnchanged == UNCHANGED <<registry, cmd_thread, health_thread, published>>

\* Mutation of InjectFault: a fault that is there already is recorded again.
InjectFaultTwice(f) ==
  /\ doip = Idle
  /\ faulted' = faulted \cup {f}
  /\ doip' = [step |-> "append", function |-> f]
  /\ DoipUnchanged
  /\ UNCHANGED <<lamp_output, active_fault_count>>

\* The flag is set first: from here on cmd refuses to activate the lamp.
InjectFault(f) ==
  /\ doip = Idle
  /\ faulted' = faulted \cup {f}
  /\ doip' = [step |-> IF f \in faulted THEN "force_off" ELSE "append", function |-> f]
  /\ DoipUnchanged
  /\ UNCHANGED <<lamp_output, active_fault_count>>

AppendDtc ==
  /\ doip.step = "append"
  /\ active_fault_count' = active_fault_count + 1
  /\ doip' = [doip EXCEPT !.step = "force_off"]
  /\ DoipUnchanged
  /\ UNCHANGED <<lamp_output, faulted>>

\* Nothing is sent: the lamp going off is announced by the next broadcast.
ForceOff ==
  /\ doip.step = "force_off"
  /\ lamp_output' = [lamp_output EXCEPT ![doip.function] = "kOff"]
  /\ doip' = Idle
  /\ DoipUnchanged
  /\ UNCHANGED <<faulted, active_fault_count>>

ClearFault(f) ==
  /\ doip = Idle /\ f \in faulted
  /\ faulted' = faulted \ {f}
  /\ doip' = [step |-> "compact", function |-> f]
  /\ DoipUnchanged
  /\ UNCHANGED <<lamp_output, active_fault_count>>

CompactDtcs ==
  /\ doip.step = "compact"
  /\ active_fault_count' = active_fault_count - 1
  /\ doip' = Idle
  /\ DoipUnchanged
  /\ UNCHANGED <<lamp_output, faulted>>

ClearAllFaults ==
  /\ doip = Idle
  /\ faulted' = {}
  /\ doip' = [step |-> "empty", function |-> "kUnknown"]
  /\ DoipUnchanged
  /\ UNCHANGED <<lamp_output, active_fault_count>>

EmptyDtcs ==
  /\ doip.step = "empty"
  /\ active_fault_count' = 0
  /\ doip' = Idle
  /\ DoipUnchanged
  /\ UNCHANGED <<lamp_output, faulted>>

DoipRequest == \/ \E f \in Faultable : InjectFault(f) \/ ClearFault(f)
               \/ ClearAllFaults

DoipContinue == AppendDtc \/ ForceOff \/ CompactDtcs \/ EmptyDtcs

-----------------------------------------------------------------------------
(* health *)

HealthUnchanged == UNCHANGED <<lamps, registry, cmd_thread, doip>>

\* The thread wakes, takes the mutex and sends the first lamp.
StartBroadcast ==
  /\ MutexIsFree /\ ~health_due
  /\ broadcast' = 1
  /\ HealthUnchanged
  /\ Send(kAllFunctions[1])
  /\ UNCHANGED <<tick_count, health_due, reported_fault_count>>

\* Mutation of BroadcastNext: the loop stops before the hazard lamp.
BroadcastNextTooShort ==
  /\ broadcast > 0
  /\ broadcast' = IF broadcast < 2 THEN broadcast + 1 ELSE Len(kAllFunctions)
  /\ HealthUnchanged
  /\ Send(kAllFunctions[IF broadcast < 2 THEN broadcast + 1 ELSE 1])
  /\ UNCHANGED <<tick_count, health_due, reported_fault_count>>

BroadcastNext ==
  /\ broadcast \in 1 .. (Len(kAllFunctions) - 1)
  /\ broadcast' = broadcast + 1
  /\ HealthUnchanged
  /\ Send(kAllFunctions[broadcast + 1])
  /\ UNCHANGED <<tick_count, health_due, reported_fault_count>>

\* Mutation of EndBroadcast: the mutex is kept when a report follows.
EndBroadcastKeepsMutex ==
  /\ broadcast = Len(kAllFunctions) /\ ~health_due
  /\ tick_count' = (tick_count + 1) % HealthEvery
  /\ health_due' = (tick_count' = 0)
  /\ broadcast' = IF health_due' THEN broadcast ELSE 0
  /\ HealthUnchanged
  /\ UNCHANGED <<published, reported_fault_count>>

\* Mutation of EndBroadcast: the tick that is due is never reached.
EndBroadcastNeverDue ==
  /\ broadcast = Len(kAllFunctions)
  /\ broadcast' = 0
  /\ tick_count' = (tick_count + 1) % HealthEvery
  /\ health_due' = (tick_count' = HealthEvery)
  /\ HealthUnchanged
  /\ UNCHANGED <<published, reported_fault_count>>

EndBroadcast ==
  /\ broadcast = Len(kAllFunctions)
  /\ broadcast' = 0
  /\ tick_count' = (tick_count + 1) % HealthEvery
  /\ health_due' = (tick_count' = 0)
  /\ HealthUnchanged
  /\ UNCHANGED <<published, reported_fault_count>>

\* GetFaultStatus under the mutex; the report is sent after it.
PublishHealth ==
  /\ MutexIsFree /\ health_due
  /\ reported_fault_count' = active_fault_count
  /\ health_due' = FALSE
  /\ HealthUnchanged
  /\ UNCHANGED <<broadcast, tick_count, published>>

HealthLock == StartBroadcast \/ PublishHealth
HealthContinue == BroadcastNext \/ EndBroadcast

-----------------------------------------------------------------------------
Next == \/ \E c \in Commands : ReceiveCommand(c)
        \/ GetCommand \/ CmdLock \/ CmdContinue
        \/ DoipRequest \/ DoipContinue
        \/ HealthLock \/ HealthContinue

Spec == Init /\ [][Next]_vars

(***************************************************************************)
(* Every thread that can run gets to run: the sends return, the health     *)
(* thread wakes again, and the kernel hands a released mutex to its        *)
(* waiter, which is strong fairness for the two that wait for it.  Nothing *)
(* is assumed of the senders of commands nor of the tester.                *)
(***************************************************************************)
Fairness ==
  /\ WF_vars(GetCommand) /\ SF_vars(CmdLock) /\ WF_vars(CmdContinue)
  /\ WF_vars(DoipContinue)
  /\ SF_vars(HealthLock) /\ WF_vars(HealthContinue)

FairSpec == Spec /\ Fairness

-----------------------------------------------------------------------------
TypeOK ==
  /\ lamp_output \in [LampFunctions -> OutputStates]
  /\ faulted \subseteq LampFunctions
  /\ active_fault_count \in 0 .. Cardinality(LampFunctions)
  /\ active_indicator \in Indicators \cup {"kUnknown"}
  /\ hazard_active \in BOOLEAN
  /\ last_hazard_sequence \in SequenceCounters \cup {0}
  /\ queue \in Seq(Commands) /\ Len(queue) <= QueueDepth
  /\ cmd_pc \in CmdPoints
  /\ cmd \in Commands \cup {NoCommand} \cup [function : Indicators,
        action : {"kActivate"}, sequence_counter : SequenceCounters]
  /\ doip \in [step : {"idle", "append", "force_off", "compact", "empty"},
               function : LampFunctions \cup {"kUnknown"}]
  /\ broadcast \in 0 .. Len(kAllFunctions)
  /\ tick_count \in 0 .. (HealthEvery - 1)
  /\ health_due \in BOOLEAN
  /\ published \in [LampFunctions -> OutputStates \cup {"kUnknown"}]
  /\ reported_fault_count \in {NoReport} \cup 0 .. Cardinality(LampFunctions)

\* Left and right are never on together, not even between the two halves of a
\* switch-over, of a hazard-off or of a restore, and whatever doip does there.
IndicatorExclusivity == ~(IsOn("kLeftIndicator") /\ IsOn("kRightIndicator"))

\* Once a fault injection has returned, the faulted lamp is off and nothing
\* switches it on: no command, no toggle, no restore after hazard.  Only while
\* the injection itself runs can the flag be ahead of the output.
FaultedLampOff ==
  \A f \in faulted : IsOn(f) => doip.function = f /\ doip.step \in {"append", "force_off"}

\* While the hazard lamp is on, no indicator output comes on (the blink thread
\* shows the hazard phase on both instead).
HazardBlocksIndicators ==
  [][IsOn("kHazardLamp")' => Lit' \subseteq Lit]_vars

\* While the hazard lamp is on, an indicator that is still on is the one the
\* registry remembers, so hazard-off leaves the turn signal as it was.
RegistryRemembersLit ==
  IsOn("kHazardLamp") => Lit \subseteq {active_indicator}

\* The number of active DTCs is the number of faulted lamps whenever doip is
\* between two requests: what a health report says is then true.
CountMatchesFlags ==
  doip = Idle => active_fault_count = Cardinality(faulted)

\* Every change to on is sent before anything else can happen: the last status
\* sent of a lamp that is on says so.  (A lamp forced off is announced late.)
LitLampIsAnnounced ==
  \A f \in LampFunctions : IsOn(f) => published[f] = "kOn"

\* A tester that forces a lamp off cannot be shadowed for ever: the broadcast
\* corrects what the controller believes.
ForcedOffIsAnnounced ==
  \A f \in LampFunctions :
    (published[f] = "kOn" /\ ~IsOn(f)) ~> (published[f] = "kOff" \/ IsOn(f))

\* A full queue is drained again: cmd always comes back for the next command,
\* whoever holds the mutex meanwhile.
QueueDrains == (Len(queue) = QueueDepth) ~> (Len(queue) < QueueDepth)

\* A fault that stays is reported.
FaultIsReported == (faulted # {}) ~> (reported_fault_count > 0 \/ faulted = {})

(***************************************************************************)
(* The turn-signal policy.  What it remembers is the registry while the    *)
(* hazard lamp is on and until the restore that follows.                   *)
(***************************************************************************)
Restoring == cmd_pc \in {"send_left", "send_right", "restore"}
Remembered == IF IsOn("kHazardLamp") \/ Restoring
              THEN {active_indicator} \ {"kUnknown"} ELSE {}
Policy == INSTANCE TurnSignalPolicy WITH
            hazard <- IsOn("kHazardLamp"), lit <- Lit, remembered <- Remembered
ImplementsPolicy == Policy!Spec
=============================================================================
