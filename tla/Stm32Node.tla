------------------------------ MODULE Stm32Node ------------------------------
(***************************************************************************)
(* The exterior lighting node of the bare-metal build (main.cpp of         *)
(* stm32_nucleo_h753zi): one loop polls the Ethernet interface, so the     *)
(* handler of a datagram and a diagnostic request each run to their end    *)
(* before anything else happens.                                           *)
(*                                                                         *)
(* sent holds the status events a step hands to the network, in order.     *)
(***************************************************************************)
EXTENDS LightingDomain, Sequences

CONSTANTS
  SequenceCounters,   \* the counters that commands carry
  Commands,           \* the commands that reach the socket
  Faultable           \* the lamp functions a diagnostic tester faults

ASSUME CommandsAssumption ==
  /\ SequenceCounters \subseteq Nat
  /\ Commands \subseteq LampCommand(SequenceCounters)
ASSUME FaultableAssumption == Faultable \subseteq LampFunctions

VARIABLES
  lamp_output,                    \* output_state of each lamp status
  faulted,                        \* the faulted functions
  last_hazard_sequence,           \* last_hazard_sequence_
  active_indicator_before_hazard, \* active_indicator_before_hazard_
  sent

vars == <<lamp_output, faulted, last_hazard_sequence,
          active_indicator_before_hazard, sent>>

IsOn(f) == lamp_output[f] = "kOn"
Lit == {f \in Indicators : IsOn(f)}

Init ==
  /\ lamp_output = [f \in LampFunctions |-> "kOff"]
  /\ faulted = {}
  /\ last_hazard_sequence = 0
  /\ active_indicator_before_hazard = "kUnknown"
  /\ sent = << >>

\* The board starts again: nothing is kept, and nothing is said of the lamps.
Restart ==
  /\ lamp_output' = [f \in LampFunctions |-> "kOff"]
  /\ faulted' = {}
  /\ last_hazard_sequence' = 0
  /\ active_indicator_before_hazard' = "kUnknown"
  /\ sent' = << >>

-----------------------------------------------------------------------------
\* ApplyCommand(f, action) on outputs that earlier calls may have changed.
Apply(outputs, f, action) ==
  [outputs EXCEPT ![f] = OutputAfter(f \in faulted, @, action)]

\* SendLampStatusEvent for each of fs, once the outputs are final.
Send(fs) == sent' = [i \in DOMAIN fs |->
                       [function |-> fs[i], output |-> lamp_output'[fs[i]]]]

\* The counter by which the companions of a hazard command are known.
RecordHazard(c) == last_hazard_sequence' = c.sequence_counter

\* HandleHazard toggles whatever the action says.
HazardOn(c) ==
  /\ c.function = "kHazardLamp" /\ ~IsOn("kHazardLamp")
  /\ RecordHazard(c)
  /\ lamp_output' = Apply(lamp_output, "kHazardLamp", "kActivate")
  /\ active_indicator_before_hazard' =
       CASE IsOn("kLeftIndicator")  -> "kLeftIndicator"
         [] ~IsOn("kLeftIndicator") /\ IsOn("kRightIndicator") -> "kRightIndicator"
         [] Lit = {} -> "kUnknown"
  /\ Send(<<"kHazardLamp">>)
  /\ UNCHANGED faulted

HazardOffRestore(c) ==
  LET saved == active_indicator_before_hazard
      off == Apply(lamp_output, "kHazardLamp", "kDeactivate") IN
  /\ c.function = "kHazardLamp" /\ IsOn("kHazardLamp") /\ saved # "kUnknown"
  /\ RecordHazard(c)
  /\ lamp_output' = Apply(Apply(off, saved, "kActivate"), Opposite(saved), "kDeactivate")
  /\ Send(<<saved, Opposite(saved), "kHazardLamp">>)
  /\ active_indicator_before_hazard' = "kUnknown"
  /\ UNCHANGED faulted

\* Mutation of HazardOffClear: nothing is said of the hazard lamp itself.
HazardOffClearUntold(c) ==
  /\ c.function = "kHazardLamp" /\ IsOn("kHazardLamp")
  /\ active_indicator_before_hazard = "kUnknown"
  /\ RecordHazard(c)
  /\ lamp_output' = [f \in LampFunctions |->
                      IF f \in Indicators \cup {"kHazardLamp"} THEN "kOff" ELSE lamp_output[f]]
  /\ Send(<<"kLeftIndicator", "kRightIndicator">>)
  /\ UNCHANGED <<faulted, active_indicator_before_hazard>>

HazardOffClear(c) ==
  LET off == Apply(lamp_output, "kHazardLamp", "kDeactivate") IN
  /\ c.function = "kHazardLamp" /\ IsOn("kHazardLamp")
  /\ active_indicator_before_hazard = "kUnknown"
  /\ RecordHazard(c)
  /\ lamp_output' =
       Apply(Apply(off, "kLeftIndicator", "kDeactivate"), "kRightIndicator", "kDeactivate")
  /\ Send(<<"kLeftIndicator", "kRightIndicator", "kHazardLamp">>)
  /\ UNCHANGED <<faulted, active_indicator_before_hazard>>

\* HandleIndicator drops a companion of the last hazard command, known by its
\* counter, and everything while the hazard lamp is on.
IsCompanion(c) == c.sequence_counter = last_hazard_sequence

\* Mutations of DropsIndicator: one of its two reasons is forgotten.
DropsOnlyCompanions(c) == IsCompanion(c)
DropsOnlyUnderHazard(c) == IsOn("kHazardLamp")

DropsIndicator(c) == IsCompanion(c) \/ IsOn("kHazardLamp")

DropIndicator(c) ==
  /\ c.function \in Indicators /\ DropsIndicator(c)
  /\ sent' = << >>
  /\ UNCHANGED <<lamp_output, faulted, last_hazard_sequence,
                 active_indicator_before_hazard>>

\* Mutation of IndicatorEvents: nothing is said of the indicator switched off.
IndicatorEventsOwnOnly(f, exchange) == <<f>>

IndicatorEvents(f, exchange) == IF exchange THEN <<Opposite(f), f>> ELSE <<f>>

\* Activation switches the opposite indicator off first, if it is on.
ApplyIndicator(c) ==
  LET f == c.function
      resolved == Resolve(lamp_output[f], c.action)
      exchange == resolved = "kActivate" /\ IsOn(Opposite(f)) IN
  /\ f \in Indicators /\ ~DropsIndicator(c)
  /\ lamp_output' =
       Apply(IF exchange THEN Apply(lamp_output, Opposite(f), "kDeactivate")
                         ELSE lamp_output, f, resolved)
  /\ Send(IndicatorEvents(f, exchange))
  /\ UNCHANGED <<faulted, last_hazard_sequence, active_indicator_before_hazard>>

\* Park and head lamps, and the unknown function, which no lamp answers to.
ApplyOther(c) ==
  LET f == c.function
      ok == f # "kUnknown" /\ ApplySucceeds(f \in faulted, lamp_output[f], c.action) IN
  /\ f \in {"kParkLamp", "kHeadLamp", "kUnknown"}
  /\ lamp_output' = IF ok THEN Apply(lamp_output, f, c.action) ELSE lamp_output
  /\ Send(IF ok THEN <<f>> ELSE << >>)
  /\ UNCHANGED <<faulted, last_hazard_sequence, active_indicator_before_hazard>>

OnTransportMessageReceived(c) ==
  \/ HazardOn(c) \/ HazardOffRestore(c) \/ HazardOffClear(c)
  \/ DropIndicator(c) \/ ApplyIndicator(c)
  \/ ApplyOther(c)

-----------------------------------------------------------------------------
(* The diagnostic server: nothing is sent to the controller. *)

\* Mutation of HandleFaultInjection: the output is left as it is.
HandleFaultInjectionFlagOnly(f) ==
  /\ faulted' = faulted \cup {f}
  /\ sent' = << >>
  /\ UNCHANGED <<lamp_output, last_hazard_sequence, active_indicator_before_hazard>>

HandleFaultInjection(f) ==
  /\ faulted' = faulted \cup {f}
  /\ lamp_output' = [lamp_output EXCEPT ![f] = "kOff"]
  /\ sent' = << >>
  /\ UNCHANGED <<last_hazard_sequence, active_indicator_before_hazard>>

HandleFaultClear(fs) ==
  /\ faulted' = faulted \ fs
  /\ sent' = << >>
  /\ UNCHANGED <<lamp_output, last_hazard_sequence, active_indicator_before_hazard>>

Diagnose == \/ \E f \in Faultable : HandleFaultInjection(f) \/ HandleFaultClear({f})
            \/ HandleFaultClear(LampFunctions)

Next == (\E c \in Commands : OnTransportMessageReceived(c)) \/ Diagnose

Spec == Init /\ [][Next]_vars

-----------------------------------------------------------------------------
TypeOK ==
  /\ lamp_output \in [LampFunctions -> OutputStates]
  /\ faulted \subseteq LampFunctions
  /\ last_hazard_sequence \in SequenceCounters \cup {0}
  /\ active_indicator_before_hazard \in Indicators \cup {"kUnknown"}
  /\ sent \in Seq([function : LampFunctions, output : OutputStates])

\* Between two datagrams no faulted lamp is on, and never both indicators.
OutputsAreSafe ==
  /\ \A f \in faulted : ~IsOn(f)
  /\ ~(IsOn("kLeftIndicator") /\ IsOn("kRightIndicator"))

\* The node keeps the turn-signal policy of the Zephyr build, although it saves
\* the indicator in another way and restores it in the step that ends hazard.
Policy == INSTANCE TurnSignalPolicy WITH
            hazard <- IsOn("kHazardLamp"), lit <- Lit,
            remembered <- IF IsOn("kHazardLamp")
                          THEN {active_indicator_before_hazard} \ {"kUnknown"} ELSE {}
ImplementsPolicy == Policy!Spec
=============================================================================
