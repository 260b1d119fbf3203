-------------------------- MODULE ZephyrNodeProofs --------------------------
(***************************************************************************)
(* The node is safe for every set of commands, queue depth and schedule.   *)
(* The invariants are not inductive one by one: a switch-over, a hazard-off *)
(* and a restore run over several sends, and what makes their second half  *)
(* safe is what their first half left behind.  PathInv says what that is   *)
(* at each point of the cmd thread, CountInv at each point of doip.        *)
(***************************************************************************)
EXTENDS ZephyrNode, FiniteSetTheorems, TLAPS

\* At every point inside a command, what the segments before it established.
PathInv ==
  /\ Restoring => ~IsOn("kHazardLamp") /\ Lit = {}
  /\ cmd_pc = "forget" => ~IsOn("kHazardLamp")
  /\ cmd_pc = "apply" => /\ cmd.function \in Indicators
                         /\ cmd.action = "kActivate"
                         /\ ~IsOn(Opposite(cmd.function))
                         /\ ~IsOn("kHazardLamp")

\* The count against the flags at every point inside a fault request.
CountInv ==
  /\ doip.step \in {"append", "force_off"} => doip.function \in LampFunctions
  /\ doip.step \in {"idle", "force_off"} => active_fault_count = Cardinality(faulted)
  /\ doip.step = "append" => active_fault_count + 1 = Cardinality(faulted)
  /\ doip.step = "compact" => active_fault_count = Cardinality(faulted) + 1
  /\ doip.step = "empty" => faulted = {}

LampInv ==
  /\ IndicatorExclusivity
  /\ FaultedLampOff
  /\ RegistryRemembersLit
  /\ LitLampIsAnnounced
  /\ PathInv

IInv == TypeOK /\ CountInv /\ LampInv

-----------------------------------------------------------------------------
\* The five functions are finitely many, and so are the faulted ones.
LEMMA LampsFinite ==
  /\ IsFiniteSet(LampFunctions)
  /\ Cardinality(LampFunctions) \in Nat
<1>1. IsFiniteSet({"kLeftIndicator"})
  BY FS_Singleton
<1>2. IsFiniteSet({"kLeftIndicator"} \cup {"kRightIndicator"})
  BY <1>1, FS_AddElement
<1>3. IsFiniteSet(({"kLeftIndicator"} \cup {"kRightIndicator"}) \cup {"kHazardLamp"})
  BY <1>2, FS_AddElement
<1>4. IsFiniteSet((({"kLeftIndicator"} \cup {"kRightIndicator"}) \cup {"kHazardLamp"})
                    \cup {"kParkLamp"})
  BY <1>3, FS_AddElement
<1>5. IsFiniteSet(((({"kLeftIndicator"} \cup {"kRightIndicator"}) \cup {"kHazardLamp"})
                    \cup {"kParkLamp"}) \cup {"kHeadLamp"})
  BY <1>4, FS_AddElement
<1>6. LampFunctions = ((({"kLeftIndicator"} \cup {"kRightIndicator"}) \cup {"kHazardLamp"})
                    \cup {"kParkLamp"}) \cup {"kHeadLamp"}
  BY DEF LampFunctions
<1> QED
  BY <1>5, <1>6, FS_CardinalityType

\* What deactivation and activation do to a set of lamps.
LEMMA AppliedDeactivate ==
  ASSUME TypeOK, NEW fs
  PROVE  Applied(fs, "kDeactivate") =
           [f \in LampFunctions |-> IF f \in fs THEN "kOff" ELSE lamp_output[f]]
  BY DEF Applied, OutputAfter, Refuses, Resolve

LEMMA AppliedActivate ==
  ASSUME TypeOK, NEW fs
  PROVE  Applied(fs, "kActivate") =
           [f \in LampFunctions |->
              IF f \in fs /\ f \notin faulted THEN "kOn" ELSE lamp_output[f]]
  BY DEF Applied, OutputAfter, Refuses, Resolve

\* Any command on any one lamp: the others keep their output, a faulted lamp
\* that is off stays off.
LEMMA AppliedOne ==
  ASSUME TypeOK, NEW g, NEW a \in LampCommandActions
  PROVE  /\ Applied({g}, a) \in [LampFunctions -> OutputStates]
         /\ \A f \in LampFunctions \ {g} : Applied({g}, a)[f] = lamp_output[f]
         /\ \A f \in LampFunctions :
              f \in faulted /\ Applied({g}, a)[f] = "kOn" => lamp_output[f] = "kOn"
         /\ \A f \in LampFunctions :
              Applied({g}, a)[f] = "kOn" /\ lamp_output[f] = "kOff"
                => f = g /\ a \in {"kActivate", "kToggle"}
<1>1. \A f \in LampFunctions :
        /\ OutputAfter(f \in faulted, lamp_output[f], a) \in OutputStates
        /\ f \in faulted /\ OutputAfter(f \in faulted, lamp_output[f], a) = "kOn"
             => lamp_output[f] = "kOn"
        /\ OutputAfter(f \in faulted, lamp_output[f], a) = "kOn" /\ lamp_output[f] = "kOff"
             => a \in {"kActivate", "kToggle"}
  BY DEF TypeOK, OutputStates, LampCommandActions, OutputAfter, Refuses, Resolve
<1> QED
  BY <1>1 DEF Applied, TypeOK

\* The command of a dispatch is one that a sender put in the queue.
LEMMA DispatchedCommand ==
  ASSUME TypeOK, cmd # NoCommand
  PROVE  cmd \in LampCommand(SequenceCounters)
  BY CommandsAssumption DEF TypeOK, LampCommand, Indicators, LampFunctions, LampCommandActions

-----------------------------------------------------------------------------
\* The steps of udp_rx and of cmd leave the fault table alone.
LEMMA CountUnchanged ==
  ASSUME CountInv, UNCHANGED <<faulted, active_fault_count, doip>>
  PROVE  CountInv'
  BY DEF CountInv

LEMMA ReceiveInv ==
  ASSUME IInv, NEW c \in Commands, ReceiveCommand(c)
  PROVE  IInv'
<1>1. UNCHANGED <<lamps, registry, cmd_pc, cmd, doip, health_thread, published>>
  BY DEF ReceiveCommand
<1>2. queue' \in Seq(Commands) /\ Len(queue') <= QueueDepth
  <2>1. queue \in Seq(Commands) /\ Len(queue) \in Nat /\ Len(queue) <= QueueDepth
    BY DEF IInv, TypeOK
  <2>2. CASE Len(queue) < QueueDepth
    <3>1. queue' = Append(queue, c) /\ Len(queue') = Len(queue) + 1
      BY <2>1, <2>2 DEF ReceiveCommand
    <3> QED
      BY <2>1, <2>2, <3>1, QueueDepthAssumption
  <2>3. CASE ~(Len(queue) < QueueDepth)
    BY <2>1, <2>3 DEF ReceiveCommand
  <2> QED
    BY <2>2, <2>3
<1>3. TypeOK'
  BY <1>1, <1>2 DEF IInv, TypeOK, lamps, registry, health_thread
<1> QED
  BY <1>1, <1>3 DEF IInv, CountInv, LampInv, PathInv, Restoring, Lit, IsOn,
       IndicatorExclusivity, FaultedLampOff, RegistryRemembersLit,
       LitLampIsAnnounced, lamps, registry

LEMMA GetInv ==
  ASSUME IInv, GetCommand
  PROVE  IInv'
<1>1. /\ cmd_pc' = "lock"
      /\ UNCHANGED <<lamps, registry, doip, health_thread, published>>
  BY DEF GetCommand
<1>2. queue \in Seq(Commands) /\ queue # << >> /\ Len(queue) <= QueueDepth
  BY DEF GetCommand, IInv, TypeOK
<1>3. Head(queue) \in Commands /\ Tail(queue) \in Seq(Commands)
        /\ Len(Tail(queue)) <= QueueDepth
  BY <1>2, QueueDepthAssumption
<1>4. TypeOK'
  BY <1>1, <1>3 DEF GetCommand, IInv, TypeOK, lamps, registry, health_thread, CmdPoints
<1> QED
  BY <1>1, <1>4 DEF IInv, CountInv, LampInv, PathInv, Restoring, Lit, IsOn,
       IndicatorExclusivity, FaultedLampOff, RegistryRemembersLit,
       LitLampIsAnnounced, lamps, registry

-----------------------------------------------------------------------------
\* Hazard-off leaves all three turn-signal lamps off.
LEMMA HazardOffInv ==
  ASSUME IInv, HazardOff
  PROVE  IInv'
<1>1. /\ cmd.function = "kHazardLamp" /\ IsOn("kHazardLamp")
      /\ last_hazard_sequence' = cmd.sequence_counter
      /\ hazard_active' = FALSE
      /\ cmd_pc' = "send_left"
      /\ UNCHANGED <<faulted, active_fault_count, queue, doip, health_thread,
                     active_indicator, cmd>>
      /\ published' = [published EXCEPT !["kHazardLamp"] = lamp_output'["kHazardLamp"]]
  BY DEF HazardOff, Dispatches, Send
<1>2. lamp_output' =
        [f \in LampFunctions |-> IF f \in {"kHazardLamp"} \cup Indicators
                                 THEN "kOff" ELSE lamp_output[f]]
  BY AppliedDeactivate DEF HazardOff, IInv
<1>3. cmd.sequence_counter \in SequenceCounters
  <2>1. cmd # NoCommand
    BY <1>1 DEF NoCommand
  <2> QED
    BY <2>1, DispatchedCommand DEF IInv, LampCommand
<1>4. TypeOK'
  BY <1>1, <1>2, <1>3
     DEF IInv, TypeOK, health_thread, CmdPoints, OutputStates, LampFunctions
<1>5. CountInv'
  BY <1>1, CountUnchanged DEF IInv
<1>6. Lit' = {} /\ ~IsOn("kHazardLamp")'
  BY <1>2 DEF Lit, IsOn, Indicators, LampFunctions
<1>7. PathInv' /\ RegistryRemembersLit' /\ IndicatorExclusivity'
  BY <1>1, <1>6 DEF PathInv, RegistryRemembersLit, IndicatorExclusivity, Lit, Indicators
<1>8. FaultedLampOff' /\ LitLampIsAnnounced'
  BY <1>1, <1>2 DEF IInv, LampInv, TypeOK, FaultedLampOff, LitLampIsAnnounced, IsOn,
       LampFunctions
<1> QED
  BY <1>4, <1>5, <1>7, <1>8 DEF IInv, LampInv

\* Hazard-on captures the only indicator that can be on.
LEMMA HazardOnInv ==
  ASSUME IInv, HazardOn
  PROVE  IInv'
<1>1. /\ cmd.function = "kHazardLamp" /\ ~IsOn("kHazardLamp")
      /\ last_hazard_sequence' = cmd.sequence_counter
      /\ hazard_active' = TRUE
      /\ cmd_pc' = "unlock"
      /\ UNCHANGED <<faulted, active_fault_count, queue, doip, health_thread, cmd>>
      /\ published' = [published EXCEPT !["kHazardLamp"] = lamp_output'["kHazardLamp"]]
  BY DEF HazardOn, Dispatches, Send
<1>2. lamp_output' =
        [f \in LampFunctions |-> IF f \in {"kHazardLamp"} /\ f \notin faulted
                                 THEN "kOn" ELSE lamp_output[f]]
  BY AppliedActivate DEF HazardOn, IInv
<1>3. cmd.sequence_counter \in SequenceCounters
  <2>1. cmd # NoCommand
    BY <1>1 DEF NoCommand
  <2> QED
    BY <2>1, DispatchedCommand DEF IInv, LampCommand
<1>4. /\ active_indicator' \in Indicators \cup {"kUnknown"}
      /\ Lit \subseteq {active_indicator'}
  BY DEF HazardOn, IInv, LampInv, IndicatorExclusivity, Lit, Indicators
<1>5. TypeOK'
  BY <1>1, <1>2, <1>3, <1>4
     DEF IInv, TypeOK, health_thread, CmdPoints, OutputStates, LampFunctions
<1>6. CountInv'
  BY <1>1, CountUnchanged DEF IInv
<1>7. Lit' = Lit
  BY <1>2 DEF Lit, IsOn, Indicators, LampFunctions
<1>8. PathInv' /\ RegistryRemembersLit'
  BY <1>1, <1>4, <1>7 DEF PathInv, RegistryRemembersLit, Restoring
<1>9. IndicatorExclusivity'
  BY <1>7 DEF IInv, LampInv, IndicatorExclusivity, Lit, Indicators
<1>10. FaultedLampOff' /\ LitLampIsAnnounced'
  BY <1>1, <1>2 DEF IInv, LampInv, TypeOK, FaultedLampOff, LitLampIsAnnounced, IsOn,
       LampFunctions
<1> QED
  BY <1>5, <1>6, <1>8, <1>9, <1>10 DEF IInv, LampInv

\* Sending the indicators changes nothing but what was sent.
LEMMA SendIndicatorInv ==
  ASSUME IInv, NEW f \in Indicators, NEW point \in {"send_left", "send_right"},
         NEW next \in {"send_right", "restore"}, SendIndicator(point, f, next)
  PROVE  IInv'
<1>1. /\ cmd_pc = point /\ cmd_pc' = next
      /\ UNCHANGED <<lamps, registry, queue, cmd, doip, health_thread>>
      /\ published' = [published EXCEPT ![f] = lamp_output'[f]]
  BY DEF SendIndicator, Send
<1>2. TypeOK'
  BY <1>1 DEF IInv, TypeOK, lamps, registry, health_thread, CmdPoints, Indicators,
       LampFunctions
<1>3. CountInv'
  BY <1>1, CountUnchanged DEF IInv, lamps
<1> QED
  BY <1>1, <1>2, <1>3 DEF IInv, LampInv, PathInv, Restoring, Lit, IsOn, TypeOK,
       IndicatorExclusivity, FaultedLampOff, RegistryRemembersLit,
       LitLampIsAnnounced, lamps, registry

\* The restored indicator comes on alone: both were off.
LEMMA RestoreInv ==
  ASSUME IInv, RestoreIndicator
  PROVE  IInv'
<1> DEFINE g == active_indicator
<1>1. /\ cmd_pc = "restore" /\ cmd_pc' = "forget"
      /\ UNCHANGED <<faulted, active_fault_count, registry, queue, cmd, doip,
                     health_thread>>
      /\ published' = [published EXCEPT ![g] = lamp_output'[g]]
      /\ g \in Indicators
  BY DEF RestoreIndicator, Send, IInv, TypeOK
<1>2. lamp_output' =
        [f \in LampFunctions |-> IF f \in {g} /\ f \notin faulted
                                 THEN "kOn" ELSE lamp_output[f]]
  BY AppliedActivate DEF RestoreIndicator, IInv
<1>3. TypeOK'
  BY <1>1, <1>2 DEF IInv, TypeOK, registry, health_thread, CmdPoints, OutputStates,
       Indicators, LampFunctions
<1>4. CountInv'
  BY <1>1, CountUnchanged DEF IInv
<1>5. ~IsOn("kHazardLamp")' /\ Lit' \subseteq {g}
  BY <1>1, <1>2 DEF IInv, LampInv, PathInv, Restoring, Lit, IsOn, Indicators, LampFunctions
<1>6. PathInv' /\ RegistryRemembersLit' /\ IndicatorExclusivity'
  BY <1>1, <1>5 DEF PathInv, Restoring, RegistryRemembersLit, IndicatorExclusivity, Lit,
       Indicators
<1>7. FaultedLampOff' /\ LitLampIsAnnounced'
  BY <1>1, <1>2 DEF IInv, LampInv, TypeOK, FaultedLampOff, LitLampIsAnnounced, IsOn,
       Indicators, LampFunctions
<1> QED
  BY <1>3, <1>4, <1>6, <1>7 DEF IInv, LampInv

\* The steps that only end a command, or only drop one.
LEMMA FinishInv ==
  ASSUME IInv, Finish, active_indicator' \in Indicators \cup {"kUnknown"},
         IsOn("kHazardLamp") => UNCHANGED active_indicator,
         UNCHANGED <<lamps, hazard_active, last_hazard_sequence, queue, doip,
                     health_thread, published>>
  PROVE  IInv'
<1>1. TypeOK'
  BY DEF Finish, IInv, TypeOK, lamps, health_thread, CmdPoints
<1> QED
  BY <1>1 DEF Finish, IInv, CountInv, LampInv, PathInv, Restoring, Lit, IsOn, NoCommand,
       IndicatorExclusivity, FaultedLampOff, RegistryRemembersLit, LitLampIsAnnounced,
       lamps

LEMMA FinishingStepInv ==
  ASSUME IInv,
         NothingToRestore \/ ForgetIndicator \/ DropIndicator \/ RejectOther \/ Unlock
  PROVE  IInv'
<1>1. /\ Finish
      /\ UNCHANGED <<lamps, hazard_active, last_hazard_sequence, queue, doip,
                     health_thread, published>>
  BY DEF NothingToRestore, ForgetIndicator, DropIndicator, RejectOther, Unlock,
         Dispatches, lamps, registry
<1>2. active_indicator' \in Indicators \cup {"kUnknown"}
  BY DEF IInv, TypeOK, NothingToRestore, ForgetIndicator, DropIndicator, RejectOther,
         Unlock, registry
<1>3. IsOn("kHazardLamp") => UNCHANGED active_indicator
  BY DEF IInv, LampInv, PathInv, NothingToRestore, ForgetIndicator, DropIndicator,
         RejectOther, Unlock, registry
<1> QED
  BY <1>1, <1>2, <1>3, FinishInv

-----------------------------------------------------------------------------
\* What an indicator command that is not dropped finds and resolves to.
LEMMA AcceptedIndicator ==
  ASSUME IInv, Dispatches(Indicators), ~IndicatorDropped, RecordIntent
  PROVE  /\ cmd.function \in Indicators /\ cmd.function \in LampFunctions
         /\ Opposite(cmd.function) \in Indicators /\ Opposite(cmd.function) # cmd.function
         /\ Resolved \in LampCommandActions \ {"kToggle"}
         /\ cmd.sequence_counter \in SequenceCounters
         /\ ~IsOn("kHazardLamp")
         /\ cmd_pc = "lock"
         /\ active_indicator' \in Indicators \cup {"kUnknown"}
         /\ UNCHANGED <<hazard_active, last_hazard_sequence, faulted,
                        active_fault_count, queue, doip, health_thread>>
<1>1. cmd.function \in Indicators /\ cmd_pc = "lock"
  BY DEF Dispatches
<1>2. cmd # NoCommand
  BY <1>1 DEF NoCommand, Indicators
<1>3. cmd.action \in LampCommandActions /\ cmd.sequence_counter \in SequenceCounters
  BY <1>2, DispatchedCommand DEF IInv, LampCommand
<1>4. Resolved \in LampCommandActions \ {"kToggle"}
  BY <1>3 DEF Resolved, Resolve, LampCommandActions
<1>5. active_indicator' \in Indicators \cup {"kUnknown"}
  BY <1>1 DEF RecordIntent, IInv, TypeOK
<1> QED
  BY <1>1, <1>3, <1>4, <1>5 DEF Dispatches, IndicatorDropped, RecordIntent, Opposite,
     Indicators, LampFunctions

\* The first half of a switch-over leaves both indicators off.
LEMMA SwitchOverInv ==
  ASSUME IInv, SwitchOver
  PROVE  IInv'
<1> DEFINE o == Opposite(cmd.function)
<1>1. /\ cmd.function \in Indicators /\ o \in Indicators /\ o # cmd.function
      /\ cmd.sequence_counter \in SequenceCounters
      /\ ~IsOn("kHazardLamp")
      /\ active_indicator' \in Indicators \cup {"kUnknown"}
      /\ UNCHANGED <<hazard_active, last_hazard_sequence, faulted,
                     active_fault_count, queue, doip, health_thread>>
  BY AcceptedIndicator DEF SwitchOver
<1>2. /\ cmd_pc' = "apply"
      /\ cmd' = [cmd EXCEPT !.action = "kActivate"]
      /\ published' = [published EXCEPT ![o] = lamp_output'[o]]
  BY DEF SwitchOver, MustSwitchOver, Send
<1>3. lamp_output' = [f \in LampFunctions |-> IF f \in {o} THEN "kOff" ELSE lamp_output[f]]
  BY AppliedDeactivate DEF SwitchOver, IInv
<1>4. cmd' \in [function : Indicators, action : {"kActivate"},
                sequence_counter : SequenceCounters]
  <2>1. cmd # NoCommand
    BY <1>1 DEF NoCommand, Indicators
  <2>2. cmd \in LampCommand(SequenceCounters)
    BY <2>1, DispatchedCommand DEF IInv
  <2> QED
    BY <1>1, <1>2, <2>2 DEF LampCommand
<1>5. TypeOK'
  BY <1>1, <1>2, <1>3, <1>4 DEF IInv, TypeOK, health_thread, CmdPoints, OutputStates,
     Indicators, LampFunctions
<1>6. CountInv'
  BY <1>1, CountUnchanged DEF IInv
<1>7. ~IsOn("kHazardLamp")' /\ ~IsOn(o)' /\ o = Opposite(cmd'.function)
      /\ cmd'.function \in Indicators /\ cmd'.action = "kActivate"
  BY <1>1, <1>2, <1>3, <1>4 DEF IsOn, Indicators, LampFunctions, IInv, TypeOK, Opposite
<1>8. PathInv' /\ RegistryRemembersLit'
  BY <1>2, <1>7 DEF PathInv, Restoring, RegistryRemembersLit, IsOn
<1>9. IndicatorExclusivity' /\ FaultedLampOff' /\ LitLampIsAnnounced'
  BY <1>1, <1>2, <1>3 DEF IInv, LampInv, TypeOK, IndicatorExclusivity, FaultedLampOff,
     LitLampIsAnnounced, IsOn, Indicators, LampFunctions
<1> QED
  BY <1>5, <1>6, <1>8, <1>9 DEF IInv, LampInv

\* The second half finds the opposite indicator still off.
LEMMA ApplyAfterSwitchOverInv ==
  ASSUME IInv, ApplyAfterSwitchOver
  PROVE  IInv'
<1> DEFINE g == cmd.function
<1>1. /\ cmd_pc = "apply" /\ cmd_pc' = "unlock" /\ g \in Indicators
      /\ cmd.action = "kActivate" /\ ~IsOn(Opposite(g)) /\ ~IsOn("kHazardLamp")
      /\ UNCHANGED <<faulted, active_fault_count, registry, queue, cmd, doip,
                     health_thread>>
      /\ published' = [published EXCEPT ![g] = lamp_output'[g]]
  BY DEF ApplyAfterSwitchOver, Send, IInv, LampInv, PathInv
<1>2. lamp_output' =
        [f \in LampFunctions |-> IF f \in {g} /\ f \notin faulted
                                 THEN "kOn" ELSE lamp_output[f]]
  BY <1>1, AppliedActivate DEF ApplyAfterSwitchOver, IInv
<1>3. TypeOK'
  BY <1>1, <1>2 DEF IInv, TypeOK, registry, health_thread, CmdPoints, OutputStates,
     Indicators, LampFunctions
<1>4. CountInv'
  BY <1>1, CountUnchanged DEF IInv
<1>5. ~IsOn("kHazardLamp")' /\ IndicatorExclusivity'
  BY <1>1, <1>2 DEF IInv, LampInv, IndicatorExclusivity, IsOn, Opposite, Indicators,
     LampFunctions
<1>6. PathInv' /\ RegistryRemembersLit'
  BY <1>1, <1>5 DEF PathInv, Restoring, RegistryRemembersLit
<1>7. FaultedLampOff' /\ LitLampIsAnnounced'
  BY <1>1, <1>2 DEF IInv, LampInv, TypeOK, FaultedLampOff, LitLampIsAnnounced, IsOn,
     Indicators, LampFunctions
<1> QED
  BY <1>3, <1>4, <1>5, <1>6, <1>7 DEF IInv, LampInv

\* Without a switch-over, an indicator comes on only if the opposite one is off.
LEMMA ApplyIndicatorInv ==
  ASSUME IInv, ApplyIndicator
  PROVE  IInv'
<1> DEFINE g == cmd.function
<1>1. /\ g \in Indicators /\ g \in LampFunctions
      /\ Opposite(g) \in Indicators /\ Opposite(g) # g
      /\ Resolved \in LampCommandActions \ {"kToggle"}
      /\ ~IsOn("kHazardLamp")
      /\ active_indicator' \in Indicators \cup {"kUnknown"}
      /\ UNCHANGED <<hazard_active, last_hazard_sequence, faulted,
                     active_fault_count, queue, doip, health_thread>>
  BY AcceptedIndicator DEF ApplyIndicator
<1>2. /\ cmd_pc' = "unlock" /\ UNCHANGED cmd
      /\ published' = [published EXCEPT ![g] = lamp_output'[g]]
      /\ Resolved = "kActivate" => ~IsOn(Opposite(g))
  BY DEF ApplyIndicator, Send, MustSwitchOver
<1>3. /\ lamp_output' \in [LampFunctions -> OutputStates]
      /\ \A f \in LampFunctions \ {g} : lamp_output'[f] = lamp_output[f]
      /\ \A f \in LampFunctions :
           f \in faulted /\ lamp_output'[f] = "kOn" => lamp_output[f] = "kOn"
      /\ \A f \in LampFunctions :
           lamp_output'[f] = "kOn" /\ lamp_output[f] = "kOff"
             => f = g /\ Resolved \in {"kActivate", "kToggle"}
  <2>1. TypeOK /\ lamp_output' = Applied({g}, Resolved) /\ Resolved \in LampCommandActions
    BY <1>1 DEF ApplyIndicator, IInv
  <2>2. /\ Applied({g}, Resolved) \in [LampFunctions -> OutputStates]
        /\ \A f \in LampFunctions \ {g} : Applied({g}, Resolved)[f] = lamp_output[f]
        /\ \A f \in LampFunctions :
             f \in faulted /\ Applied({g}, Resolved)[f] = "kOn" => lamp_output[f] = "kOn"
        /\ \A f \in LampFunctions :
             Applied({g}, Resolved)[f] = "kOn" /\ lamp_output[f] = "kOff"
               => f = g /\ Resolved \in {"kActivate", "kToggle"}
    BY <2>1, AppliedOne
  <2> QED
    BY <2>1, <2>2
<1>4. TypeOK'
  BY <1>1, <1>2, <1>3 DEF IInv, TypeOK, health_thread, CmdPoints
<1>5. CountInv'
  BY <1>1, CountUnchanged DEF IInv
<1>6. ~IsOn("kHazardLamp")'
  BY <1>1, <1>3 DEF IsOn, Indicators, LampFunctions
<1>7. IndicatorExclusivity'
  <2>1. CASE Resolved = "kActivate"
    BY <1>1, <1>2, <1>3, <2>1 DEF IndicatorExclusivity, IsOn, Opposite, Indicators,
       LampFunctions
  <2>2. CASE Resolved # "kActivate"
    BY <1>1, <1>3, <2>2 DEF IInv, TypeOK, LampInv, IndicatorExclusivity, IsOn,
       OutputStates, LampFunctions
  <2> QED
    BY <2>1, <2>2
<1>8. PathInv' /\ RegistryRemembersLit'
  BY <1>2, <1>6 DEF PathInv, Restoring, RegistryRemembersLit
<1>9. FaultedLampOff' /\ LitLampIsAnnounced'
  BY <1>1, <1>2, <1>3 DEF IInv, LampInv, TypeOK, FaultedLampOff, LitLampIsAnnounced,
     IsOn, OutputStates
<1> QED
  BY <1>4, <1>5, <1>7, <1>8, <1>9 DEF IInv, LampInv

\* Park and head lamps do not touch the turn signals.
LEMMA ApplyOtherInv ==
  ASSUME IInv, ApplyOther
  PROVE  IInv'
<1> DEFINE g == cmd.function
<1>1. /\ g \in {"kParkLamp", "kHeadLamp"}
      /\ cmd_pc' = "unlock"
      /\ UNCHANGED <<faulted, active_fault_count, queue, doip, health_thread, registry, cmd>>
      /\ published' = [published EXCEPT ![g] = lamp_output'[g]]
  BY DEF ApplyOther, Dispatches, OtherSucceeds, Send
<1>2. cmd.action \in LampCommandActions
  <2>1. cmd # NoCommand
    BY <1>1 DEF NoCommand
  <2> QED
    BY <2>1, DispatchedCommand DEF IInv, LampCommand
<1>3. /\ lamp_output' \in [LampFunctions -> OutputStates]
      /\ \A f \in LampFunctions \ {g} : lamp_output'[f] = lamp_output[f]
      /\ \A f \in LampFunctions :
           f \in faulted /\ lamp_output'[f] = "kOn" => lamp_output[f] = "kOn"
  <2>1. TypeOK /\ lamp_output' = Applied({g}, cmd.action)
    BY DEF ApplyOther, IInv
  <2>2. /\ Applied({g}, cmd.action) \in [LampFunctions -> OutputStates]
        /\ \A f \in LampFunctions \ {g} : Applied({g}, cmd.action)[f] = lamp_output[f]
        /\ \A f \in LampFunctions :
             f \in faulted /\ Applied({g}, cmd.action)[f] = "kOn" => lamp_output[f] = "kOn"
        /\ \A f \in LampFunctions :
             Applied({g}, cmd.action)[f] = "kOn" /\ lamp_output[f] = "kOff"
               => f = g /\ cmd.action \in {"kActivate", "kToggle"}
    BY <1>2, <2>1, AppliedOne
  <2> QED
    BY <2>1, <2>2
<1>4. TypeOK'
  BY <1>1, <1>3 DEF IInv, TypeOK, registry, health_thread, CmdPoints, LampFunctions
<1>5. CountInv'
  BY <1>1, CountUnchanged DEF IInv
<1>6. Lit' = Lit /\ IsOn("kHazardLamp")' = IsOn("kHazardLamp")
  BY <1>1, <1>3 DEF Lit, IsOn, Indicators, LampFunctions
<1>7. PathInv' /\ RegistryRemembersLit' /\ IndicatorExclusivity'
  BY <1>1, <1>6 DEF IInv, LampInv, PathInv, Restoring, RegistryRemembersLit,
     IndicatorExclusivity, Lit, Indicators, registry
<1>8. FaultedLampOff' /\ LitLampIsAnnounced'
  BY <1>1, <1>3 DEF IInv, LampInv, TypeOK, FaultedLampOff, LitLampIsAnnounced, IsOn,
     LampFunctions
<1> QED
  BY <1>4, <1>5, <1>7, <1>8 DEF IInv, LampInv

-----------------------------------------------------------------------------
\* The requests of the tester, statement by statement.
LEMMA DoipTypes ==
  ASSUME IInv, faulted' \subseteq LampFunctions, CountInv',
         lamp_output' \in [LampFunctions -> OutputStates],
         doip' \in [step : {"idle", "append", "force_off", "compact", "empty"},
                    function : LampFunctions \cup {"kUnknown"}],
         active_fault_count' \in 0 .. Cardinality(LampFunctions),
         UNCHANGED <<registry, cmd_thread, health_thread, published>>
  PROVE  TypeOK'
  BY DEF IInv, TypeOK, registry, cmd_thread, health_thread

\* A step of doip that leaves the outputs alone keeps what is known of them.
LEMMA OutputsKept ==
  ASSUME LampInv, UNCHANGED <<lamp_output, registry, cmd_thread, published>>,
         FaultedLampOff'
  PROVE  LampInv'
  BY DEF LampInv, IndicatorExclusivity, RegistryRemembersLit, LitLampIsAnnounced,
     PathInv, Restoring, Lit, IsOn, registry, cmd_thread

LEMMA InjectInv ==
  ASSUME IInv, NEW f \in Faultable, InjectFault(f)
  PROVE  IInv'
<1>1. /\ doip = Idle /\ f \in LampFunctions
      /\ faulted' = faulted \cup {f}
      /\ doip' = [step |-> IF f \in faulted THEN "force_off" ELSE "append", function |-> f]
      /\ UNCHANGED <<registry, cmd_thread, health_thread, published,
                     lamp_output, active_fault_count>>
  BY FaultableAssumption DEF InjectFault, DoipUnchanged
<1>2. IsFiniteSet(faulted) /\ faulted \subseteq LampFunctions
  BY LampsFinite, FS_Subset DEF IInv, TypeOK
<1>3. active_fault_count = Cardinality(faulted) /\ Cardinality(faulted) \in Nat
  BY <1>1, <1>2, FS_CardinalityType DEF IInv, CountInv, Idle
<1>4. f \notin faulted => Cardinality(faulted') = Cardinality(faulted) + 1
  BY <1>1, <1>2, FS_AddElement
<1>5. f \in faulted => faulted' = faulted
  BY <1>1
<1>6. CountInv'
  BY <1>1, <1>3, <1>4, <1>5 DEF CountInv
<1>7. TypeOK'
  BY <1>1, <1>2, <1>6, DoipTypes DEF IInv, TypeOK
<1>8. \A g \in faulted : ~IsOn(g)
  BY <1>1 DEF IInv, LampInv, FaultedLampOff, Idle
<1>9. FaultedLampOff'
  BY <1>1, <1>8 DEF FaultedLampOff, IsOn
<1>10. LampInv'
  BY <1>1, <1>9, OutputsKept DEF IInv
<1> QED
  BY <1>6, <1>7, <1>10 DEF IInv

LEMMA AppendInv ==
  ASSUME IInv, AppendDtc
  PROVE  IInv'
<1>1. /\ doip.step = "append" /\ doip' = [doip EXCEPT !.step = "force_off"]
      /\ active_fault_count' = active_fault_count + 1
      /\ UNCHANGED <<registry, cmd_thread, health_thread, published,
                     lamp_output, faulted>>
  BY DEF AppendDtc, DoipUnchanged
<1>2. /\ doip'.step = "force_off" /\ doip'.function = doip.function
      /\ doip' \in [step : {"idle", "append", "force_off", "compact", "empty"},
                    function : LampFunctions \cup {"kUnknown"}]
  BY <1>1 DEF IInv, TypeOK
<1>3. CountInv'
  BY <1>1, <1>2 DEF IInv, CountInv
<1>4. Cardinality(faulted) \in Nat /\ Cardinality(faulted) <= Cardinality(LampFunctions)
  BY LampsFinite, FS_Subset, FS_CardinalityType DEF IInv, TypeOK
<1>5. active_fault_count' \in 0 .. Cardinality(LampFunctions)
  BY <1>1, <1>4, LampsFinite DEF IInv, CountInv, TypeOK
<1>6. TypeOK'
  BY <1>1, <1>2, <1>3, <1>5, DoipTypes DEF IInv, TypeOK
<1>7. FaultedLampOff'
  BY <1>1, <1>2 DEF IInv, LampInv, FaultedLampOff, IsOn
<1>8. LampInv'
  BY <1>1, <1>7, OutputsKept DEF IInv
<1> QED
  BY <1>3, <1>6, <1>8 DEF IInv

LEMMA ForceOffInv ==
  ASSUME IInv, ForceOff
  PROVE  IInv'
<1> DEFINE g == doip.function
<1>1. /\ doip.step = "force_off" /\ doip' = Idle
      /\ lamp_output' = [lamp_output EXCEPT ![g] = "kOff"]
      /\ UNCHANGED <<registry, cmd_thread, health_thread, published,
                     faulted, active_fault_count>>
  BY DEF ForceOff, DoipUnchanged
<1>2. g \in LampFunctions
  BY <1>1 DEF IInv, CountInv
<1>3. CountInv'
  BY <1>1 DEF IInv, CountInv, Idle
<1>4. lamp_output' \in [LampFunctions -> OutputStates]
  BY <1>1 DEF IInv, TypeOK, OutputStates
<1>5. TypeOK'
  BY <1>1, <1>3, <1>4, DoipTypes DEF IInv, TypeOK, Idle
<1>6. \A f \in LampFunctions : IsOn(f)' => IsOn(f) /\ f # g
  BY <1>1, <1>2 DEF IInv, TypeOK, IsOn
<1>7. Lit' \subseteq Lit
  BY <1>6 DEF Lit, Indicators, LampFunctions
<1>8. IndicatorExclusivity' /\ RegistryRemembersLit'
  BY <1>1, <1>6, <1>7 DEF IInv, LampInv, IndicatorExclusivity, RegistryRemembersLit,
     LampFunctions, registry
<1>9. FaultedLampOff'
  BY <1>1, <1>6 DEF IInv, LampInv, TypeOK, FaultedLampOff
<1>10. LitLampIsAnnounced'
  BY <1>1, <1>6 DEF IInv, LampInv, LitLampIsAnnounced
<1>11. PathInv'
  BY <1>1, <1>6, <1>7 DEF IInv, LampInv, PathInv, Restoring, cmd_thread, Opposite,
     LampFunctions
<1> QED
  BY <1>3, <1>5, <1>8, <1>9, <1>10, <1>11 DEF IInv, LampInv

LEMMA ClearInv ==
  ASSUME IInv, NEW f \in Faultable, ClearFault(f)
  PROVE  IInv'
<1>1. /\ doip = Idle /\ f \in faulted
      /\ faulted' = faulted \ {f}
      /\ doip' = [step |-> "compact", function |-> f]
      /\ UNCHANGED <<registry, cmd_thread, health_thread, published,
                     lamp_output, active_fault_count>>
  BY DEF ClearFault, DoipUnchanged
<1>2. IsFiniteSet(faulted)
  BY LampsFinite, FS_Subset DEF IInv, TypeOK
<1>3. Cardinality(faulted') = Cardinality(faulted) - 1
  BY <1>1, <1>2, FS_RemoveElement
<1>4. CountInv'
  BY <1>1, <1>2, <1>3, FS_CardinalityType DEF IInv, CountInv, Idle
<1>5. TypeOK'
  BY <1>1, <1>4, DoipTypes DEF IInv, TypeOK
<1>6. FaultedLampOff'
  BY <1>1 DEF IInv, LampInv, FaultedLampOff, IsOn, Idle
<1>7. LampInv'
  BY <1>1, <1>6, OutputsKept DEF IInv
<1> QED
  BY <1>4, <1>5, <1>7 DEF IInv

LEMMA CompactInv ==
  ASSUME IInv, CompactDtcs
  PROVE  IInv'
<1>1. /\ doip.step = "compact" /\ doip' = Idle
      /\ active_fault_count' = active_fault_count - 1
      /\ UNCHANGED <<registry, cmd_thread, health_thread, published,
                     lamp_output, faulted>>
  BY DEF CompactDtcs, DoipUnchanged
<1>2. Cardinality(faulted) \in Nat
  BY LampsFinite, FS_Subset, FS_CardinalityType DEF IInv, TypeOK
<1>3. CountInv'
  BY <1>1, <1>2 DEF IInv, CountInv, Idle
<1>4. active_fault_count' \in 0 .. Cardinality(LampFunctions)
  BY <1>1, <1>2, LampsFinite DEF IInv, CountInv, TypeOK
<1>5. TypeOK'
  BY <1>1, <1>3, <1>4, DoipTypes DEF IInv, TypeOK, Idle
<1>6. FaultedLampOff'
  BY <1>1 DEF IInv, LampInv, FaultedLampOff, IsOn
<1>7. LampInv'
  BY <1>1, <1>6, OutputsKept DEF IInv
<1> QED
  BY <1>3, <1>5, <1>7 DEF IInv

LEMMA ClearAllInv ==
  ASSUME IInv, ClearAllFaults \/ EmptyDtcs
  PROVE  IInv'
<1>1. CASE ClearAllFaults
  <2>1. /\ faulted' = {}
        /\ doip' = [step |-> "empty", function |-> "kUnknown"]
        /\ UNCHANGED <<registry, cmd_thread, health_thread, published,
                       lamp_output, active_fault_count>>
    BY <1>1 DEF ClearAllFaults, DoipUnchanged
  <2>2. CountInv'
    BY <2>1 DEF CountInv
  <2>3. TypeOK'
    BY <2>1, <2>2, DoipTypes DEF IInv, TypeOK
  <2>4. LampInv'
    BY <2>1, OutputsKept DEF IInv, FaultedLampOff
  <2> QED
    BY <2>2, <2>3, <2>4 DEF IInv
<1>2. CASE EmptyDtcs
  <2>1. /\ doip.step = "empty" /\ doip' = Idle
        /\ active_fault_count' = 0
        /\ UNCHANGED <<registry, cmd_thread, health_thread, published,
                       lamp_output, faulted>>
    BY <1>2 DEF EmptyDtcs, DoipUnchanged
  <2>2. faulted' = {}
    BY <2>1 DEF IInv, CountInv
  <2>3. CountInv'
    BY <2>1, <2>2, FS_EmptySet DEF CountInv, Idle
  <2>4. TypeOK'
    BY <2>1, <2>2, <2>3, LampsFinite, DoipTypes DEF IInv, TypeOK, Idle
  <2>5. LampInv'
    BY <2>1, <2>2, OutputsKept DEF IInv, FaultedLampOff
  <2> QED
    BY <2>3, <2>4, <2>5 DEF IInv
<1> QED
  BY <1>1, <1>2

-----------------------------------------------------------------------------
\* The health thread only sends.
LEMMA SentInv ==
  ASSUME IInv, NEW f \in LampFunctions, HealthUnchanged,
         published' = published \/ Send(f),
         broadcast' \in 0 .. Len(kAllFunctions),
         tick_count' \in 0 .. (HealthEvery - 1),
         health_due' \in BOOLEAN,
         reported_fault_count' \in {NoReport} \cup 0 .. Cardinality(LampFunctions)
  PROVE  IInv'
<1>1. UNCHANGED <<lamps, registry, cmd_thread, doip>>
  BY DEF HealthUnchanged
<1>2. TypeOK'
  BY <1>1 DEF IInv, TypeOK, lamps, registry, cmd_thread, Send, OutputStates
<1>3. LitLampIsAnnounced'
  BY <1>1 DEF IInv, LampInv, TypeOK, LitLampIsAnnounced, IsOn, Send, lamps
<1> QED
  BY <1>1, <1>2, <1>3 DEF IInv, CountInv, LampInv, PathInv, Restoring, Lit, IsOn,
     IndicatorExclusivity, FaultedLampOff, RegistryRemembersLit, lamps, registry,
     cmd_thread

LEMMA HealthInv ==
  ASSUME IInv, HealthLock \/ HealthContinue
  PROVE  IInv'
<1>1. /\ Len(kAllFunctions) = 5
      /\ \A i \in 1 .. 5 : kAllFunctions[i] \in LampFunctions
  BY DEF kAllFunctions, LampFunctions
<1>2. CASE StartBroadcast
  BY <1>1, <1>2, SentInv DEF StartBroadcast, IInv, TypeOK
<1>3. CASE BroadcastNext
  <2>1. broadcast \in 1 .. 4 /\ broadcast + 1 \in 1 .. 5
    BY <1>1, <1>3 DEF BroadcastNext
  <2> QED
    BY <1>1, <1>3, <2>1, SentInv DEF BroadcastNext, IInv, TypeOK
<1>4. CASE EndBroadcast
  <2>1. tick_count' \in 0 .. (HealthEvery - 1)
    BY <1>4, HealthEveryAssumption DEF EndBroadcast, IInv, TypeOK
  <2> QED
    BY <1>1, <1>4, <2>1, SentInv DEF EndBroadcast, IInv, TypeOK
<1>5. CASE PublishHealth
  <2>1. /\ HealthUnchanged /\ UNCHANGED <<broadcast, tick_count, published>>
        /\ reported_fault_count' = active_fault_count /\ health_due' = FALSE
    BY <1>5 DEF PublishHealth
  <2>2. /\ broadcast' \in 0 .. Len(kAllFunctions)
        /\ tick_count' \in 0 .. (HealthEvery - 1)
        /\ reported_fault_count' \in {NoReport} \cup 0 .. Cardinality(LampFunctions)
    BY <2>1 DEF IInv, TypeOK
  <2>3. "kHazardLamp" \in LampFunctions
    BY DEF LampFunctions
  <2> QED
    BY <2>1, <2>2, <2>3, SentInv
<1> QED
  BY <1>2, <1>3, <1>4, <1>5 DEF HealthLock, HealthContinue

-----------------------------------------------------------------------------
LEMMA InitInv == Init => IInv
<1> SUFFICES ASSUME Init PROVE IInv
  OBVIOUS
<1>1. TypeOK
  <2>1. /\ queue \in Seq(Commands) /\ Len(queue) = 0 /\ Len(kAllFunctions) = 5
        /\ Len(queue) <= QueueDepth
    BY QueueDepthAssumption DEF Init, kAllFunctions
  <2>2. /\ broadcast \in 0 .. Len(kAllFunctions)
        /\ tick_count \in 0 .. (HealthEvery - 1)
        /\ active_fault_count \in 0 .. Cardinality(LampFunctions)
    BY <2>1, LampsFinite, HealthEveryAssumption DEF Init
  <2>3. /\ lamp_output \in [LampFunctions -> OutputStates]
        /\ published \in [LampFunctions -> OutputStates \cup {"kUnknown"}]
        /\ doip \in [step : {"idle", "append", "force_off", "compact", "empty"},
                     function : LampFunctions \cup {"kUnknown"}]
    BY DEF Init, OutputStates, Idle
  <2> QED
    BY <2>1, <2>2, <2>3 DEF Init, TypeOK, CmdPoints
<1>2. CountInv
  BY FS_EmptySet DEF Init, CountInv, Idle
<1>3. LampInv
  BY DEF Init, LampInv, IndicatorExclusivity, FaultedLampOff, RegistryRemembersLit,
     LitLampIsAnnounced, PathInv, Restoring, IsOn, LampFunctions
<1> QED
  BY <1>1, <1>2, <1>3 DEF IInv

LEMMA NextInv == IInv /\ [Next]_vars => IInv'
<1> SUFFICES ASSUME IInv, [Next]_vars PROVE IInv'
  OBVIOUS
<1>1. CASE \E c \in Commands : ReceiveCommand(c)
  BY <1>1, ReceiveInv
<1>2. CASE GetCommand
  BY <1>2, GetInv
<1>3. CASE CmdLock
  BY <1>3, HazardOffInv, HazardOnInv, FinishingStepInv, SwitchOverInv,
     ApplyIndicatorInv, ApplyOtherInv DEF CmdLock
<1>4. CASE CmdContinue
  <2>1. CASE SendIndicator("send_left", "kLeftIndicator", "send_right")
    BY <2>1, SendIndicatorInv DEF Indicators
  <2>2. CASE SendIndicator("send_right", "kRightIndicator", "restore")
    BY <2>2, SendIndicatorInv DEF Indicators
  <2> QED
    BY <1>4, <2>1, <2>2, RestoreInv, FinishingStepInv, ApplyAfterSwitchOverInv
       DEF CmdContinue
<1>5. CASE DoipRequest
  BY <1>5, InjectInv, ClearInv, ClearAllInv DEF DoipRequest
<1>6. CASE DoipContinue
  BY <1>6, AppendInv, ForceOffInv, CompactInv, ClearAllInv DEF DoipContinue
<1>7. CASE HealthLock \/ HealthContinue
  BY <1>7, HealthInv
<1>8. CASE UNCHANGED vars
  BY <1>8 DEF vars, IInv, TypeOK, CountInv, LampInv, PathInv, Restoring, Lit, IsOn,
     IndicatorExclusivity, FaultedLampOff, RegistryRemembersLit, LitLampIsAnnounced,
     lamps, registry, cmd_thread, health_thread
<1> QED
  BY <1>1, <1>2, <1>3, <1>4, <1>5, <1>6, <1>7, <1>8 DEF Next

LEMMA Invariance == Spec => []IInv
  BY InitInv, NextInv, PTL DEF Spec

\* Every variable stays within its type.
THEOREM TypeCorrect == Spec => []TypeOK
<1>1. IInv => TypeOK
  BY DEF IInv
<1> QED
  BY <1>1, Invariance, PTL

\* Left and right are never on together.
THEOREM Exclusivity == Spec => []IndicatorExclusivity
<1>1. IInv => IndicatorExclusivity
  BY DEF IInv, LampInv
<1> QED
  BY <1>1, Invariance, PTL

\* A faulted lamp is off, except inside the injection itself.
THEOREM FaultsHold == Spec => []FaultedLampOff
<1>1. IInv => FaultedLampOff
  BY DEF IInv, LampInv
<1> QED
  BY <1>1, Invariance, PTL

\* The registry remembers the indicator that is on under the hazard lamp.
THEOREM RegistryTrue == Spec => []RegistryRemembersLit
<1>1. IInv => RegistryRemembersLit
  BY DEF IInv, LampInv
<1> QED
  BY <1>1, Invariance, PTL

\* A lamp that is on has been announced.
THEOREM Announced == Spec => []LitLampIsAnnounced
<1>1. IInv => LitLampIsAnnounced
  BY DEF IInv, LampInv
<1> QED
  BY <1>1, Invariance, PTL

\* Between two requests, the count is the number of faulted lamps.
THEOREM CountTrue == Spec => []CountMatchesFlags
<1>1. IInv => CountMatchesFlags
  BY DEF IInv, CountInv, CountMatchesFlags, Idle
<1> QED
  BY <1>1, Invariance, PTL

-----------------------------------------------------------------------------
(***************************************************************************)
(* Refinement: every step is one of the policy, or invisible to it.        *)
(***************************************************************************)
PolicyStep == [Policy!Next]_(Policy!vars)

\* A step that touches neither the turn signals nor what is remembered.
LEMMA Invisible ==
  ASSUME Lit' = Lit, IsOn("kHazardLamp")' = IsOn("kHazardLamp"), Remembered' = Remembered
  PROVE  PolicyStep
  BY DEF PolicyStep, Policy!vars

LEMMA HazardSteps ==
  ASSUME IInv, HazardOff \/ HazardOn
  PROVE  PolicyStep
<1>1. CASE HazardOff
  <2>1. /\ IsOn("kHazardLamp") /\ cmd_pc' = "send_left" /\ UNCHANGED active_indicator
    BY <1>1 DEF HazardOff
  <2>2. lamp_output' =
          [f \in LampFunctions |-> IF f \in {"kHazardLamp"} \cup Indicators
                                   THEN "kOff" ELSE lamp_output[f]]
    BY <1>1, AppliedDeactivate DEF HazardOff, IInv
  <2>3. Lit' = {} /\ IsOn("kHazardLamp")' = FALSE
    BY <2>2 DEF Lit, IsOn, Indicators, LampFunctions
  <2>4. Remembered' = Remembered
    BY <2>1 DEF Remembered, Restoring
  <2> QED
    BY <2>1, <2>3, <2>4 DEF PolicyStep, Policy!Next, Policy!HazardOff
<1>2. CASE HazardOn
  <2>1. /\ cmd_pc = "lock" /\ cmd_pc' = "unlock" /\ ~IsOn("kHazardLamp")
    BY <1>2 DEF HazardOn, Dispatches
  <2>2. lamp_output' =
          [f \in LampFunctions |-> IF f \in {"kHazardLamp"} /\ f \notin faulted
                                   THEN "kOn" ELSE lamp_output[f]]
    BY <1>2, AppliedActivate DEF HazardOn, IInv
  <2>3. Lit' = Lit
    BY <2>2 DEF Lit, IsOn, Indicators, LampFunctions
  <2>4. Remembered = {}
    BY <2>1 DEF Remembered, Restoring
  <2>5. CASE "kHazardLamp" \in faulted
    <3>1. IsOn("kHazardLamp")' = IsOn("kHazardLamp")
      BY <2>2, <2>5 DEF IsOn, LampFunctions
    <3>2. Remembered' = {}
      BY <2>1, <3>1 DEF Remembered, Restoring
    <3> QED
      BY <2>3, <2>4, <3>1, <3>2, Invisible
  <2>6. CASE "kHazardLamp" \notin faulted
    <3>1. IsOn("kHazardLamp")' = TRUE
      BY <2>2, <2>6 DEF IsOn, LampFunctions
    <3>2. {active_indicator'} \ {"kUnknown"} = Lit
      BY <1>2 DEF HazardOn, IInv, LampInv, IndicatorExclusivity, Lit, Indicators
    <3>3. Remembered' = Lit
      BY <3>1, <3>2 DEF Remembered
    <3> QED
      BY <2>1, <2>3, <2>4, <3>1, <3>3 DEF PolicyStep, Policy!Next, Policy!HazardOn
  <2> QED
    BY <2>5, <2>6
<1> QED
  BY <1>1, <1>2

LEMMA RestoreSteps ==
  ASSUME IInv, CmdContinue, ~ApplyAfterSwitchOver, ~Unlock
  PROVE  PolicyStep
<1>1. ASSUME NEW f \in Indicators, NEW point \in {"send_left", "send_right"},
             NEW next \in {"send_right", "restore"}, SendIndicator(point, f, next)
      PROVE  PolicyStep
  <2>1. UNCHANGED <<lamp_output, active_indicator>> /\ cmd_pc = point /\ cmd_pc' = next
    BY <1>1 DEF SendIndicator, lamps, registry
  <2> QED
    BY <2>1, Invisible DEF Lit, IsOn, Remembered, Restoring
<1>2. CASE RestoreIndicator
  <2> DEFINE g == active_indicator
  <2>1. /\ cmd_pc = "restore" /\ cmd_pc' = "forget" /\ g \in Indicators
        /\ ~IsOn("kHazardLamp") /\ Lit = {}
    BY <1>2 DEF RestoreIndicator, IInv, TypeOK, LampInv, PathInv, Restoring
  <2>2. lamp_output' =
          [f \in LampFunctions |-> IF f \in {g} /\ f \notin faulted
                                   THEN "kOn" ELSE lamp_output[f]]
    BY <1>2, AppliedActivate DEF RestoreIndicator, IInv
  <2>3. ~IsOn("kHazardLamp")' /\ IsOn("kHazardLamp")' = IsOn("kHazardLamp")
    BY <2>1, <2>2 DEF IsOn, Indicators, LampFunctions
  <2>4. Lit' \in {{g}, {}}
    BY <2>1, <2>2 DEF Lit, IsOn, Indicators, LampFunctions
  <2>5. Remembered = {g} /\ Remembered' = {}
    BY <2>1, <2>3 DEF Remembered, Restoring, Indicators
  <2> QED
    BY <2>1, <2>3, <2>4, <2>5 DEF PolicyStep, Policy!Next, Policy!Restore
<1>3. CASE NothingToRestore
  <2>1. /\ UNCHANGED lamp_output /\ cmd_pc = "restore" /\ cmd_pc' = "get"
        /\ active_indicator = "kUnknown" /\ ~IsOn("kHazardLamp")
    BY <1>3 DEF NothingToRestore, Finish, lamps, IInv, LampInv, PathInv, Restoring
  <2> QED
    BY <2>1, Invisible DEF Lit, IsOn, Remembered, Restoring
<1>4. CASE ForgetIndicator
  <2>1. /\ UNCHANGED lamp_output /\ cmd_pc = "forget" /\ cmd_pc' = "get"
        /\ ~IsOn("kHazardLamp")
    BY <1>4 DEF ForgetIndicator, Finish, lamps, IInv, LampInv, PathInv
  <2> QED
    BY <2>1, Invisible DEF Lit, IsOn, Remembered, Restoring
<1> QED
  BY <1>1, <1>2, <1>3, <1>4 DEF CmdContinue, Indicators

\* The steps of an indicator command: hazard is off and nothing is remembered.
LEMMA IndicatorSteps ==
  ASSUME IInv, SwitchOver \/ ApplyAfterSwitchOver \/ ApplyIndicator
  PROVE  PolicyStep
<1>1. CASE SwitchOver
  <2> DEFINE o == Opposite(cmd.function)
  <2>1. /\ o \in Indicators /\ ~IsOn("kHazardLamp") /\ cmd_pc = "lock"
        /\ cmd_pc' = "apply"
    BY <1>1, AcceptedIndicator DEF SwitchOver
  <2>2. lamp_output' = [f \in LampFunctions |-> IF f \in {o} THEN "kOff" ELSE lamp_output[f]]
    BY <1>1, AppliedDeactivate DEF SwitchOver, IInv
  <2>3. IsOn("kHazardLamp")' = IsOn("kHazardLamp") /\ ~IsOn("kHazardLamp")'
    BY <2>1, <2>2 DEF IsOn, Indicators, LampFunctions
  <2>4. Lit' = Lit \ {o}
    BY <2>1, <2>2 DEF Lit, IsOn, Indicators, LampFunctions
  <2>5. Remembered = {} /\ Remembered' = {}
    BY <2>1, <2>3 DEF Remembered, Restoring
  <2> QED
    BY <2>1, <2>3, <2>4, <2>5 DEF PolicyStep, Policy!Next, Policy!Deactivate
<1>2. CASE ApplyAfterSwitchOver
  <2> DEFINE g == cmd.function
  <2>1. /\ cmd_pc = "apply" /\ cmd_pc' = "unlock" /\ g \in Indicators
        /\ cmd.action = "kActivate" /\ ~IsOn(Opposite(g)) /\ ~IsOn("kHazardLamp")
    BY <1>2 DEF ApplyAfterSwitchOver, IInv, LampInv, PathInv
  <2>2. lamp_output' =
          [f \in LampFunctions |-> IF f \in {g} /\ f \notin faulted
                                   THEN "kOn" ELSE lamp_output[f]]
    BY <1>2, <2>1, AppliedActivate DEF ApplyAfterSwitchOver, IInv
  <2>3. IsOn("kHazardLamp")' = IsOn("kHazardLamp") /\ ~IsOn("kHazardLamp")'
    BY <2>1, <2>2 DEF IsOn, Indicators, LampFunctions
  <2>4. Lit \subseteq {g} /\ Lit' \in {{g}, Lit}
    BY <2>1, <2>2 DEF Lit, IsOn, Opposite, Indicators, LampFunctions
  <2>5. Remembered = {} /\ Remembered' = {}
    BY <2>1, <2>3 DEF Remembered, Restoring
  <2>6. CASE Lit' = {g}
    BY <2>1, <2>3, <2>4, <2>5, <2>6 DEF PolicyStep, Policy!Next, Policy!Activate
  <2>7. CASE Lit' = Lit
    BY <2>3, <2>5, <2>7, Invisible
  <2> QED
    BY <2>4, <2>6, <2>7
<1>3. CASE ApplyIndicator
  <2> DEFINE g == cmd.function
  <2>1. /\ g \in Indicators /\ Resolved \in LampCommandActions \ {"kToggle"}
        /\ ~IsOn("kHazardLamp") /\ cmd_pc = "lock" /\ cmd_pc' = "unlock"
        /\ lamp_output' = Applied({g}, Resolved)
        /\ Resolved = "kActivate" => ~IsOn(Opposite(g))
    BY <1>3, AcceptedIndicator DEF ApplyIndicator, MustSwitchOver
  <2>2. CASE Resolved = "kActivate"
    <3>1. lamp_output' =
            [f \in LampFunctions |-> IF f \in {g} /\ f \notin faulted
                                     THEN "kOn" ELSE lamp_output[f]]
      BY <2>1, <2>2, AppliedActivate DEF IInv
    <3>2. IsOn("kHazardLamp")' = IsOn("kHazardLamp") /\ ~IsOn("kHazardLamp")'
      BY <2>1, <3>1 DEF IsOn, Indicators, LampFunctions
    <3>3. Lit \subseteq {g} /\ Lit' \in {{g}, Lit}
      BY <2>1, <2>2, <3>1 DEF Lit, IsOn, Opposite, Indicators, LampFunctions
    <3>4. Remembered = {} /\ Remembered' = {}
      BY <2>1, <3>2 DEF Remembered, Restoring
    <3>5. CASE Lit' = {g}
      BY <2>1, <3>2, <3>3, <3>4, <3>5 DEF PolicyStep, Policy!Next, Policy!Activate
    <3>6. CASE Lit' = Lit
      BY <3>2, <3>4, <3>6, Invisible
    <3> QED
      BY <3>3, <3>5, <3>6
  <2>3. CASE Resolved = "kDeactivate"
    <3>1. lamp_output' = [f \in LampFunctions |-> IF f \in {g} THEN "kOff" ELSE lamp_output[f]]
      BY <2>1, <2>3, AppliedDeactivate DEF IInv
    <3>2. IsOn("kHazardLamp")' = IsOn("kHazardLamp") /\ ~IsOn("kHazardLamp")'
      BY <2>1, <3>1 DEF IsOn, Indicators, LampFunctions
    <3>3. Lit' = Lit \ {g}
      BY <2>1, <3>1 DEF Lit, IsOn, Indicators, LampFunctions
    <3>4. Remembered = {} /\ Remembered' = {}
      BY <2>1, <3>2 DEF Remembered, Restoring
    <3> QED
      BY <2>1, <3>2, <3>3, <3>4 DEF PolicyStep, Policy!Next, Policy!Deactivate
  <2>4. CASE Resolved = "kNoAction"
    <3>1. lamp_output' = lamp_output
      BY <2>1, <2>4 DEF Applied, OutputAfter, Refuses, Resolve, IInv, TypeOK
    <3> QED
      BY <2>1, <3>1, Invisible DEF Lit, IsOn, Remembered, Restoring
  <2> QED
    BY <2>1, <2>2, <2>3, <2>4 DEF LampCommandActions
<1> QED
  BY <1>1, <1>2, <1>3

\* The other steps of cmd, of udp_rx and of health are invisible.
LEMMA InvisibleSteps ==
  ASSUME IInv,
         \/ \E c \in Commands : ReceiveCommand(c)
         \/ GetCommand \/ DropIndicator \/ ApplyOther \/ RejectOther \/ Unlock
         \/ HealthLock \/ HealthContinue
         \/ UNCHANGED vars
  PROVE  PolicyStep
<1>1. CASE ApplyOther
  <2>1. /\ cmd.function \in {"kParkLamp", "kHeadLamp"} /\ cmd_pc = "lock"
        /\ cmd_pc' = "unlock" /\ UNCHANGED active_indicator
        /\ lamp_output' = Applied({cmd.function}, cmd.action)
    BY <1>1 DEF ApplyOther, Dispatches, OtherSucceeds, registry
  <2>2. \A f \in LampFunctions \ {cmd.function} : lamp_output'[f] = lamp_output[f]
    BY <2>1 DEF Applied
  <2>3. Lit' = Lit /\ IsOn("kHazardLamp")' = IsOn("kHazardLamp")
    BY <2>1, <2>2 DEF Lit, IsOn, Indicators, LampFunctions
  <2> QED
    BY <2>1, <2>3, Invisible DEF Remembered, Restoring
<1>2. CASE ~ApplyOther
  <2>1. UNCHANGED <<lamp_output, active_indicator>>
    BY <1>2 DEF ReceiveCommand, GetCommand, DropIndicator, RejectOther, Unlock, HealthLock,
       HealthContinue, StartBroadcast, PublishHealth, BroadcastNext, EndBroadcast,
       HealthUnchanged, lamps, registry, vars
  <2>2. Restoring' = Restoring
    BY <1>2 DEF Restoring, ReceiveCommand, GetCommand, DropIndicator, RejectOther, Unlock,
       Dispatches, Finish, HealthLock, HealthContinue, StartBroadcast, PublishHealth,
       BroadcastNext, EndBroadcast, HealthUnchanged, cmd_thread, vars
  <2> QED
    BY <2>1, <2>2, Invisible DEF Lit, IsOn, Remembered
<1> QED
  BY <1>1, <1>2

\* Of the tester's requests, only the forced switch-off is visible.
LEMMA DoipSteps ==
  ASSUME IInv, DoipRequest \/ DoipContinue
  PROVE  PolicyStep
<1>1. UNCHANGED <<active_indicator, cmd_pc>>
  BY DEF DoipRequest, DoipContinue, InjectFault, ClearFault, ClearAllFaults, AppendDtc,
     ForceOff, CompactDtcs, EmptyDtcs, DoipUnchanged, registry, cmd_thread
<1>2. CASE ForceOff
  <2> DEFINE g == doip.function
  <2>1. /\ g \in LampFunctions
        /\ lamp_output' = [lamp_output EXCEPT ![g] = "kOff"]
    BY <1>2 DEF ForceOff, IInv, CountInv
  <2>2. CASE g = "kHazardLamp"
    <3>1. Lit' = Lit /\ IsOn("kHazardLamp")' = FALSE
      BY <2>1, <2>2 DEF IInv, TypeOK, Lit, IsOn, Indicators, LampFunctions
    <3>2. CASE IsOn("kHazardLamp")
      <4>1. Remembered' = {}
        BY <1>1, <3>1, <3>2 DEF Remembered, Restoring, IInv, LampInv, PathInv
      <4> QED
        BY <3>1, <3>2, <4>1 DEF PolicyStep, Policy!Next, Policy!HazardFails
    <3>3. CASE ~IsOn("kHazardLamp")
      BY <1>1, <3>1, <3>3, Invisible DEF Remembered, Restoring, IsOn
    <3> QED
      BY <3>2, <3>3
  <2>3. CASE g # "kHazardLamp"
    <3>1. IsOn("kHazardLamp")' = IsOn("kHazardLamp")
      BY <2>1, <2>3 DEF IInv, TypeOK, IsOn, LampFunctions
    <3>2. Remembered' = Remembered
      BY <1>1, <3>1 DEF Remembered, Restoring
    <3>3. Lit' = Lit \ {g}
      BY <2>1, <2>3 DEF IInv, TypeOK, Lit, IsOn, Indicators, LampFunctions
    <3>4. CASE g \in Indicators
      BY <3>1, <3>2, <3>3, <3>4 DEF PolicyStep, Policy!Next, Policy!IndicatorFails
    <3>5. CASE g \notin Indicators
      BY <3>1, <3>2, <3>3, <3>5, Invisible DEF Lit
    <3> QED
      BY <3>4, <3>5
  <2> QED
    BY <2>2, <2>3
<1>3. CASE ~ForceOff
  <2>1. UNCHANGED lamp_output
    BY <1>3 DEF DoipRequest, DoipContinue, InjectFault, ClearFault, ClearAllFaults,
       AppendDtc, CompactDtcs, EmptyDtcs
  <2> QED
    BY <1>1, <2>1, Invisible DEF Lit, IsOn, Remembered, Restoring
<1> QED
  BY <1>2, <1>3

LEMMA EveryStep == IInv /\ [Next]_vars => PolicyStep
<1> SUFFICES ASSUME IInv, [Next]_vars PROVE PolicyStep
  OBVIOUS
<1>1. CASE CmdLock
  BY <1>1, HazardSteps, IndicatorSteps, InvisibleSteps DEF CmdLock
<1>2. CASE CmdContinue
  BY <1>2, RestoreSteps, IndicatorSteps, InvisibleSteps
<1>3. CASE DoipRequest \/ DoipContinue
  BY <1>3, DoipSteps
<1> QED
  BY <1>1, <1>2, <1>3, InvisibleSteps DEF Next

\* The node implements the turn-signal policy, whatever reaches it.
THEOREM Refinement == Spec => ImplementsPolicy
<1>1. Init => Policy!Init
  BY DEF Init, Policy!Init, Lit, IsOn, Remembered, Restoring, Indicators, LampFunctions
<1>2. IInv /\ [Next]_vars => [Policy!Next]_(Policy!vars)
  BY EveryStep DEF PolicyStep
<1> QED
  BY <1>1, <1>2, Invariance, PTL DEF Spec, ImplementsPolicy, Policy!Spec

\* While the hazard lamp is on, no indicator output comes on: it is a property
\* of every step of the policy.
THEOREM HazardBlocks == Spec => HazardBlocksIndicators
<1>1. IInv /\ [Next]_vars => (IsOn("kHazardLamp")' => Lit' \subseteq Lit)
  <2> SUFFICES ASSUME PolicyStep, IsOn("kHazardLamp")' PROVE Lit' \subseteq Lit
    BY EveryStep
  <2>1. CASE Policy!HazardOn
    BY <2>1 DEF Policy!HazardOn
  <2>2. CASE UNCHANGED Policy!vars
    BY <2>2 DEF Policy!vars
  <2>3. CASE \/ Policy!HazardOff \/ Policy!HazardOffRestore
             \/ Policy!Restore \/ Policy!HazardFails
    BY <2>3 DEF Policy!HazardOff, Policy!HazardOffRestore, Policy!Restore,
                Policy!HazardFails
  <2>4. ASSUME NEW f \in Indicators,
               Policy!Activate(f) \/ Policy!Deactivate(f) \/ Policy!IndicatorFails(f)
        PROVE  Lit' \subseteq Lit
    BY <2>4 DEF Policy!Activate, Policy!Deactivate, Policy!IndicatorFails
  <2> QED
    BY <2>1, <2>2, <2>3, <2>4 DEF PolicyStep, Policy!Next
<1> QED
  BY <1>1, Invariance, PTL DEF Spec, HazardBlocksIndicators
=============================================================================
