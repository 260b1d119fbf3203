--------------------------- MODULE Stm32NodeProofs ---------------------------
(***************************************************************************)
(* The bare-metal node is safe and keeps the turn-signal policy, for every *)
(* set of commands, of counters and of faults.  A datagram is handled in   *)
(* one step, so type correctness and OutputsAreSafe are inductive as they  *)
(* stand; and they are all that a step needs to be one of the policy: the  *)
(* indicator saved by HazardOn is the lit one because there is at most     *)
(* one, and a saved one that is faulted stays off when it is restored.     *)
(***************************************************************************)
EXTENDS Stm32Node, TLAPS

IInv == TypeOK /\ OutputsAreSafe
PolicyStep == [Policy!Next]_(Policy!vars)

Outputs == [LampFunctions -> OutputStates]

\* The value of the policy's third variable.
Remembered == IF IsOn("kHazardLamp") THEN {active_indicator_before_hazard} \ {"kUnknown"}
                                     ELSE {}

-----------------------------------------------------------------------------
(* ApplyCommand on one lamp. *)

LEMMA ApplyDeactivate ==
  ASSUME NEW o \in Outputs, NEW g \in LampFunctions
  PROVE  Apply(o, g, "kDeactivate") = [o EXCEPT ![g] = "kOff"]
  BY DEF Apply, OutputAfter, Refuses, Resolve, Outputs

LEMMA ApplyActivate ==
  ASSUME NEW o \in Outputs, NEW g \in LampFunctions
  PROVE  Apply(o, g, "kActivate") = IF g \in faulted THEN o ELSE [o EXCEPT ![g] = "kOn"]
  BY DEF Apply, OutputAfter, Refuses, Resolve, Outputs

\* Any action: the outputs keep their type, the other lamps their output, and a
\* faulted lamp that is off stays off.
LEMMA ApplyOne ==
  ASSUME NEW o \in Outputs, NEW g \in LampFunctions, NEW a \in LampCommandActions
  PROVE  /\ Apply(o, g, a) \in Outputs
         /\ \A f \in LampFunctions \ {g} : Apply(o, g, a)[f] = o[f]
         /\ g \in faulted /\ o[g] # "kOn" => Apply(o, g, a)[g] # "kOn"
<1>1. /\ OutputAfter(g \in faulted, o[g], a) \in OutputStates
      /\ g \in faulted /\ o[g] # "kOn" => OutputAfter(g \in faulted, o[g], a) # "kOn"
  BY DEF Outputs, OutputStates, LampCommandActions, OutputAfter, Refuses, Resolve
<1> QED
  BY <1>1 DEF Apply, Outputs

\* What is sent of outputs that have their type has its type.
LEMMA SendType ==
  ASSUME NEW fs \in Seq(LampFunctions), Send(fs), lamp_output' \in Outputs
  PROVE  sent' \in Seq([function : LampFunctions, output : OutputStates])
<1>1. DOMAIN fs = 1 .. Len(fs) /\ Len(fs) \in Nat
  OBVIOUS
<1>2. \A i \in 1 .. Len(fs) : fs[i] \in LampFunctions
  OBVIOUS
<1>3. \A i \in 1 .. Len(fs) : [function |-> fs[i], output |-> lamp_output'[fs[i]]]
                                \in [function : LampFunctions, output : OutputStates]
  BY <1>2 DEF Outputs
<1> QED
  BY <1>1, <1>3 DEF Send

LEMMA CommandType ==
  ASSUME NEW c \in Commands
  PROVE  /\ c.function \in LampFunctions \cup {"kUnknown"}
         /\ c.action \in LampCommandActions
         /\ c.sequence_counter \in SequenceCounters
  BY CommandsAssumption DEF LampCommand

\* A step that touches neither the turn signals nor what is remembered.
LEMMA Invisible ==
  ASSUME Lit' = Lit, IsOn("kHazardLamp")' = IsOn("kHazardLamp"), Remembered' = Remembered
  PROVE  PolicyStep
  BY DEF PolicyStep, Policy!vars, Remembered

\* The operator's commands on an indicator, while the hazard lamp is off.
LEMMA Activation ==
  ASSUME NEW f \in Indicators, ~IsOn("kHazardLamp"), ~IsOn("kHazardLamp")', Lit' = {f}
  PROVE  PolicyStep
<1>1. IsOn("kHazardLamp") = FALSE /\ IsOn("kHazardLamp")' = FALSE
  BY DEF IsOn
<1>2. Policy!Activate(f)
  BY <1>1 DEF Policy!Activate
<1> QED
  BY <1>2 DEF PolicyStep, Policy!Next

LEMMA Deactivation ==
  ASSUME NEW f \in Indicators, ~IsOn("kHazardLamp"), ~IsOn("kHazardLamp")', Lit' = Lit \ {f}
  PROVE  PolicyStep
<1>1. IsOn("kHazardLamp") = FALSE /\ IsOn("kHazardLamp")' = FALSE
  BY DEF IsOn
<1>2. Policy!Deactivate(f)
  BY <1>1 DEF Policy!Deactivate
<1> QED
  BY <1>2 DEF PolicyStep, Policy!Next

-----------------------------------------------------------------------------
(* Every action keeps the invariant and is a step of the policy. *)

LEMMA HazardOnSafe ==
  ASSUME IInv, NEW c \in Commands, HazardOn(c)
  PROVE  IInv' /\ PolicyStep
<1>1. /\ ~IsOn("kHazardLamp") /\ UNCHANGED faulted
      /\ last_hazard_sequence' \in SequenceCounters
      /\ lamp_output' = IF "kHazardLamp" \in faulted THEN lamp_output
                        ELSE [lamp_output EXCEPT !["kHazardLamp"] = "kOn"]
  BY CommandType, ApplyActivate DEF HazardOn, RecordHazard, IInv, TypeOK, LampFunctions, Outputs
<1>2. lamp_output' \in Outputs
  BY <1>1 DEF IInv, TypeOK, OutputStates, Outputs
<1>3. sent' \in Seq([function : LampFunctions, output : OutputStates])
  <2>1. <<"kHazardLamp">> \in Seq(LampFunctions)
    BY DEF LampFunctions
  <2> QED
    BY <1>2, <2>1, SendType DEF HazardOn
<1>4. /\ active_indicator_before_hazard' \in Indicators \cup {"kUnknown"}
      /\ {active_indicator_before_hazard'} \ {"kUnknown"} = Lit
  BY DEF HazardOn, IInv, OutputsAreSafe, Lit, Indicators
<1>5. TypeOK'
  BY <1>1, <1>2, <1>3, <1>4 DEF IInv, TypeOK, Outputs
<1>6. \A f \in LampFunctions \ {"kHazardLamp"} : IsOn(f)' = IsOn(f)
  BY <1>1 DEF IInv, TypeOK, IsOn
<1>7. "kHazardLamp" \in faulted => ~IsOn("kHazardLamp")'
  BY <1>1 DEF IsOn
<1>8. OutputsAreSafe'
  BY <1>1, <1>6, <1>7 DEF IInv, TypeOK, OutputsAreSafe, LampFunctions
<1>9. Lit' = Lit /\ Remembered = {}
  BY <1>1, <1>6 DEF Lit, Indicators, LampFunctions, Remembered
<1>10. PolicyStep
  <2>1. CASE "kHazardLamp" \in faulted
    BY <1>1, <1>7, <1>9, <2>1, Invisible DEF Remembered, IsOn
  <2>2. CASE "kHazardLamp" \notin faulted
    <3>1. IsOn("kHazardLamp")' = TRUE
      BY <1>1, <2>2 DEF IInv, TypeOK, IsOn, LampFunctions
    <3> QED
      BY <1>1, <1>4, <1>9, <3>1 DEF PolicyStep, Policy!Next, Policy!HazardOn, Remembered
  <2> QED
    BY <2>1, <2>2
<1> QED
  BY <1>5, <1>8, <1>10 DEF IInv

LEMMA HazardOffRestoreSafe ==
  ASSUME IInv, NEW c \in Commands, HazardOffRestore(c)
  PROVE  IInv' /\ PolicyStep
<1> DEFINE saved == active_indicator_before_hazard
           off == [lamp_output EXCEPT !["kHazardLamp"] = "kOff"]
           restored == IF saved \in faulted THEN off ELSE [off EXCEPT ![saved] = "kOn"]
<1>1. /\ IsOn("kHazardLamp") /\ UNCHANGED faulted
      /\ saved \in Indicators /\ Opposite(saved) \in Indicators /\ Opposite(saved) # saved
      /\ last_hazard_sequence' \in SequenceCounters
      /\ active_indicator_before_hazard' = "kUnknown"
  BY CommandType DEF HazardOffRestore, RecordHazard, IInv, TypeOK, Indicators, Opposite
<1>2. off \in Outputs /\ restored \in Outputs
  BY <1>1 DEF IInv, TypeOK, Outputs, OutputStates, Indicators, LampFunctions
<1>3. lamp_output' = [restored EXCEPT ![Opposite(saved)] = "kOff"]
  <2>1. Apply(lamp_output, "kHazardLamp", "kDeactivate") = off
    BY ApplyDeactivate DEF IInv, TypeOK, Outputs, LampFunctions
  <2>2. Apply(off, saved, "kActivate") = restored
    BY <1>1, <1>2, ApplyActivate DEF Indicators, LampFunctions
  <2>3. Apply(restored, Opposite(saved), "kDeactivate")
          = [restored EXCEPT ![Opposite(saved)] = "kOff"]
    BY <1>1, <1>2, ApplyDeactivate DEF Indicators, LampFunctions
  <2> QED
    BY <2>1, <2>2, <2>3 DEF HazardOffRestore
<1>4. lamp_output' \in Outputs
  BY <1>1, <1>2, <1>3 DEF Outputs, OutputStates
<1>5. TypeOK'
  <2>1. <<saved, Opposite(saved), "kHazardLamp">> \in Seq(LampFunctions)
    BY <1>1 DEF Indicators, LampFunctions
  <2>2. sent' \in Seq([function : LampFunctions, output : OutputStates])
    BY <1>4, <2>1, SendType DEF HazardOffRestore
  <2> QED
    BY <1>1, <1>4, <2>2 DEF IInv, TypeOK, Outputs
<1>6. /\ ~IsOn("kHazardLamp")' /\ lamp_output'[Opposite(saved)] # "kOn"
      /\ \A f \in LampFunctions : IsOn(f)' => IsOn(f) \/ (f = saved /\ saved \notin faulted)
  <2>1. /\ {saved, Opposite(saved), "kHazardLamp"} \subseteq LampFunctions
        /\ "kHazardLamp" \notin {saved, Opposite(saved)}
    BY <1>1 DEF Indicators, LampFunctions
  <2>2. off["kHazardLamp"] = "kOff" /\ \A f \in LampFunctions : off[f] = "kOn" => IsOn(f)
    BY DEF IInv, TypeOK, IsOn, LampFunctions
  <2>3. /\ restored["kHazardLamp"] = "kOff"
        /\ \A f \in LampFunctions :
             restored[f] = "kOn" => IsOn(f) \/ (f = saved /\ saved \notin faulted)
    BY <1>2, <2>1, <2>2 DEF Outputs
  <2> HIDE DEF restored
  <2>4. /\ lamp_output'["kHazardLamp"] = "kOff" /\ lamp_output'[Opposite(saved)] = "kOff"
        /\ \A f \in LampFunctions : lamp_output'[f] = "kOn" => restored[f] = "kOn"
    BY <1>2, <1>3, <2>1, <2>3 DEF Outputs
  <2> QED
    BY <2>3, <2>4 DEF IsOn
<1>7. OutputsAreSafe'
  BY <1>1, <1>6 DEF IInv, TypeOK, OutputsAreSafe, IsOn, Indicators, Opposite
<1>8. Lit' \in {{saved}, {}}
  <2>1. Indicators = {saved, Opposite(saved)}
    BY <1>1 DEF Indicators, Opposite
  <2>2. Lit' = {f \in Indicators : lamp_output'[f] = "kOn"}
    BY DEF Lit, IsOn
  <2>3. CASE lamp_output'[saved] = "kOn"
    BY <1>1, <1>6, <2>1, <2>2, <2>3
  <2>4. CASE lamp_output'[saved] # "kOn"
    BY <1>6, <2>1, <2>2, <2>4
  <2> QED
    BY <2>3, <2>4
<1>9. Remembered = {saved} /\ Remembered' = {}
  BY <1>1, <1>6 DEF Remembered, Indicators
<1>10. PolicyStep
  BY <1>1, <1>6, <1>8, <1>9 DEF PolicyStep, Policy!Next, Policy!HazardOffRestore, Remembered
<1> QED
  BY <1>5, <1>7, <1>10 DEF IInv

LEMMA HazardOffClearSafe ==
  ASSUME IInv, NEW c \in Commands, HazardOffClear(c)
  PROVE  IInv' /\ PolicyStep
<1> DEFINE off == [lamp_output EXCEPT !["kHazardLamp"] = "kOff"]
           left == [off EXCEPT !["kLeftIndicator"] = "kOff"]
<1>1. /\ IsOn("kHazardLamp") /\ UNCHANGED faulted
      /\ last_hazard_sequence' \in SequenceCounters
      /\ active_indicator_before_hazard = "kUnknown"
      /\ UNCHANGED active_indicator_before_hazard
  BY CommandType DEF HazardOffClear, RecordHazard
<1>2. off \in Outputs /\ left \in Outputs
  BY DEF IInv, TypeOK, Outputs, OutputStates
<1>3. lamp_output' = [left EXCEPT !["kRightIndicator"] = "kOff"]
  <2>1. Apply(lamp_output, "kHazardLamp", "kDeactivate") = off
    BY ApplyDeactivate DEF IInv, TypeOK, Outputs, LampFunctions
  <2>2. Apply(off, "kLeftIndicator", "kDeactivate") = left
    BY <1>2, ApplyDeactivate DEF LampFunctions
  <2>3. Apply(left, "kRightIndicator", "kDeactivate") = [left EXCEPT !["kRightIndicator"] = "kOff"]
    BY <1>2, ApplyDeactivate DEF LampFunctions
  <2> QED
    BY <2>1, <2>2, <2>3 DEF HazardOffClear
<1>4. lamp_output' \in Outputs
  BY <1>2, <1>3 DEF Outputs, OutputStates
<1>5. TypeOK'
  <2>1. <<"kLeftIndicator", "kRightIndicator", "kHazardLamp">> \in Seq(LampFunctions)
    BY DEF LampFunctions
  <2>2. sent' \in Seq([function : LampFunctions, output : OutputStates])
    BY <1>4, <2>1, SendType DEF HazardOffClear
  <2> QED
    BY <1>1, <1>4, <2>2 DEF IInv, TypeOK, Outputs
<1>6. /\ ~IsOn("kHazardLamp")' /\ ~IsOn("kLeftIndicator")' /\ ~IsOn("kRightIndicator")'
      /\ \A f \in LampFunctions : IsOn(f)' => IsOn(f)
  BY <1>3 DEF IInv, TypeOK, IsOn, LampFunctions
<1>7. OutputsAreSafe'
  BY <1>1, <1>6 DEF IInv, TypeOK, OutputsAreSafe
<1>8. Lit' = {} /\ Remembered = {} /\ Remembered' = {}
  BY <1>1, <1>6 DEF Lit, Indicators, Remembered
<1>9. PolicyStep
  BY <1>1, <1>6, <1>8 DEF PolicyStep, Policy!Next, Policy!HazardOffRestore, Remembered
<1> QED
  BY <1>5, <1>7, <1>9 DEF IInv

LEMMA DropIndicatorSafe ==
  ASSUME IInv, NEW c \in Commands, DropIndicator(c)
  PROVE  IInv' /\ PolicyStep
<1>1. UNCHANGED <<lamp_output, faulted, last_hazard_sequence, active_indicator_before_hazard>>
  BY DEF DropIndicator
<1>2. sent' \in Seq([function : LampFunctions, output : OutputStates])
  BY DEF DropIndicator
<1>3. PolicyStep
  BY <1>1, Invisible DEF Lit, IsOn, Remembered
<1> QED
  BY <1>1, <1>2, <1>3 DEF IInv, TypeOK, OutputsAreSafe, IsOn

\* An indicator command that is not dropped finds the hazard lamp off.
LEMMA ApplyIndicatorSafe ==
  ASSUME IInv, NEW c \in Commands, ApplyIndicator(c)
  PROVE  IInv' /\ PolicyStep
<1> DEFINE f == c.function
           o == Opposite(f)
           a == Resolve(lamp_output[f], c.action)
           exchange == a = "kActivate" /\ IsOn(o)
           start == IF exchange THEN [lamp_output EXCEPT ![o] = "kOff"] ELSE lamp_output
<1>1. /\ f \in Indicators /\ o \in Indicators /\ o # f
      /\ {f, o} \subseteq LampFunctions \ {"kHazardLamp"} /\ Indicators = {f, o}
      /\ ~IsOn("kHazardLamp")
      /\ UNCHANGED <<faulted, last_hazard_sequence, active_indicator_before_hazard>>
  BY DEF ApplyIndicator, DropsIndicator, Indicators, Opposite, LampFunctions
<1>2. a \in LampCommandActions \ {"kToggle"}
  BY CommandType DEF Resolve, LampCommandActions
<1>3. start \in Outputs
  BY <1>1 DEF IInv, TypeOK, Outputs, OutputStates
<1>4. lamp_output' = Apply(start, f, a)
  <2>1. Apply(lamp_output, o, "kDeactivate") = [lamp_output EXCEPT ![o] = "kOff"]
    BY <1>1, ApplyDeactivate DEF IInv, TypeOK, Outputs
  <2> QED
    BY <2>1 DEF ApplyIndicator
<1>5. /\ lamp_output' \in Outputs
      /\ \A g \in LampFunctions \ {f} : lamp_output'[g] = start[g]
      /\ f \in faulted /\ start[f] # "kOn" => lamp_output'[f] # "kOn"
  <2>1. f \in LampFunctions /\ a \in LampCommandActions
    BY <1>1, <1>2
  <2> HIDE DEF f, a, start
  <2> QED
    BY <1>3, <1>4, <2>1, ApplyOne
<1>6. TypeOK'
  <2>1. IndicatorEvents(f, exchange) \in Seq(LampFunctions)
    BY <1>1 DEF IndicatorEvents
  <2>2. Send(IndicatorEvents(f, exchange))
    BY DEF ApplyIndicator
  <2>3. sent' \in Seq([function : LampFunctions, output : OutputStates])
    BY <1>5, <2>1, <2>2, SendType
  <2> QED
    BY <1>1, <1>5, <2>3 DEF IInv, TypeOK, Outputs
<1>7. /\ ~IsOn("kHazardLamp")'
      /\ \A g \in LampFunctions \ {f} : IsOn(g)' => IsOn(g)
      /\ start[f] = lamp_output[f]
  BY <1>1, <1>5 DEF IInv, TypeOK, IsOn, LampFunctions
<1>8. Remembered = {} /\ Remembered' = {}
  BY <1>1, <1>7 DEF Remembered
<1>9. CASE a = "kActivate"
  <2>1. ~IsOn(o)'
    BY <1>1, <1>5, <1>9 DEF IInv, TypeOK, IsOn
  <2>2. f \in faulted => ~IsOn(f)'
    BY <1>1, <1>5, <1>7 DEF IInv, OutputsAreSafe, IsOn
  <2>3. OutputsAreSafe'
    BY <1>1, <1>7, <2>1, <2>2 DEF IInv, TypeOK, OutputsAreSafe, Indicators
  <2>4. Lit' \in {{f}, {}}
    BY <1>1, <2>1 DEF Lit
  <2>5. f \in faulted \/ IsOn(f)'
    <3>1. f \in LampFunctions
      BY <1>1
    <3> HIDE DEF f, a, start
    <3>2. lamp_output' = IF f \in faulted THEN start ELSE [start EXCEPT ![f] = "kOn"]
      BY <1>3, <1>4, <1>9, <3>1, ApplyActivate
    <3>3. f \in faulted \/ lamp_output'[f] = "kOn"
      BY <1>3, <3>1, <3>2 DEF Outputs
    <3> QED
      BY <3>3 DEF IsOn
  <2>6. CASE IsOn(f)'
    <3>1. Lit' = {f}
      BY <1>1, <2>4, <2>6 DEF Lit
    <3> QED
      BY <1>1, <1>6, <1>7, <1>8, <2>3, <3>1, Activation DEF IInv
  <2>7. CASE ~IsOn(f)'
    <3>1. Lit' = {} /\ ~IsOn(f)
      BY <1>1, <2>1, <2>5, <2>7 DEF Lit, IInv, OutputsAreSafe
    <3>2. Lit' = Lit \ {o}
      BY <1>1, <3>1 DEF Lit
    <3> QED
      BY <1>1, <1>6, <1>7, <1>8, <2>3, <3>2, Deactivation DEF IInv
  <2> QED
    BY <2>6, <2>7
<1>10. CASE a = "kDeactivate"
  <2>1. ~IsOn(f)'
    BY <1>1, <1>3, <1>4, <1>10, ApplyDeactivate DEF IsOn, Outputs
  <2>2. OutputsAreSafe'
    BY <1>1, <1>7, <2>1 DEF IInv, TypeOK, OutputsAreSafe, Indicators
  <2>3. IsOn(o)' = IsOn(o)
    BY <1>1, <1>5, <1>10 DEF IsOn
  <2>4. Lit' = Lit \ {f}
    BY <1>1, <2>1, <2>3 DEF Lit
  <2> QED
    BY <1>1, <1>6, <1>7, <1>8, <2>2, <2>4, Deactivation DEF IInv
<1>11. CASE a = "kNoAction"
  <2>1. lamp_output' = lamp_output
    BY <1>1, <1>4, <1>11 DEF Apply, OutputAfter, Refuses, Resolve, IInv, TypeOK
  <2>2. PolicyStep
    BY <1>1, <2>1, Invisible DEF Lit, IsOn, Remembered
  <2> QED
    BY <1>1, <1>6, <2>1, <2>2 DEF IInv, OutputsAreSafe, IsOn
<1> QED
  BY <1>2, <1>9, <1>10, <1>11 DEF LampCommandActions

LEMMA ApplyOtherSafe ==
  ASSUME IInv, NEW c \in Commands, ApplyOther(c)
  PROVE  IInv' /\ PolicyStep
<1> DEFINE f == c.function
           ok == f # "kUnknown" /\ ApplySucceeds(f \in faulted, lamp_output[f], c.action)
<1>1. /\ f \in {"kParkLamp", "kHeadLamp", "kUnknown"}
      /\ UNCHANGED <<faulted, last_hazard_sequence, active_indicator_before_hazard>>
      /\ lamp_output' = IF ok THEN Apply(lamp_output, f, c.action) ELSE lamp_output
      /\ Send(IF ok THEN <<f>> ELSE << >>)
  BY DEF ApplyOther
<1>2. /\ lamp_output' \in Outputs
      /\ \A g \in LampFunctions \ {f} : lamp_output'[g] = lamp_output[g]
      /\ f \in faulted /\ lamp_output[f] # "kOn" => lamp_output'[f] # "kOn"
  <2>1. CASE ok
    <3>1. f \in LampFunctions /\ c.action \in LampCommandActions
      BY <1>1, <2>1, CommandType DEF LampFunctions
    <3>2. lamp_output \in Outputs
      BY DEF IInv, TypeOK, Outputs
    <3>3. lamp_output' = Apply(lamp_output, f, c.action)
      BY <1>1, <2>1
    <3> HIDE DEF f, ok
    <3> QED
      BY <3>1, <3>2, <3>3, ApplyOne
  <2>2. CASE ~ok
    BY <1>1, <2>2 DEF IInv, TypeOK, Outputs
  <2> QED
    BY <2>1, <2>2
<1>3. sent' \in Seq([function : LampFunctions, output : OutputStates])
  <2>1. (IF ok THEN <<f>> ELSE << >>) \in Seq(LampFunctions)
    <3>1. ok => f \in LampFunctions
      BY <1>1 DEF LampFunctions
    <3> QED
      BY <3>1
  <2> QED
    BY <1>1, <1>2, <2>1, SendType
<1>4. TypeOK'
  BY <1>1, <1>2, <1>3 DEF IInv, TypeOK, Outputs
<1>5. \A g \in LampFunctions \ {f} : IsOn(g)' = IsOn(g)
  BY <1>2 DEF IsOn
<1>6. f \in faulted => ~IsOn(f)'
  BY <1>2 DEF IInv, OutputsAreSafe, IsOn
<1>7. OutputsAreSafe'
  BY <1>1, <1>5, <1>6 DEF IInv, TypeOK, OutputsAreSafe, LampFunctions
<1>8. Lit' = Lit /\ IsOn("kHazardLamp")' = IsOn("kHazardLamp")
  BY <1>1, <1>5 DEF Lit, Indicators, LampFunctions
<1>9. PolicyStep
  BY <1>1, <1>8, Invisible DEF Remembered
<1> QED
  BY <1>4, <1>7, <1>9 DEF IInv

\* A fault switches its lamp off; to clear one changes no output.
LEMMA DiagnoseSafe ==
  ASSUME IInv, Diagnose
  PROVE  IInv' /\ PolicyStep
<1>1. ASSUME NEW f \in Faultable, HandleFaultInjection(f)
      PROVE  IInv' /\ PolicyStep
  <2>1. /\ f \in LampFunctions /\ faulted' = faulted \cup {f}
        /\ lamp_output' = [lamp_output EXCEPT ![f] = "kOff"]
        /\ UNCHANGED <<last_hazard_sequence, active_indicator_before_hazard>>
        /\ sent' = << >>
    BY <1>1, FaultableAssumption DEF HandleFaultInjection
  <2>2. TypeOK'
    BY <2>1 DEF IInv, TypeOK, OutputStates
  <2>3. ~IsOn(f)' /\ \A g \in LampFunctions \ {f} : IsOn(g)' = IsOn(g)
    BY <2>1 DEF IInv, TypeOK, IsOn
  <2>4. OutputsAreSafe'
    BY <2>1, <2>3 DEF IInv, TypeOK, OutputsAreSafe, LampFunctions
  <2>5. CASE f = "kHazardLamp"
    <3>1. Lit' = Lit /\ ~IsOn("kHazardLamp")' /\ Remembered' = {}
      BY <2>3, <2>5 DEF Lit, Indicators, LampFunctions, Remembered
    <3>2. CASE IsOn("kHazardLamp")
      BY <2>2, <2>4, <3>1, <3>2
         DEF IInv, PolicyStep, Policy!Next, Policy!HazardFails, Remembered
    <3>3. CASE ~IsOn("kHazardLamp")
      BY <2>2, <2>4, <3>1, <3>3, Invisible DEF IInv, Remembered, IsOn
    <3> QED
      BY <3>2, <3>3
  <2>6. CASE f # "kHazardLamp"
    <3>1. IsOn("kHazardLamp")' = IsOn("kHazardLamp")
      BY <2>3, <2>6 DEF LampFunctions
    <3>2. Lit' = Lit \ {f}
      BY <2>3 DEF Lit, Indicators, LampFunctions
    <3>3. Remembered' = Remembered
      BY <2>1, <3>1 DEF Remembered
    <3>4. CASE f \in Indicators
      BY <2>2, <2>4, <3>1, <3>2, <3>3, <3>4
         DEF IInv, PolicyStep, Policy!Next, Policy!IndicatorFails, Remembered
    <3>5. CASE f \notin Indicators
      BY <2>2, <2>4, <3>1, <3>2, <3>3, <3>5, Invisible DEF IInv, Lit
    <3> QED
      BY <3>4, <3>5
  <2> QED
    BY <2>5, <2>6
<1>2. ASSUME NEW fs \in SUBSET LampFunctions, HandleFaultClear(fs)
      PROVE  IInv' /\ PolicyStep
  <2>1. /\ faulted' \subseteq faulted /\ sent' = << >>
        /\ UNCHANGED <<lamp_output, last_hazard_sequence, active_indicator_before_hazard>>
    BY <1>2 DEF HandleFaultClear
  <2>2. TypeOK' /\ OutputsAreSafe'
    BY <2>1 DEF IInv, TypeOK, OutputsAreSafe, IsOn
  <2>3. PolicyStep
    BY <2>1, Invisible DEF Lit, IsOn, Remembered
  <2> QED
    BY <2>2, <2>3 DEF IInv
<1>3. \A f \in Faultable : {f} \in SUBSET LampFunctions
  BY FaultableAssumption
<1> QED
  BY <1>1, <1>2, <1>3 DEF Diagnose

-----------------------------------------------------------------------------
LEMMA InitInv == Init => IInv
  BY DEF Init, IInv, TypeOK, OutputsAreSafe, IsOn, OutputStates, LampFunctions, Indicators

LEMMA EveryStep == IInv /\ [Next]_vars => IInv' /\ PolicyStep
<1> SUFFICES ASSUME IInv, [Next]_vars PROVE IInv' /\ PolicyStep
  OBVIOUS
<1>1. ASSUME NEW c \in Commands, OnTransportMessageReceived(c)
      PROVE  IInv' /\ PolicyStep
  BY <1>1, HazardOnSafe, HazardOffRestoreSafe, HazardOffClearSafe, DropIndicatorSafe,
     ApplyIndicatorSafe, ApplyOtherSafe DEF OnTransportMessageReceived
<1>2. CASE Diagnose
  BY <1>2, DiagnoseSafe
<1>3. CASE UNCHANGED vars
  <2>1. UNCHANGED <<lamp_output, faulted, last_hazard_sequence,
                    active_indicator_before_hazard, sent>>
    BY <1>3 DEF vars
  <2>2. IInv'
    BY <2>1 DEF IInv, TypeOK, OutputsAreSafe, IsOn
  <2>3. PolicyStep
    BY <2>1, Invisible DEF Lit, IsOn, Remembered
  <2> QED
    BY <2>2, <2>3
<1> QED
  BY <1>1, <1>2, <1>3 DEF Next

LEMMA Invariance == Spec => []IInv
  BY InitInv, EveryStep, PTL DEF Spec

\* The variables keep their types, the recorded counter and the saved indicator
\* included.
THEOREM TypeCorrect == Spec => []TypeOK
<1>1. IInv => TypeOK
  BY DEF IInv
<1> QED
  BY <1>1, Invariance, PTL

\* Between two datagrams no faulted lamp is on, and never both indicators, whatever
\* reached the node and whatever was faulted.
THEOREM OutputsSafe == Spec => []OutputsAreSafe
<1>1. IInv => OutputsAreSafe
  BY DEF IInv
<1> QED
  BY <1>1, Invariance, PTL

\* The bare-metal node implements the turn-signal policy, as the Zephyr node does.
THEOREM Refinement == Spec => ImplementsPolicy
<1>1. Init => Policy!Init
  BY DEF Init, Policy!Init, Lit, IsOn, Indicators, LampFunctions
<1>2. IInv /\ [Next]_vars => [Policy!Next]_(Policy!vars)
  BY EveryStep DEF PolicyStep
<1> QED
  BY <1>1, <1>2, Invariance, PTL DEF Spec, ImplementsPolicy, Policy!Spec
=============================================================================
