------------------------- MODULE ZonalLightingProofs -------------------------
(***************************************************************************)
(* Theorems about ZonalLighting, for every set of environments: any number *)
(* of requests, any counter width, queues of any length.                   *)
(*                                                                         *)
(* The invariant ZInv follows a hazard request from the operator to the    *)
(* lamp.  Hazard commands wait in to_node in the order of their requests   *)
(* (OrderInv), each with the counter of its request (CounterInv).          *)
(*                                                                         *)
(* More invariants rest on it and on the exact effect of a command:        *)
(* CacheInv (the last event of a lamp is under way or caught), AskedInv (a *)
(* command nobody asked for follows its hazard command) and, where the     *)
(* caches are true, ToldInv for an operator who awaits the answer to a     *)
(* hazard command (one at most is under way, and says what it will do) and *)
(* PatienceInv for one who awaits rest (what is under way answers the last *)
(* request).                                                               *)
(***************************************************************************)
EXTENDS ZonalLighting, SequenceTheorems, TLAPS

Outputs == [LampFunctions -> OutputStates]
LampEvent == [function : LampFunctions, output : OutputStates]
Message == [command : LampCommand(SequenceCounters), press : Nat]
CacheType == [LampFunctions -> OutputStates \cup {"kUnknown"}]
Expectation == [hazard : BOOLEAN, lit : SUBSET Indicators, saved : SUBSET Indicators]
IsHazard(m) == m.command.function = "kHazardLamp"

Typing ==
  /\ environment \in Environments
  /\ operator \in CZC!OperatorPoints
  /\ lamp_command \in LampCommand(SequenceCounters)
  /\ decision \in Seq(LampCommand(SequenceCounters))
  /\ next_sequence_counter \in SequenceCounters
  /\ receiving \in LampEvent \cup {CZC!None}
  /\ cached_lamp_statuses \in CacheType /\ lamp_status_cache \in CacheType
  /\ lamp_output \in Outputs /\ faulted = {}
  /\ last_hazard_sequence \in SequenceCounters
  /\ active_indicator_before_hazard \in Indicators \cup {"kUnknown"}
  /\ sent \in Seq(LampEvent)
  /\ to_node \in Seq(Message) /\ to_czc \in Seq(LampEvent)
  /\ presses \in Nat /\ hazard_press \in Nat /\ node_starts \in Nat
  /\ {patient, informed, orphans} \subseteq BOOLEAN
  /\ expected \in Expectation
  /\ presses <= environment.presses /\ node_starts <= environment.node_restarts

\* Node and controller are instances: each has the domain's definitions as its own.
LEMMA SameDomain ==
  /\ Node!LampFunctions = LampFunctions /\ CZC!LampFunctions = LampFunctions
  /\ Node!Indicators = Indicators /\ CZC!Indicators = Indicators
  /\ Node!LampCommandActions = LampCommandActions
  /\ CZC!LampCommandActions = LampCommandActions
  /\ Node!OutputStates = OutputStates /\ CZC!OutputStates = OutputStates
  /\ \A f : Node!Opposite(f) = Opposite(f) /\ CZC!Opposite(f) = Opposite(f)
  /\ \A out, action : Node!Resolve(out, action) = Resolve(out, action)
  /\ \A is_faulted, out, action :
       Node!OutputAfter(is_faulted, out, action) = OutputAfter(is_faulted, out, action)
<1>1. /\ Node!LampFunctions = LampFunctions /\ CZC!LampFunctions = LampFunctions
      /\ Node!Indicators = Indicators /\ CZC!Indicators = Indicators
      /\ Node!LampCommandActions = LampCommandActions
      /\ CZC!LampCommandActions = LampCommandActions
      /\ Node!OutputStates = OutputStates /\ CZC!OutputStates = OutputStates
  BY DEF LampFunctions, Node!LampFunctions, CZC!LampFunctions, Indicators, Node!Indicators,
     CZC!Indicators, LampCommandActions, Node!LampCommandActions, CZC!LampCommandActions,
     OutputStates, Node!OutputStates, CZC!OutputStates
<1>2. \A f : Node!Opposite(f) = Opposite(f) /\ CZC!Opposite(f) = Opposite(f)
  BY DEF Node!Opposite, CZC!Opposite, Opposite
<1>3. \A out, action : Node!Resolve(out, action) = Resolve(out, action)
  BY DEF Node!Resolve, Resolve
<1>4. \A is_faulted, out, action :
        Node!OutputAfter(is_faulted, out, action) = OutputAfter(is_faulted, out, action)
  BY DEF Node!OutputAfter, OutputAfter, Node!Refuses, Refuses, Node!Resolve, Resolve
<1> QED
  BY <1>1, <1>2, <1>3, <1>4

-----------------------------------------------------------------------------
(* The node: what one command does to its hazard lamp. *)

LEMMA ApplyOne ==
  faulted = {} =>
    \A o \in Outputs, g \in LampFunctions, a \in LampCommandActions :
      /\ Node!Apply(o, g, a) \in Outputs
      /\ \A f \in LampFunctions : f # g => Node!Apply(o, g, a)[f] = o[f]
      /\ a = "kActivate" => Node!Apply(o, g, a)[g] = "kOn"
      /\ a = "kDeactivate" => Node!Apply(o, g, a)[g] = "kOff"
<1> SUFFICES ASSUME faulted = {},
                    NEW o \in Outputs, NEW g \in LampFunctions, NEW a \in LampCommandActions
             PROVE  /\ Node!Apply(o, g, a) \in Outputs
                    /\ \A f \in LampFunctions : f # g => Node!Apply(o, g, a)[f] = o[f]
                    /\ a = "kActivate" => Node!Apply(o, g, a)[g] = "kOn"
                    /\ a = "kDeactivate" => Node!Apply(o, g, a)[g] = "kOff"
  OBVIOUS
<1>1. /\ OutputAfter(g \in faulted, o[g], a) \in OutputStates
      /\ a = "kActivate" => OutputAfter(g \in faulted, o[g], a) = "kOn"
      /\ a = "kDeactivate" => OutputAfter(g \in faulted, o[g], a) = "kOff"
  BY DEF Outputs, OutputStates, LampCommandActions, OutputAfter, Refuses, Resolve
<1> QED
  BY <1>1, SameDomain DEF Node!Apply, Outputs

LEMMA SendType ==
  ASSUME NEW fs \in Seq(LampFunctions), Node!Send(fs), lamp_output' \in Outputs
  PROVE  sent' \in Seq(LampEvent)
<1>1. DOMAIN fs = 1 .. Len(fs) /\ Len(fs) \in Nat
  OBVIOUS
<1>2. \A i \in 1 .. Len(fs) : fs[i] \in LampFunctions
  OBVIOUS
<1>3. \A i \in 1 .. Len(fs) : [function |-> fs[i], output |-> lamp_output'[fs[i]]] \in LampEvent
  BY <1>2 DEF Outputs, LampEvent
<1> QED
  BY <1>1, <1>3 DEF Node!Send

NodeTyping ==
  /\ lamp_output' \in Outputs /\ faulted' = {}
  /\ last_hazard_sequence' \in SequenceCounters
  /\ active_indicator_before_hazard' \in Indicators \cup {"kUnknown"}
  /\ sent' \in Seq(LampEvent)

\* Every hazard command changes the hazard lamp and is recorded; no other command
\* touches the lamp or the record.
HazardEffect(c) ==
  IF c.function = "kHazardLamp"
  THEN lamp_output'["kHazardLamp"] # lamp_output["kHazardLamp"]
         /\ last_hazard_sequence' = c.sequence_counter
  ELSE lamp_output'["kHazardLamp"] = lamp_output["kHazardLamp"]
         /\ last_hazard_sequence' = last_hazard_sequence

LEMMA HazardCommand ==
  ASSUME Typing, NEW c \in LampCommand(SequenceCounters),
         Node!HazardOn(c) \/ Node!HazardOffRestore(c) \/ Node!HazardOffClear(c)
  PROVE  NodeTyping /\ HazardEffect(c)
<1>1. /\ c.function = "kHazardLamp" /\ c.sequence_counter \in SequenceCounters
      /\ faulted = {} /\ lamp_output \in Outputs
      /\ faulted' = {} /\ last_hazard_sequence' = c.sequence_counter
  BY DEF LampCommand, Typing, Node!HazardOn, Node!HazardOffRestore, Node!HazardOffClear,
         Node!RecordHazard
<1>2. /\ "kHazardLamp" \in LampFunctions /\ "kLeftIndicator" \in LampFunctions
      /\ "kRightIndicator" \in LampFunctions
      /\ "kActivate" \in LampCommandActions /\ "kDeactivate" \in LampCommandActions
      /\ faulted = {}
  BY <1>1 DEF LampFunctions, LampCommandActions
<1>3. CASE Node!HazardOn(c)
  <2>1. lamp_output' = Node!Apply(lamp_output, "kHazardLamp", "kActivate")
        /\ Node!Send(<<"kHazardLamp">>) /\ lamp_output["kHazardLamp"] # "kOn"
    BY <1>3 DEF Node!HazardOn, Node!IsOn
  <2>2. lamp_output' \in Outputs /\ lamp_output'["kHazardLamp"] = "kOn"
    BY <1>1, <1>2, <2>1, ApplyOne DEF Outputs
  <2>3. active_indicator_before_hazard' \in Indicators \cup {"kUnknown"}
    BY <1>3, SameDomain DEF Node!HazardOn, Node!Lit, Indicators
  <2>4. <<"kHazardLamp">> \in Seq(LampFunctions)
    BY <1>2
  <2>5. sent' \in Seq(LampEvent)
    BY <2>1, <2>2, <2>4, SendType
  <2> QED
    BY <1>1, <2>1, <2>2, <2>3, <2>5 DEF NodeTyping, HazardEffect
<1>4. CASE Node!HazardOffRestore(c)
  <2> DEFINE saved == active_indicator_before_hazard
             off == Node!Apply(lamp_output, "kHazardLamp", "kDeactivate")
             restored == Node!Apply(off, saved, "kActivate")
  <2>1. /\ saved \in Indicators /\ Opposite(saved) \in Indicators
        /\ lamp_output["kHazardLamp"] = "kOn"
        /\ lamp_output' = Node!Apply(restored, Opposite(saved), "kDeactivate")
        /\ Node!Send(<<saved, Opposite(saved), "kHazardLamp">>)
        /\ active_indicator_before_hazard' = "kUnknown"
    BY <1>4, SameDomain DEF Typing, Node!HazardOffRestore, Node!IsOn, Opposite, Indicators
  <2>2. /\ {saved, Opposite(saved)} \subseteq LampFunctions
        /\ "kHazardLamp" \notin {saved, Opposite(saved)}
    BY <2>1 DEF Indicators, LampFunctions
  <2>3. off \in Outputs /\ off["kHazardLamp"] = "kOff"
    BY <1>1, <1>2, ApplyOne DEF Outputs
  <2> HIDE DEF off
  <2>4. restored \in Outputs /\ restored["kHazardLamp"] = "kOff"
    BY <1>1, <1>2, <2>2, <2>3, ApplyOne DEF Outputs
  <2> HIDE DEF restored
  <2>5. lamp_output' \in Outputs /\ lamp_output'["kHazardLamp"] = "kOff"
    BY <1>1, <1>2, <2>1, <2>2, <2>4, ApplyOne DEF Outputs
  <2>6. <<saved, Opposite(saved), "kHazardLamp">> \in Seq(LampFunctions)
    BY <1>2, <2>2
  <2>7. sent' \in Seq(LampEvent)
    BY <2>1, <2>5, <2>6, SendType
  <2> QED
    BY <1>1, <2>1, <2>5, <2>7 DEF NodeTyping, HazardEffect
<1>5. CASE Node!HazardOffClear(c)
  <2> DEFINE off == Node!Apply(lamp_output, "kHazardLamp", "kDeactivate")
             left == Node!Apply(off, "kLeftIndicator", "kDeactivate")
  <2>1. /\ lamp_output["kHazardLamp"] = "kOn"
        /\ lamp_output' = Node!Apply(left, "kRightIndicator", "kDeactivate")
        /\ Node!Send(<<"kLeftIndicator", "kRightIndicator", "kHazardLamp">>)
        /\ active_indicator_before_hazard' = "kUnknown"
    BY <1>5 DEF Node!HazardOffClear, Node!IsOn
  <2>2. off \in Outputs /\ off["kHazardLamp"] = "kOff"
    BY <1>1, <1>2, ApplyOne DEF Outputs
  <2> HIDE DEF off
  <2>3. left \in Outputs /\ left["kHazardLamp"] = "kOff"
    BY <1>1, <1>2, <2>2, ApplyOne DEF Outputs
  <2> HIDE DEF left
  <2>4. lamp_output' \in Outputs /\ lamp_output'["kHazardLamp"] = "kOff"
    <3>1. lamp_output' = Node!Apply(left, "kRightIndicator", "kDeactivate")
      BY <2>1
    <3>2. /\ Node!Apply(left, "kRightIndicator", "kDeactivate") \in Outputs
          /\ Node!Apply(left, "kRightIndicator", "kDeactivate")["kHazardLamp"]
                = left["kHazardLamp"]
      BY <1>2, <2>3, ApplyOne DEF Outputs
    <3> QED
      BY <3>1, <3>2, <2>3
  <2>5. <<"kLeftIndicator", "kRightIndicator", "kHazardLamp">> \in Seq(LampFunctions)
    BY <1>2
  <2>6. sent' \in Seq(LampEvent)
    BY <2>1, <2>4, <2>5, SendType
  <2> QED
    BY <1>1, <2>1, <2>4, <2>6 DEF NodeTyping, HazardEffect
<1> QED
  BY <1>3, <1>4, <1>5

LEMMA OtherCommand ==
  ASSUME Typing, NEW c \in LampCommand(SequenceCounters),
         Node!DropIndicator(c) \/ Node!ApplyIndicator(c) \/ Node!ApplyOther(c)
  PROVE  NodeTyping /\ HazardEffect(c)
<1> DEFINE f == c.function
<1>1. /\ f # "kHazardLamp" /\ c.action \in LampCommandActions
      /\ faulted = {} /\ faulted' = {} /\ lamp_output \in Outputs
      /\ last_hazard_sequence' = last_hazard_sequence
      /\ active_indicator_before_hazard' = active_indicator_before_hazard
  BY SameDomain DEF LampCommand, Typing, Indicators, Node!DropIndicator,
     Node!ApplyIndicator, Node!ApplyOther
<1>2. CASE Node!DropIndicator(c)
  BY <1>1, <1>2 DEF Typing, NodeTyping, HazardEffect, Node!DropIndicator
<1>3. CASE Node!ApplyIndicator(c)
  <2> DEFINE o == Opposite(f)
             a == Resolve(lamp_output[f], c.action)
             exchange == a = "kActivate" /\ Node!IsOn(o)
             start == IF exchange THEN Node!Apply(lamp_output, o, "kDeactivate")
                      ELSE lamp_output
  <2>1. /\ f \in LampFunctions /\ o \in LampFunctions /\ o # "kHazardLamp"
        /\ "kHazardLamp" \in LampFunctions /\ "kDeactivate" \in LampCommandActions
    BY <1>3, SameDomain
       DEF Node!ApplyIndicator, Opposite, Indicators, LampFunctions, LampCommandActions
  <2>2. a \in LampCommandActions
    BY <1>1 DEF Resolve, LampCommandActions
  <2>3. lamp_output' = Node!Apply(start, f, a) /\ Node!Send(Node!IndicatorEvents(f, exchange))
    BY <1>3, SameDomain DEF Node!ApplyIndicator
  <2>4. start \in Outputs /\ start["kHazardLamp"] = lamp_output["kHazardLamp"]
    BY <1>1, <2>1, ApplyOne DEF Outputs
  <2> HIDE DEF start, a, exchange
  <2>5. lamp_output' \in Outputs /\ lamp_output'["kHazardLamp"] = lamp_output["kHazardLamp"]
    BY <1>1, <2>1, <2>2, <2>3, <2>4, ApplyOne DEF Outputs
  <2>6. Node!IndicatorEvents(f, exchange) \in Seq(LampFunctions)
    BY <2>1, SameDomain DEF Node!IndicatorEvents
  <2>7. sent' \in Seq(LampEvent)
    BY <2>3, <2>5, <2>6, SendType
  <2> QED
    BY <1>1, <2>5, <2>7 DEF Typing, NodeTyping, HazardEffect
<1>4. CASE Node!ApplyOther(c)
  <2> DEFINE ok == f # "kUnknown" /\ Node!ApplySucceeds(f \in faulted, lamp_output[f], c.action)
  <2>1. /\ f \in {"kParkLamp", "kHeadLamp", "kUnknown"}
        /\ lamp_output' = IF ok THEN Node!Apply(lamp_output, f, c.action) ELSE lamp_output
        /\ Node!Send(IF ok THEN <<f>> ELSE << >>)
    BY <1>4 DEF Node!ApplyOther
  <2>2. "kHazardLamp" \in LampFunctions /\ (ok => f \in LampFunctions)
    BY <2>1 DEF LampFunctions
  <2> HIDE DEF ok
  <2>3. lamp_output' \in Outputs /\ lamp_output'["kHazardLamp"] = lamp_output["kHazardLamp"]
    BY <1>1, <2>1, <2>2, ApplyOne DEF Outputs
  <2>4. (IF ok THEN <<f>> ELSE << >>) \in Seq(LampFunctions)
    BY <2>2
  <2>5. sent' \in Seq(LampEvent)
    BY <2>1, <2>3, <2>4, SendType
  <2> QED
    BY <1>1, <2>3, <2>5 DEF Typing, NodeTyping, HazardEffect
<1> QED
  BY <1>2, <1>3, <1>4

LEMMA NodeCommand ==
  ASSUME Typing, NEW c \in LampCommand(SequenceCounters), Node!OnTransportMessageReceived(c)
  PROVE  NodeTyping /\ HazardEffect(c)
  BY HazardCommand, OtherCommand DEF Node!OnTransportMessageReceived

-----------------------------------------------------------------------------
(* The queue of commands. *)

LEMMA QueueKept ==
  ASSUME to_node \in Seq(Message), outgoing' = << >>,
         to_node' = to_node \o [i \in DOMAIN outgoing' |->
                                 [command |-> outgoing'[i], press |-> presses]]
  PROVE  to_node' = to_node
<1>1. [i \in DOMAIN outgoing' |-> [command |-> outgoing'[i], press |-> presses]] = << >>
  OBVIOUS
<1> QED
  BY <1>1, ConcatEmptySeq

LEMMA QueueGrows ==
  ASSUME to_node \in Seq(Message), presses \in Nat,
         NEW c \in LampCommand(SequenceCounters), outgoing' = <<c>>,
         to_node' = to_node \o [i \in DOMAIN outgoing' |->
                                 [command |-> outgoing'[i], press |-> presses]]
  PROVE  /\ to_node' \in Seq(Message)
         /\ Len(to_node') = Len(to_node) + 1
         /\ \A i \in 1 .. Len(to_node) : to_node'[i] = to_node[i]
         /\ to_node'[Len(to_node) + 1] = [command |-> c, press |-> presses]
<1> DEFINE m == [command |-> c, press |-> presses]
<1>1. m \in Message
  BY DEF Message
<1>2. [i \in DOMAIN outgoing' |-> [command |-> outgoing'[i], press |-> presses]] = <<m>>
  OBVIOUS
<1>3. to_node' = Append(to_node, m)
  BY <1>1, <1>2, AppendIsConcat
<1> QED
  BY <1>1, <1>3, AppendProperties

LEMMA QueueShrinks ==
  ASSUME to_node \in Seq(Message), to_node # << >>, to_node' = Tail(to_node)
  PROVE  /\ to_node' \in Seq(Message) /\ Len(to_node) \in Nat \ {0}
         /\ Len(to_node') = Len(to_node) - 1
         /\ \A i \in 1 .. Len(to_node') : to_node'[i] = to_node[i + 1]
         /\ Head(to_node) = to_node[1] /\ Head(to_node) \in Message
  BY HeadTailProperties, EmptySeq

-----------------------------------------------------------------------------
(* The controller: what arbitration makes of a command. *)

\* The commands of a decision carry the counter of the request, and only the first
\* of a hazard request is a hazard command.
DecisionOf(d, c) ==
  \A i \in 1 .. Len(d) :
    /\ d[i].sequence_counter = c.sequence_counter
    /\ d[i].function = "kHazardLamp" => i = 1 /\ c.function = "kHazardLamp"

LEMMA DerivedType ==
  ASSUME NEW c \in LampCommand(SequenceCounters), NEW f \in LampFunctions,
         NEW a \in LampCommandActions
  PROVE  /\ CZC!MakeDerived(c, f, a) \in LampCommand(SequenceCounters)
         /\ CZC!MakeDerived(c, f, a).function = f
         /\ CZC!MakeDerived(c, f, a).sequence_counter = c.sequence_counter
  BY DEF CZC!MakeDerived, LampCommand

LEMMA FanoutDecision ==
  ASSUME NEW c \in LampCommand(SequenceCounters), NEW ctx, c.function = "kHazardLamp"
  PROVE  /\ CZC!HazardFanout(c, ctx) \in Seq(LampCommand(SequenceCounters))
         /\ CZC!HazardFanout(c, ctx) # << >>
         /\ CZC!HazardFanout(c, ctx)[1].function = "kHazardLamp"
         /\ DecisionOf(CZC!HazardFanout(c, ctx), c)
<1> DEFINE a == CZC!ResolveHazardAction(c, ctx)
           D(f) == CZC!MakeDerived(c, f, a)
           d == CZC!HazardFanout(c, ctx)
<1>1. a \in LampCommandActions
  BY DEF CZC!ResolveHazardAction, LampCommand, LampCommandActions
<1>2. \A f \in LampFunctions :
        /\ D(f) \in LampCommand(SequenceCounters) /\ D(f).function = f
        /\ D(f).sequence_counter = c.sequence_counter
  BY <1>1, DerivedType
<1>3. /\ "kHazardLamp" \in LampFunctions /\ "kLeftIndicator" \in LampFunctions
      /\ "kRightIndicator" \in LampFunctions
  BY DEF LampFunctions
<1>4. d = <<D("kHazardLamp"), D("kLeftIndicator"), D("kRightIndicator")>>
  BY DEF CZC!HazardFanout
<1> HIDE DEF a, D, d
<1>5. /\ d \in Seq(LampCommand(SequenceCounters)) /\ Len(d) = 3 /\ d # << >>
      /\ d[1] = D("kHazardLamp") /\ d[2] = D("kLeftIndicator") /\ d[3] = D("kRightIndicator")
  BY <1>2, <1>3, <1>4
<1>6. DecisionOf(d, c)
  <2> SUFFICES ASSUME NEW i \in 1 .. Len(d)
               PROVE  /\ d[i].sequence_counter = c.sequence_counter
                      /\ d[i].function = "kHazardLamp" => i = 1 /\ c.function = "kHazardLamp"
    BY DEF DecisionOf
  <2>1. i = 1 \/ i = 2 \/ i = 3
    BY <1>5
  <2> QED
    BY <1>2, <1>3, <1>5, <2>1
<1> QED
  BY <1>2, <1>3, <1>5, <1>6 DEF d

LEMMA ExchangeDecision ==
  ASSUME NEW c \in LampCommand(SequenceCounters), c.function \in Indicators
  PROVE  /\ CZC!Exchange(c) \in Seq(LampCommand(SequenceCounters))
         /\ DecisionOf(CZC!Exchange(c), c)
<1> DEFINE first == CZC!MakeDerived(c, Opposite(c.function), "kDeactivate")
           second == [c EXCEPT !.action = "kActivate"]
           d == CZC!Exchange(c)
<1>1. /\ Opposite(c.function) \in LampFunctions /\ Opposite(c.function) # "kHazardLamp"
      /\ "kDeactivate" \in LampCommandActions
  BY DEF Opposite, LampFunctions, LampCommandActions
<1>2. /\ first \in LampCommand(SequenceCounters) /\ first.function # "kHazardLamp"
      /\ first.sequence_counter = c.sequence_counter
  BY <1>1, DerivedType
<1>3. /\ second \in LampCommand(SequenceCounters) /\ second.function = c.function
      /\ second.sequence_counter = c.sequence_counter
  BY DEF LampCommand, LampCommandActions
<1>4. d = <<first, second>>
  BY SameDomain DEF CZC!Exchange
<1> HIDE DEF first, second, d
<1>5. /\ d \in Seq(LampCommand(SequenceCounters)) /\ Len(d) = 2
      /\ d[1] = first /\ d[2] = second
  BY <1>2, <1>3, <1>4
<1>6. DecisionOf(d, c)
  <2> SUFFICES ASSUME NEW i \in 1 .. Len(d)
               PROVE  /\ d[i].sequence_counter = c.sequence_counter
                      /\ d[i].function # "kHazardLamp"
    BY DEF DecisionOf
  <2>1. i = 1 \/ i = 2
    BY <1>5
  <2>2. c.function # "kHazardLamp"
    BY DEF Indicators
  <2> QED
    BY <1>2, <1>3, <1>5, <2>1, <2>2
<1> QED
  BY <1>5, <1>6 DEF d

LEMMA Arbitration ==
  ASSUME NEW c \in LampCommand(SequenceCounters), NEW ctx
  PROVE  /\ CZC!Arbitrate(c, ctx) \in Seq(LampCommand(SequenceCounters))
         /\ DecisionOf(CZC!Arbitrate(c, ctx), c)
         /\ c.function = "kHazardLamp" /\ c.action # "kNoAction" =>
              /\ CZC!Arbitrate(c, ctx) # << >>
              /\ CZC!Arbitrate(c, ctx)[1].function = "kHazardLamp"
<1> DEFINE d == CZC!Arbitrate(c, ctx)
<1>1. CASE d = << >> /\ ~(c.function = "kHazardLamp" /\ c.action # "kNoAction")
  BY <1>1 DEF DecisionOf
<1>2. CASE c.function = "kHazardLamp" /\ c.action # "kNoAction"
  <2>1. d = CZC!HazardFanout(c, ctx)
    BY <1>2 DEF CZC!Arbitrate, CZC!IsIndicatorActivationCommand, CZC!Indicators
  <2> QED
    BY <1>2, <2>1, FanoutDecision
<1>3. CASE d = CZC!Exchange(c) /\ c.function \in Indicators
  <2>1. c.function # "kHazardLamp"
    BY <1>3 DEF Indicators
  <2> QED
    BY <1>3, <2>1, ExchangeDecision
<1>4. CASE d = <<c>> /\ c.function # "kHazardLamp"
  <2>1. d \in Seq(LampCommand(SequenceCounters)) /\ Len(d) = 1 /\ d[1] = c
    BY <1>4
  <2>2. DecisionOf(d, c)
    BY <1>4, <2>1 DEF DecisionOf
  <2> QED
    BY <1>4, <2>1, <2>2
<1> QED
  <2>1. \/ d = << >> /\ ~(c.function = "kHazardLamp" /\ c.action # "kNoAction")
        \/ c.function = "kHazardLamp" /\ c.action # "kNoAction"
        \/ d = CZC!Exchange(c) /\ c.function \in Indicators
        \/ d = <<c>> /\ c.function # "kHazardLamp"
    BY SameDomain DEF CZC!Arbitrate, CZC!IsIndicatorActivationCommand, Indicators
  <2> QED
    BY <1>1, <1>2, <1>3, <1>4, <2>1

-----------------------------------------------------------------------------
(* Typing. *)

LEMMA EnvironmentTypes ==
  ASSUME Typing
  PROVE  /\ environment.presses \in Nat /\ environment.node_restarts \in Nat
         /\ \A r \in environment.requests :
              r.function \in LampFunctions /\ r.action \in LampCommandActions
  BY EnvironmentsAssumption DEF Typing

LEMMA CounterTypes ==
  /\ CZC!FirstSequenceCounter \in SequenceCounters /\ 0 \in SequenceCounters
  /\ \A n \in SequenceCounters : CZC!NextSequenceCounter(n) \in SequenceCounters
<1>1. CZC!FirstSequenceCounter \in SequenceCounters /\ 0 \in SequenceCounters
  BY ModulusAssumption DEF CZC!FirstSequenceCounter, SequenceCounters
<1>2. ASSUME NEW n \in SequenceCounters
      PROVE  CZC!NextSequenceCounter(n) \in SequenceCounters
  BY ModulusAssumption DEF CZC!NextSequenceCounter, SequenceCounters
<1> QED
  BY <1>1, <1>2

LEMMA StartTypes ==
  /\ CZC!Start.operator = "idle" /\ CZC!Start.decision = << >>
  /\ CZC!Start.next_sequence_counter = 1
  /\ CZC!Start.lamp_command \in LampCommand(SequenceCounters)
  /\ CZC!Start.receiving = CZC!None /\ CZC!Start.cache \in CacheType
  BY CounterTypes, SameDomain
     DEF CZC!Start, CZC!NoCommand, LampCommand, LampCommandActions, CacheType,
         CZC!FirstSequenceCounter

LEMMA InitTyping ==
  ASSUME Init
  PROVE  Typing
<1>1. environment \in Environments /\ environment.presses \in Nat
      /\ environment.node_restarts \in Nat
  BY EnvironmentsAssumption DEF Init
<1>2. /\ operator \in CZC!OperatorPoints /\ lamp_command \in LampCommand(SequenceCounters)
      /\ decision \in Seq(LampCommand(SequenceCounters))
      /\ next_sequence_counter \in SequenceCounters
      /\ receiving \in LampEvent \cup {CZC!None}
      /\ cached_lamp_statuses \in CacheType /\ lamp_status_cache \in CacheType
  BY StartTypes, CounterTypes
     DEF Init, CZC!Init, CZC!OperatorPoints, CZC!FirstSequenceCounter
<1>3. /\ lamp_output \in Outputs /\ faulted = {}
      /\ last_hazard_sequence \in SequenceCounters
      /\ active_indicator_before_hazard \in Indicators \cup {"kUnknown"}
      /\ sent \in Seq(LampEvent)
  BY CounterTypes, SameDomain DEF Init, Node!Init, Outputs, OutputStates
<1>4. /\ to_node \in Seq(Message) /\ to_czc \in Seq(LampEvent)
      /\ presses = 0 /\ hazard_press = 0 /\ node_starts = 0
  BY DEF Init
<1>6. {patient, informed, orphans} \subseteq BOOLEAN
  BY DEF Init
<1>5. expected \in Expectation
  BY DEF Init, Expectation
<1> QED
  BY <1>1, <1>2, <1>3, <1>4, <1>5, <1>6 DEF Typing

\* What the controller's steps leave alone.
NodeQuiet ==
  /\ UNCHANGED node /\ sent' = << >>
  /\ UNCHANGED <<environment, node_history>>

LEMMA QuietNodeTypes ==
  ASSUME Typing, NodeQuiet
  PROVE  /\ environment' \in Environments
         /\ lamp_output' \in Outputs /\ faulted' = {}
         /\ last_hazard_sequence' \in SequenceCounters
         /\ active_indicator_before_hazard' \in Indicators \cup {"kUnknown"}
         /\ sent' \in Seq(LampEvent)
         /\ hazard_press' \in Nat /\ node_starts' \in Nat /\ orphans' \in BOOLEAN
         /\ node_starts' <= environment'.node_restarts
  BY DEF Typing, NodeQuiet, node, node_history

LEMMA PressTypes ==
  ASSUME Typing, NEW request \in environment.requests, Press(request), NodeQuiet
  PROVE  Typing'
<1>1. lamp_command' \in LampCommand(SequenceCounters)
  BY EnvironmentTypes, SameDomain DEF Typing, Press, CZC!SendLampCommand, LampCommand
<1>2. /\ operator' \in CZC!OperatorPoints /\ decision' = decision
      /\ next_sequence_counter' \in SequenceCounters
      /\ UNCHANGED <<receiving, cached_lamp_statuses, lamp_status_cache>>
  BY CounterTypes DEF Typing, Press, CZC!SendLampCommand, CZC!OperatorPoints, CZC!caches
<1>3. /\ presses' \in Nat /\ presses' <= environment'.presses
      /\ {patient', informed'} \subseteq BOOLEAN /\ UNCHANGED <<to_node, to_czc>>
  BY EnvironmentTypes DEF Typing, Press, NodeQuiet, link, AtRest, HazardAtRest
<1>4. expected' \in Expectation
  BY DEF Typing, Press, Answer, Expectation
<1> QED
  BY <1>1, <1>2, <1>3, <1>4, QuietNodeTypes DEF Typing, NodeQuiet

LEMMA OperatorThreadTypes ==
  ASSUME Typing, operator = "send" => decision # << >>, OperatorThread, NodeQuiet
  PROVE  Typing'
<1>1. /\ UNCHANGED <<lamp_command, next_sequence_counter, receiving, cached_lamp_statuses,
                     lamp_status_cache, to_czc, presses, patient, informed, expected,
                     environment>>
      /\ operator' \in CZC!OperatorPoints
  BY DEF OperatorThread, CZC!OperatorStep, CZC!ReadContext, CZC!Decide, CZC!SendNext,
         CZC!caches, CZC!OperatorPoints, history, operator_history, NodeQuiet
<1>2. CASE CZC!OperatorStep
  <2>1. to_node' = to_node
    BY <1>2, QueueKept
       DEF Typing, OperatorThread, CZC!OperatorStep, CZC!ReadContext, CZC!Decide
  <2>2. decision' \in Seq(LampCommand(SequenceCounters))
    BY <1>2, Arbitration DEF Typing, CZC!OperatorStep, CZC!ReadContext, CZC!Decide
  <2> QED
    BY <1>1, <2>1, <2>2, QuietNodeTypes DEF Typing
<1>3. ASSUME NEW accepted \in BOOLEAN, CZC!SendNext(accepted), decision # << >>
      PROVE  Typing'
  <2>1. Head(decision) \in LampCommand(SequenceCounters) /\ outgoing' = <<Head(decision)>>
    BY <1>3, HeadTailProperties DEF Typing, CZC!SendNext
  <2>2. to_node' \in Seq(Message)
    BY <2>1, QueueGrows DEF Typing, OperatorThread
  <2>3. decision' \in Seq(LampCommand(SequenceCounters))
    BY <1>3, HeadTailProperties DEF Typing, CZC!SendNext
  <2> QED
    BY <1>1, <2>2, <2>3, QuietNodeTypes DEF Typing
<1>4. environment.answers \subseteq BOOLEAN
  BY EnvironmentsAssumption DEF Typing
<1> QED
  BY <1>2, <1>3, <1>4 DEF OperatorThread, CZC!SendNext

LEMMA ReceiveTypes ==
  ASSUME Typing, Receive \/ FinishReceiving, NodeQuiet
  PROVE  Typing'
<1>1. /\ UNCHANGED <<operator, lamp_command, decision, next_sequence_counter, to_node,
                     presses, patient, informed, expected, environment>>
  BY DEF Receive, FinishReceiving, CZC!OnLampStatusReceived, CZC!UpdateLampStatus,
         CZC!operator_thread, history, operator_history, NodeQuiet, link
<1>2. CASE Receive
  <2>1. Head(to_czc) \in LampEvent /\ to_czc' \in Seq(LampEvent)
    BY <1>2, HeadTailProperties DEF Receive, Typing
  <2>2. receiving' \in LampEvent \cup {CZC!None} /\ lamp_status_cache' = lamp_status_cache
    BY <1>2, <2>1 DEF Receive, CZC!OnLampStatusReceived
  <2>3. cached_lamp_statuses' \in CacheType
    BY <1>2, <2>1 DEF Typing, Receive, CZC!OnLampStatusReceived, LampEvent, CacheType
  <2> QED
    BY <1>1, <2>1, <2>2, <2>3, QuietNodeTypes DEF Typing
<1>3. CASE FinishReceiving
  <2>1. receiving \in LampEvent
    BY <1>3 DEF Typing, FinishReceiving, CZC!UpdateLampStatus
  <2>2. lamp_status_cache' \in CacheType
    BY <1>3, <2>1 DEF Typing, FinishReceiving, CZC!UpdateLampStatus, LampEvent, CacheType
  <2>3. /\ receiving' = CZC!None /\ cached_lamp_statuses' = cached_lamp_statuses
        /\ to_czc' = to_czc
    BY <1>3 DEF FinishReceiving, CZC!UpdateLampStatus, link
  <2> QED
    BY <1>1, <2>2, <2>3, QuietNodeTypes DEF Typing
<1> QED
  BY <1>2, <1>3

LEMMA RestartTypes ==
  ASSUME Typing, Restart, NodeQuiet
  PROVE  Typing'
<1>1. /\ UNCHANGED <<to_node, presses, patient, informed, expected, environment>>
      /\ to_czc' = to_czc \/ to_czc' = << >>
  BY DEF Restart, history, operator_history, NodeQuiet
<1>3. to_czc' \in Seq(LampEvent)
  <2>1. to_czc \in Seq(LampEvent)
    BY DEF Typing
  <2>2. << >> \in Seq(LampEvent)
    BY EmptySeq
  <2> QED
    BY <1>1, <2>1, <2>2
<1>2. /\ operator' \in CZC!OperatorPoints /\ lamp_command' \in LampCommand(SequenceCounters)
      /\ decision' \in Seq(LampCommand(SequenceCounters))
      /\ next_sequence_counter' \in SequenceCounters
      /\ receiving' \in LampEvent \cup {CZC!None}
      /\ cached_lamp_statuses' \in CacheType /\ lamp_status_cache' \in CacheType
  BY StartTypes, CounterTypes
     DEF Restart, CZC!Restart, CZC!OperatorPoints, CZC!FirstSequenceCounter
<1> QED
  BY <1>1, <1>2, <1>3, QuietNodeTypes DEF Typing

LEMMA NodeStepTypes ==
  ASSUME Typing, NodeStep, UNCHANGED environment
  PROVE  Typing' /\ HazardEffect(Head(to_node).command)
<1> DEFINE m == Head(to_node)
<1>1. m \in Message /\ to_node' \in Seq(Message)
  BY HeadTailProperties DEF Typing, NodeStep
<1>2. m.command \in LampCommand(SequenceCounters) /\ m.press \in Nat
  BY <1>1 DEF Message
<1>3. NodeTyping /\ HazardEffect(m.command)
  BY <1>2, NodeCommand DEF NodeStep
<1>4. to_czc' \in Seq(LampEvent)
  BY <1>3, ConcatProperties DEF Typing, NodeTyping, NodeStep
<1>5. hazard_press' \in Nat
  BY <1>2 DEF Typing, NodeStep
<1>6. UNCHANGED <<operator, lamp_command, decision, next_sequence_counter, receiving,
                  cached_lamp_statuses, lamp_status_cache, presses, patient, informed, expected,
                  orphans, node_starts, environment>>
  BY DEF NodeStep, controller, operator_history
<1> QED
  BY <1>1, <1>3, <1>4, <1>5, <1>6 DEF Typing, NodeTyping

LEMMA RestartNodeTypes ==
  ASSUME Typing, RestartNode, UNCHANGED environment
  PROVE  Typing'
<1>1. UNCHANGED <<operator, lamp_command, decision, next_sequence_counter, receiving,
                  cached_lamp_statuses, lamp_status_cache, presses, patient, informed, expected,
                  hazard_press, to_czc, environment>>
  BY DEF RestartNode, controller, operator_history
<1>2. /\ lamp_output' \in Outputs /\ faulted' = {}
      /\ last_hazard_sequence' \in SequenceCounters
      /\ active_indicator_before_hazard' \in Indicators \cup {"kUnknown"}
      /\ sent' \in Seq(LampEvent)
  BY CounterTypes, SameDomain DEF RestartNode, Node!Restart, Outputs, OutputStates
<1>3. to_node' \in Seq(Message)
  <2>1. to_node' = to_node \/ to_node' = << >>
    BY DEF RestartNode
  <2>2. to_node \in Seq(Message)
    BY DEF Typing
  <2>3. << >> \in Seq(Message)
    BY EmptySeq
  <2> QED
    BY <2>1, <2>2, <2>3
<1>5. orphans' \in BOOLEAN
  BY DEF RestartNode
<1>4. node_starts' \in Nat /\ node_starts' <= environment'.node_restarts
  BY EnvironmentTypes DEF Typing, RestartNode
<1> QED
  BY <1>1, <1>2, <1>3, <1>4, <1>5 DEF Typing

LEMMA LoseTypes ==
  ASSUME Typing, Lose, UNCHANGED environment
  PROVE  Typing'
<1>1. UNCHANGED <<operator, lamp_command, decision, next_sequence_counter, receiving,
                  cached_lamp_statuses, lamp_status_cache, presses, patient, informed, expected,
                  hazard_press, node_starts, environment, lamp_output, faulted,
                  last_hazard_sequence, active_indicator_before_hazard>>
      /\ sent' = << >>
  BY DEF Lose, controller, node, operator_history
<1>2. /\ to_node' \in Seq(Message) /\ to_czc' \in Seq(LampEvent)
  BY HeadTailProperties DEF Typing, Lose, LoseCommand, LoseEvent
<1>3. orphans' \in BOOLEAN
  BY DEF Typing, Lose, LoseCommand, LoseEvent
<1> QED
  BY <1>1, <1>2, <1>3 DEF Typing

-----------------------------------------------------------------------------
(* The invariant: what is under way between the request and the lamp. *)

\* A request is being sent; what is left of it belongs to it.
DecisionInv ==
  /\ operator # "idle" => presses >= 1 /\ lamp_command.action # "kNoAction"
  /\ operator = "send" => decision # << >> /\ DecisionOf(decision, lamp_command)

\* The hazard command of the last request has still to be sent.
Unsent ==
  /\ operator # "idle" /\ lamp_command.function = "kHazardLamp"
  /\ operator = "send" => decision[1].function = "kHazardLamp"

\* Hazard commands wait in the order of their requests, each once, all of them later
\* than the last one handled.
OrderInv ==
  /\ hazard_press <= presses
  /\ \A i \in 1 .. Len(to_node) : to_node[i].press >= 1 /\ to_node[i].press <= presses
  /\ \A i \in 1 .. Len(to_node) : IsHazard(to_node[i]) => hazard_press < to_node[i].press
  /\ \A i, j \in 1 .. Len(to_node) :
       i < j /\ IsHazard(to_node[i]) /\ IsHazard(to_node[j]) =>
         to_node[i].press < to_node[j].press
  /\ Unsent => /\ hazard_press < presses
               /\ \A i \in 1 .. Len(to_node) :
                    IsHazard(to_node[i]) => to_node[i].press < presses

\* As long as the counter has not wrapped, it is the number of the request.
Counts == Counting /\ ~environment.czc_restarts

CounterInv ==
  Counts =>
    /\ presses + 1 < SequenceModulus => next_sequence_counter = presses + 1
    /\ operator # "idle" => lamp_command.sequence_counter = presses
    /\ \A i \in 1 .. Len(to_node) :
         to_node[i].command.sequence_counter = to_node[i].press
    /\ last_hazard_sequence = 0 \/ last_hazard_sequence = hazard_press

ZInv == Typing /\ DecisionInv /\ OrderInv /\ CounterInv

\* Steps that neither send, handle nor lose a command, nor begin a request.
Idle ==
  UNCHANGED <<environment, operator, lamp_command, decision, next_sequence_counter, to_node,
              presses, expected, hazard_press, last_hazard_sequence, lamp_output>>

LEMMA IdleStep ==
  ASSUME ZInv, Idle, Typing'
  PROVE  ZInv'
<1>1. DecisionInv' /\ (Unsent' <=> Unsent)
  BY DEF ZInv, Idle, DecisionInv, DecisionOf, Unsent
<1>2. OrderInv'
  BY <1>1 DEF ZInv, Idle, OrderInv, IsHazard
<1>3. CounterInv'
  BY DEF ZInv, Idle, CounterInv, Counts, Counting
<1> QED
  BY <1>1, <1>2, <1>3 DEF ZInv

LEMMA InitInv ==
  ASSUME Init
  PROVE  ZInv
<1>1. Typing /\ operator = "idle" /\ to_node = << >> /\ Len(to_node) = 0
      /\ presses = 0 /\ hazard_press = 0 /\ ~Unsent
  BY InitTyping, StartTypes DEF Init, CZC!Init, Unsent
<1>2. DecisionInv /\ OrderInv
  BY <1>1 DEF DecisionInv, OrderInv
<1>3. CounterInv
  BY <1>1, StartTypes DEF Init, CZC!Init, Node!Init, CounterInv
<1> QED
  BY <1>1, <1>2, <1>3 DEF ZInv

\* What waits in the queue.
LEMMA QueueTypes ==
  ASSUME Typing, NEW i \in 1 .. Len(to_node)
  PROVE  /\ to_node[i] \in Message /\ to_node[i].press \in Nat
         /\ to_node[i].command \in LampCommand(SequenceCounters)
<1>1. to_node[i] \in Message
  BY ElementOfSeq DEF Typing
<1> QED
  BY <1>1 DEF Message

LEMMA ModuloSmall ==
  ASSUME NEW m \in Nat \ {0}, NEW x \in 0 .. m - 1
  PROVE  x % m = x
  OBVIOUS

LEMMA PressInv ==
  ASSUME ZInv, NEW request \in environment.requests, Press(request), NodeQuiet
  PROVE  ZInv'
<1>1. /\ operator = "idle" /\ operator' = "kLeftIndicator" /\ ~Unsent
      /\ lamp_command'.function = request.function /\ request.action # "kNoAction"
      /\ lamp_command'.action = request.action
      /\ lamp_command'.sequence_counter = next_sequence_counter
      /\ next_sequence_counter' = CZC!NextSequenceCounter(next_sequence_counter)
      /\ presses < environment.presses /\ presses' = presses + 1
      /\ expected' = Answer(expected, request)
  BY DEF Press, CZC!SendLampCommand, Unsent
<1>2. /\ UNCHANGED <<to_node, environment, hazard_press, last_hazard_sequence, lamp_output>>
      /\ presses \in Nat /\ hazard_press \in Nat /\ environment.presses \in Nat
  BY EnvironmentTypes DEF Press, link, NodeQuiet, node, node_history, ZInv, Typing
<1>3. Unsent' <=> request.function = "kHazardLamp"
  BY <1>1 DEF Unsent
<1>4. DecisionInv'
  BY <1>1, <1>2 DEF DecisionInv
<1>5. OrderInv'
  <2>1. \A i \in 1 .. Len(to_node) : to_node[i].press \in Nat
    BY QueueTypes DEF ZInv
  <2> QED
    BY <1>1, <1>2, <2>1 DEF ZInv, OrderInv, IsHazard
<1>6. CounterInv'
  <2> SUFFICES ASSUME Counts'
               PROVE  /\ presses' + 1 < SequenceModulus =>
                           next_sequence_counter' = presses' + 1
                      /\ lamp_command'.sequence_counter = presses'
                      /\ \A i \in 1 .. Len(to_node) :
                           to_node[i].command.sequence_counter = to_node[i].press
                      /\ last_hazard_sequence = 0 \/ last_hazard_sequence = hazard_press
    BY <1>2 DEF CounterInv
  <2>1. Counts /\ presses + 1 < SequenceModulus
    BY <1>1, <1>2, ModulusAssumption DEF Counts, Counting
  <2>2. next_sequence_counter = presses + 1
    BY <2>1 DEF ZInv, CounterInv
  <2>3. ASSUME presses' + 1 < SequenceModulus
        PROVE  next_sequence_counter' = presses' + 1
    <3>1. /\ SequenceModulus \in Nat \ {0}
          /\ next_sequence_counter + 1 \in 0 .. SequenceModulus - 1
      BY <1>1, <1>2, <2>2, <2>3, ModulusAssumption
    <3> QED
      BY <1>1, <1>2, <2>2, <3>1, ModuloSmall DEF CZC!NextSequenceCounter
  <2> QED
    BY <1>1, <2>1, <2>2, <2>3 DEF ZInv, CounterInv
<1> QED
  BY <1>4, <1>5, <1>6, PressTypes DEF ZInv

\* The operator thread, up to its first send.
LEMMA ThinkInv ==
  ASSUME ZInv, OperatorThread, CZC!OperatorStep, NodeQuiet
  PROVE  ZInv'
<1>1. Typing'
  BY OperatorThreadTypes DEF ZInv, DecisionInv
<1>2. /\ UNCHANGED <<lamp_command, next_sequence_counter, presses, expected, environment,
                     hazard_press, last_hazard_sequence, lamp_output>>
      /\ operator # "idle" /\ operator # "send"
  BY DEF OperatorThread, CZC!OperatorStep, CZC!ReadContext, CZC!Decide, history,
         operator_history, NodeQuiet, node, node_history
<1>3. to_node' = to_node
  BY QueueKept
     DEF ZInv, Typing, OperatorThread, CZC!OperatorStep, CZC!ReadContext, CZC!Decide
<1>4. DecisionInv' /\ (Unsent' <=> Unsent)
  <2>1. CASE operator' # "idle" /\ operator' # "send"
    BY <1>2, <2>1 DEF ZInv, DecisionInv, Unsent
  <2>2. CASE CZC!Decide
    <3>1. /\ lamp_command \in LampCommand(SequenceCounters) /\ lamp_command.action # "kNoAction"
          /\ presses >= 1
      BY <1>2 DEF ZInv, Typing, DecisionInv
    <3>2. /\ decision' = CZC!Arbitrate(lamp_command, context)
          /\ operator' = IF decision' = << >> THEN "idle" ELSE "send"
      BY <2>2 DEF CZC!Decide
    <3>3. /\ DecisionOf(decision', lamp_command)
          /\ lamp_command.function = "kHazardLamp" =>
               decision' # << >> /\ decision'[1].function = "kHazardLamp"
      BY <3>1, <3>2, Arbitration
    <3>4. DecisionInv'
      BY <1>2, <3>1, <3>2, <3>3 DEF DecisionInv
    <3>5. Unsent' <=> Unsent
      BY <1>2, <3>2, <3>3 DEF Unsent
    <3> QED
      BY <3>4, <3>5
  <2> QED
    BY <2>1, <2>2 DEF CZC!OperatorStep, CZC!ReadContext
<1>5. OrderInv'
  BY <1>2, <1>3, <1>4 DEF ZInv, OrderInv, IsHazard
<1>6. CounterInv'
  BY <1>2, <1>3 DEF ZInv, CounterInv, Counts, Counting
<1> QED
  BY <1>1, <1>4, <1>5, <1>6 DEF ZInv

\* The next command of the decision is handed over.
LEMMA SendFacts ==
  ASSUME ZInv, OperatorThread, NEW accepted \in BOOLEAN, CZC!SendNext(accepted), NodeQuiet
  PROVE  LET n == Len(to_node)
             c == Head(decision)
         IN /\ DecisionInv' /\ ~Unsent'
            /\ n \in Nat /\ Len(to_node') = n + 1
            /\ \A i \in 1 .. n : to_node'[i] = to_node[i]
            /\ to_node'[n + 1] = [command |-> c, press |-> presses]
            /\ c = decision[1] /\ c.sequence_counter = lamp_command.sequence_counter
            /\ c.function = "kHazardLamp" <=> Unsent
<1> DEFINE n == Len(to_node)
           c == Head(decision)
<1>1. /\ UNCHANGED <<lamp_command, next_sequence_counter, presses, expected, environment,
                     hazard_press, last_hazard_sequence, lamp_output>>
      /\ operator = "send" /\ outgoing' = <<c>>
      /\ decision' = IF accepted THEN Tail(decision) ELSE << >>
      /\ operator' = IF decision' = << >> THEN "idle" ELSE "send"
  BY DEF OperatorThread, CZC!SendNext, history, operator_history, NodeQuiet, node,
         node_history
<1>2. /\ decision \in Seq(LampCommand(SequenceCounters)) /\ decision # << >>
      /\ presses >= 1 /\ presses \in Nat /\ hazard_press \in Nat /\ n \in Nat
      /\ DecisionOf(decision, lamp_command) /\ lamp_command.action # "kNoAction"
  BY <1>1 DEF ZInv, Typing, DecisionInv
<1>3. /\ c \in LampCommand(SequenceCounters) /\ c = decision[1] /\ Len(decision) \in Nat \ {0}
      /\ Tail(decision) \in Seq(LampCommand(SequenceCounters))
      /\ Len(Tail(decision)) = Len(decision) - 1
      /\ \A i \in 1 .. Len(Tail(decision)) : Tail(decision)[i] = decision[i + 1]
  BY <1>2, HeadTailProperties, EmptySeq
<1>4. /\ c.sequence_counter = lamp_command.sequence_counter
      /\ c.function = "kHazardLamp" => lamp_command.function = "kHazardLamp"
  BY <1>2, <1>3 DEF DecisionOf
<1>5. \A i \in 1 .. Len(Tail(decision)) :
        /\ Tail(decision)[i].sequence_counter = lamp_command.sequence_counter
        /\ Tail(decision)[i].function # "kHazardLamp"
  BY <1>2, <1>3 DEF DecisionOf
<1>6. Unsent <=> c.function = "kHazardLamp"
  BY <1>1, <1>3, <1>4 DEF Unsent
<1>7. DecisionInv' /\ ~Unsent'
  <2>1. CASE operator' = "idle"
    BY <2>1 DEF DecisionInv, Unsent
  <2>2. CASE operator' # "idle"
    <3>1. operator' = "send" /\ decision' = Tail(decision) /\ Tail(decision) # << >>
      BY <1>1, <2>2
    <3>2. Len(Tail(decision)) \in Nat \ {0}
      BY <1>3, <3>1, EmptySeq
    <3>3. decision'[1].function # "kHazardLamp"
      BY <1>5, <3>1, <3>2
    <3>4. DecisionOf(decision', lamp_command)
      BY <1>5, <3>1 DEF DecisionOf
    <3> QED
      BY <1>1, <1>2, <3>1, <3>3, <3>4 DEF DecisionInv, Unsent
  <2> QED
    BY <2>1, <2>2
<1>8. /\ Len(to_node') = n + 1
      /\ \A i \in 1 .. n : to_node'[i] = to_node[i]
      /\ to_node'[n + 1] = [command |-> c, press |-> presses]
  BY <1>1, <1>2, <1>3, QueueGrows DEF ZInv, Typing, OperatorThread
<1> QED
  BY <1>2, <1>3, <1>4, <1>6, <1>7, <1>8

LEMMA SendInv ==
  ASSUME ZInv, OperatorThread, NEW accepted \in BOOLEAN, CZC!SendNext(accepted), NodeQuiet
  PROVE  ZInv'
<1> DEFINE n == Len(to_node)
           c == Head(decision)
<1>1. Typing'
  BY OperatorThreadTypes DEF ZInv, DecisionInv
<1>2. /\ UNCHANGED <<lamp_command, next_sequence_counter, presses, environment,
                     hazard_press, last_hazard_sequence>>
      /\ operator = "send"
  BY DEF OperatorThread, CZC!SendNext, history, operator_history, NodeQuiet, node,
         node_history
<1>3. presses >= 1 /\ presses \in Nat /\ hazard_press \in Nat /\ n \in Nat
  BY <1>2 DEF ZInv, Typing, DecisionInv
<1>4. c.sequence_counter = lamp_command.sequence_counter
  BY SendFacts
<1>5. DecisionInv' /\ ~Unsent'
  BY SendFacts
<1>6. /\ Len(to_node') = n + 1
      /\ \A i \in 1 .. n : to_node'[i] = to_node[i]
      /\ to_node'[n + 1] = [command |-> c, press |-> presses]
  BY SendFacts
<1>7. \A i \in 1 .. n : to_node[i].press \in Nat
  BY QueueTypes DEF ZInv
<1>8. /\ to_node'[n + 1].press = presses /\ to_node'[n + 1].command = c
      /\ IsHazard(to_node'[n + 1]) <=> Unsent
  BY <1>6, SendFacts DEF IsHazard
<1> HIDE DEF n, c
<1>9. OrderInv'
  <2>1. \A i \in 1 .. n + 1 : i \in 1 .. n \/ i = n + 1
    BY <1>3
  <2>2. \A i \in 1 .. n + 1 :
          /\ to_node'[i].press >= 1 /\ to_node'[i].press <= presses
          /\ IsHazard(to_node'[i]) => hazard_press < to_node'[i].press
    BY <1>3, <1>6, <1>8, <2>1 DEF ZInv, OrderInv, IsHazard, n
  <2>3. ASSUME NEW i \in 1 .. n + 1, NEW j \in 1 .. n + 1,
               i < j, IsHazard(to_node'[i]), IsHazard(to_node'[j])
        PROVE  to_node'[i].press < to_node'[j].press
    <3>1. i \in 1 .. n /\ to_node'[i] = to_node[i]
      BY <1>3, <1>6, <2>3
    <3>2. CASE j \in 1 .. n
      BY <1>6, <2>3, <3>1, <3>2 DEF ZInv, OrderInv, n
    <3>3. CASE j = n + 1
      BY <1>8, <2>3, <3>1, <3>3 DEF ZInv, OrderInv, n
    <3> QED
      BY <2>1, <3>2, <3>3
  <2> QED
    BY <1>2, <1>5, <1>6, <2>2, <2>3 DEF ZInv, OrderInv, IsHazard
<1>10. CounterInv'
  <2> SUFFICES ASSUME Counts
               PROVE  \A i \in 1 .. n + 1 :
                        to_node'[i].command.sequence_counter = to_node'[i].press
    BY <1>2, <1>6 DEF ZInv, CounterInv, Counts, Counting
  <2>1. /\ \A i \in 1 .. n : to_node[i].command.sequence_counter = to_node[i].press
        /\ lamp_command.sequence_counter = presses
    BY <1>2 DEF ZInv, CounterInv, n
  <2> TAKE i \in 1 .. n + 1
  <2>2. CASE i \in 1 .. n
    BY <1>6, <2>1, <2>2
  <2>3. CASE i = n + 1
    BY <1>4, <1>8, <2>1, <2>3
  <2> QED
    BY <1>3, <2>2, <2>3
<1> QED
  BY <1>1, <1>5, <1>9, <1>10 DEF ZInv

LEMMA RestartInv ==
  ASSUME ZInv, Restart, NodeQuiet
  PROVE  ZInv'
<1>1. /\ operator' = "idle" /\ environment.czc_restarts
      /\ UNCHANGED <<environment, to_node, presses, hazard_press>>
  BY StartTypes
     DEF Restart, CZC!Restart, history, operator_history, node_history, NodeQuiet
<1>2. DecisionInv' /\ ~Unsent'
  BY <1>1 DEF DecisionInv, Unsent
<1>3. OrderInv'
  BY <1>1, <1>2 DEF ZInv, OrderInv, IsHazard
<1>4. CounterInv'
  BY <1>1 DEF CounterInv, Counts
<1> QED
  BY <1>2, <1>3, <1>4, RestartTypes DEF ZInv

\* The first command leaves the queue, handled or lost.
LEMMA OrderAfterHead ==
  ASSUME ZInv, to_node # << >>, to_node' = Tail(to_node),
         UNCHANGED <<presses, operator, lamp_command, decision>>,
         \/ hazard_press' = hazard_press
         \/ IsHazard(Head(to_node)) /\ hazard_press' = Head(to_node).press
  PROVE  OrderInv'
<1>1. /\ to_node' \in Seq(Message) /\ Len(to_node) \in Nat \ {0}
      /\ Len(to_node') = Len(to_node) - 1
      /\ \A i \in 1 .. Len(to_node') : to_node'[i] = to_node[i + 1]
      /\ Head(to_node) = to_node[1]
  BY QueueShrinks DEF ZInv, Typing
<1>2. \A i \in 1 .. Len(to_node') : i + 1 \in 1 .. Len(to_node)
  BY <1>1
<1>3. (Unsent' <=> Unsent) /\ 1 \in 1 .. Len(to_node)
  BY <1>1 DEF Unsent
<1>4. \A i \in 1 .. Len(to_node) : to_node[i].press \in Nat
  BY QueueTypes DEF ZInv
<1>5. \A i \in 1 .. Len(to_node') :
        /\ to_node'[i].press >= 1 /\ to_node'[i].press <= presses
        /\ Unsent /\ IsHazard(to_node'[i]) => to_node'[i].press < presses
  BY <1>1, <1>2 DEF ZInv, OrderInv
<1>6. \A i, j \in 1 .. Len(to_node') :
        i < j /\ IsHazard(to_node'[i]) /\ IsHazard(to_node'[j]) =>
          to_node'[i].press < to_node'[j].press
  <2> SUFFICES ASSUME NEW i \in 1 .. Len(to_node'), NEW j \in 1 .. Len(to_node'),
                      i < j, IsHazard(to_node'[i]), IsHazard(to_node'[j])
               PROVE  to_node'[i].press < to_node'[j].press
    OBVIOUS
  <2>1. to_node'[i] = to_node[i + 1] /\ to_node'[j] = to_node[j + 1] /\ i + 1 < j + 1
    BY <1>1
  <2> QED
    BY <1>2, <2>1 DEF ZInv, OrderInv
<1>7. /\ hazard_press' <= presses /\ (Unsent => hazard_press' < presses)
      /\ \A i \in 1 .. Len(to_node') :
           IsHazard(to_node'[i]) => hazard_press' < to_node'[i].press
  <2>1. CASE hazard_press' = hazard_press
    BY <1>1, <1>2, <2>1 DEF ZInv, OrderInv
  <2>2. CASE IsHazard(Head(to_node)) /\ hazard_press' = Head(to_node).press
    <3>1. \A i \in 1 .. Len(to_node') : to_node'[i] = to_node[i + 1] /\ 1 < i + 1
      BY <1>1
    <3> QED
      BY <1>1, <1>2, <1>3, <2>2, <3>1 DEF ZInv, OrderInv
  <2> QED
    BY <2>1, <2>2
<1> QED
  BY <1>3, <1>5, <1>6, <1>7 DEF OrderInv, IsHazard

LEMMA NodeStepInv ==
  ASSUME ZInv, NodeStep, UNCHANGED environment
  PROVE  ZInv'
<1> DEFINE m == Head(to_node)
           n == Len(to_node')
<1>1. Typing' /\ HazardEffect(m.command)
  BY NodeStepTypes DEF ZInv
<1>2. /\ UNCHANGED <<environment, operator, lamp_command, decision, next_sequence_counter,
                     presses, expected>>
      /\ to_node # << >> /\ to_node' = Tail(to_node)
      /\ hazard_press' = IF IsHazard(m) THEN m.press ELSE hazard_press
  BY DEF NodeStep, controller, operator_history, IsHazard
<1>3. DecisionInv' /\ (Unsent' <=> Unsent)
  BY <1>2 DEF ZInv, DecisionInv, DecisionOf, Unsent
<1>4. OrderInv'
  BY <1>2, OrderAfterHead
<1>5. /\ Len(to_node) \in Nat \ {0} /\ n = Len(to_node) - 1 /\ n \in Nat
      /\ \A i \in 1 .. n : to_node'[i] = to_node[i + 1]
      /\ m = to_node[1] /\ 1 \in 1 .. Len(to_node)
      /\ \A i \in 1 .. n : i + 1 \in 1 .. Len(to_node)
  BY <1>2, QueueShrinks DEF ZInv, Typing
<1>6. CounterInv'
  <2> SUFFICES ASSUME Counts
               PROVE  /\ \A i \in 1 .. n :
                           to_node'[i].command.sequence_counter = to_node'[i].press
                      /\ last_hazard_sequence' = 0 \/ last_hazard_sequence' = hazard_press'
    BY <1>2 DEF ZInv, CounterInv, Counts, Counting
  <2>1. \A i \in 1 .. Len(to_node) : to_node[i].command.sequence_counter = to_node[i].press
    BY DEF ZInv, CounterInv
  <2>2. last_hazard_sequence' = 0 \/ last_hazard_sequence' = hazard_press'
    <3>1. CASE IsHazard(m)
      BY <1>1, <1>2, <1>5, <2>1, <3>1 DEF HazardEffect, IsHazard
    <3>2. CASE ~IsHazard(m)
      BY <1>1, <1>2, <3>2 DEF ZInv, CounterInv, HazardEffect, IsHazard
    <3> QED
      BY <3>1, <3>2
  <2> QED
    BY <1>5, <2>1, <2>2
<1> QED
  BY <1>1, <1>3, <1>4, <1>6 DEF ZInv

LEMMA RestartNodeInv ==
  ASSUME ZInv, RestartNode, UNCHANGED environment
  PROVE  ZInv'
<1>1. /\ UNCHANGED <<environment, operator, lamp_command, decision, next_sequence_counter,
                     presses, hazard_press>>
      /\ last_hazard_sequence' = 0 /\ node_starts < environment.node_restarts
      /\ to_node' = to_node \/ to_node' = << >>
  BY DEF RestartNode, Node!Restart, controller, operator_history
<1>2. DecisionInv' /\ (Unsent' <=> Unsent)
  BY <1>1 DEF ZInv, DecisionInv, DecisionOf, Unsent
<1>3. OrderInv' /\ CounterInv'
  <2>1. CASE to_node' = to_node
    BY <1>1, <1>2, <2>1 DEF ZInv, OrderInv, CounterInv, Counts, Counting, IsHazard
  <2>2. CASE to_node' = << >>
    <3>1. Len(to_node') = 0
      BY <2>2
    <3> QED
      BY <1>1, <1>2, <3>1 DEF ZInv, OrderInv, CounterInv, Counts, Counting
  <2> QED
    BY <1>1, <2>1, <2>2
<1> QED
  BY <1>2, <1>3, RestartNodeTypes DEF ZInv

LEMMA LoseInv ==
  ASSUME ZInv, Lose, UNCHANGED environment
  PROVE  ZInv'
<1>1. /\ UNCHANGED <<environment, operator, lamp_command, decision, next_sequence_counter,
                     presses, expected, hazard_press, last_hazard_sequence, lamp_output>>
      /\ environment.lossy
  BY DEF Lose, controller, node, operator_history
<1>2. DecisionInv'
  BY <1>1 DEF ZInv, DecisionInv, DecisionOf
<1>3. CASE LoseCommand
  <2>1. to_node # << >> /\ to_node' = Tail(to_node)
    BY <1>3 DEF LoseCommand
  <2>2. OrderInv'
    BY <1>1, <2>1, OrderAfterHead
  <2>3. /\ Len(to_node) \in Nat \ {0} /\ Len(to_node') = Len(to_node) - 1
        /\ \A i \in 1 .. Len(to_node') : to_node'[i] = to_node[i + 1]
    BY <2>1, QueueShrinks DEF ZInv, Typing
  <2>4. CounterInv'
    BY <1>1, <2>3 DEF ZInv, CounterInv, Counts, Counting
  <2> QED
    BY <1>2, <2>2, <2>4, LoseTypes DEF ZInv
<1>4. CASE LoseEvent
  <2>1. to_node' = to_node /\ (Unsent' <=> Unsent)
    BY <1>1, <1>4 DEF LoseEvent, Unsent
  <2>2. OrderInv' /\ CounterInv'
    BY <1>1, <2>1 DEF ZInv, OrderInv, CounterInv, Counts, Counting, IsHazard
  <2> QED
    BY <1>2, <2>2, LoseTypes DEF ZInv
<1> QED
  BY <1>3, <1>4 DEF Lose

LEMMA StepInv ==
  ASSUME ZInv, [Next]_vars
  PROVE  ZInv'
<1>1. CASE ControllerStep /\ UNCHANGED environment
  <2>1. NodeQuiet
    BY <1>1 DEF NodeQuiet, ControllerStep, Press, OperatorThread, Receive, FinishReceiving,
                Restart, history
  <2>2. ASSUME NEW request \in environment.requests, Press(request)
        PROVE  ZInv'
    BY <2>1, <2>2, PressInv
  <2>3. CASE OperatorThread
    <3>1. environment.answers \subseteq BOOLEAN
      BY EnvironmentsAssumption DEF ZInv, Typing
    <3>2. ASSUME NEW accepted \in environment.answers, CZC!SendNext(accepted)
          PROVE  ZInv'
      BY <2>1, <2>3, <3>1, <3>2, SendInv
    <3> QED
      BY <2>1, <2>3, <3>2, ThinkInv DEF OperatorThread
  <2>4. CASE Receive \/ FinishReceiving
    <3>1. Idle
      BY <1>1, <2>4 DEF Idle, ControllerStep, Receive, FinishReceiving, CZC!OnLampStatusReceived,
           CZC!UpdateLampStatus, CZC!operator_thread, history, operator_history, node_history,
           node, link
    <3> QED
      BY <2>1, <2>4, <3>1, ReceiveTypes, IdleStep DEF ZInv
  <2>5. CASE Restart
    BY <2>1, <2>5, RestartInv
  <2> QED
    BY <1>1, <2>2, <2>3, <2>4, <2>5 DEF ControllerStep
<1>2. CASE NodeStep /\ UNCHANGED environment
  BY <1>2, NodeStepInv
<1>3. CASE RestartNode /\ UNCHANGED environment
  BY <1>3, RestartNodeInv
<1>4. CASE Lose /\ UNCHANGED environment
  BY <1>4, LoseInv
<1>5. CASE UNCHANGED vars
  <2>1. Idle
    BY <1>5 DEF Idle, vars, controller, node, link, history, operator_history, node_history
  <2>2. Typing'
    BY <1>5 DEF ZInv, Typing, vars, controller, node, link, history, operator_history,
                node_history
  <2> QED
    BY <2>1, <2>2, IdleStep
<1> QED
  BY <1>1, <1>2, <1>3, <1>4, <1>5 DEF Next

LEMMA Invariance == Spec => []ZInv
<1>1. Init => ZInv
  BY InitInv
<1>2. ZInv /\ [Next]_vars => ZInv'
  BY StepInv
<1> QED
  BY <1>1, <1>2, PTL DEF Spec

-----------------------------------------------------------------------------
(* The theorems. *)

\* Type correctness of controller, node and link, for every environment and every
\* length of the queue: the counter stays one of its width, and no command is of a
\* request that was not made.
THEOREM TypeCorrect == Spec => []TypeOK
<1>1. ZInv => TypeOK
  <2> SUFFICES ASSUME ZInv
               PROVE  TypeOK
    OBVIOUS
  <2>1. \A f \in LampFunctions :
          {cached_lamp_statuses[f], lamp_status_cache[f]} \subseteq OutputStates \cup {"kUnknown"}
    BY DEF ZInv, Typing, CacheType
  <2>2. Node!TypeOK
    BY SameDomain DEF ZInv, Typing, Node!TypeOK, Outputs, LampEvent
  <2>3. presses \in 0 .. environment.presses /\ node_starts \in 0 .. environment.node_restarts
    BY EnvironmentTypes DEF ZInv, Typing
  <2>4. ASSUME NEW i \in DOMAIN to_node
        PROVE  /\ to_node[i].command \in LampCommand(SequenceCounters)
               /\ to_node[i].press \in 1 .. environment.presses
    <3>1. i \in 1 .. Len(to_node)
      BY <2>4, LenProperties DEF ZInv, Typing
    <3> QED
      BY <2>3, <3>1, QueueTypes, EnvironmentTypes DEF ZInv, OrderInv
  <2> QED
    BY <2>1, <2>2, <2>3, <2>4 DEF ZInv, Typing, TypeOK
<1> QED
  BY <1>1, Invariance, PTL

\* The hazard lamp changes at most once for a request and never for an old one,
\* whatever is lost, refused or started again, for any number of requests and
\* although the counter wraps: hazard commands wait in the order of their requests.
THEOREM OneChange == Spec => OneChangePerRequest
<1>1. ZInv /\ [Next]_vars =>
        [(Node!IsOn("kHazardLamp") # Node!IsOn("kHazardLamp")') =>
           hazard_press' > hazard_press \/ node_starts' > node_starts]_vars
  <2> SUFFICES ASSUME ZInv, Next, Node!IsOn("kHazardLamp") # Node!IsOn("kHazardLamp")'
               PROVE  hazard_press' > hazard_press \/ node_starts' > node_starts
    OBVIOUS
  <2>1. lamp_output' # lamp_output
    BY DEF Node!IsOn
  <2>2. NodeStep \/ RestartNode
    BY <2>1 DEF Next, ControllerStep, Lose, node
  <2>3. CASE RestartNode
    BY <2>3 DEF ZInv, Typing, RestartNode
  <2>4. CASE NodeStep
    <3>1. HazardEffect(Head(to_node).command)
      BY <2>4, NodeStepTypes DEF Next, ZInv
    <3>2. IsHazard(Head(to_node)) /\ hazard_press' = Head(to_node).press
      BY <2>4, <3>1 DEF HazardEffect, IsHazard, Node!IsOn, NodeStep
    <3>3. /\ Len(to_node) \in Nat \ {0} /\ 1 \in 1 .. Len(to_node)
          /\ Head(to_node) = to_node[1]
      BY <2>4, QueueShrinks DEF ZInv, Typing, NodeStep
    <3>4. hazard_press < hazard_press' /\ hazard_press' \in Nat /\ hazard_press \in Nat
      BY <3>2, <3>3, QueueTypes DEF ZInv, Typing, OrderInv
    <3> QED
      BY <3>4
  <2> QED
    BY <2>2, <2>3, <2>4
<1> QED
  BY <1>1, Invariance, PTL DEF Spec, OneChangePerRequest

\* What the node drops as a companion belongs to its last hazard command, as long as
\* the controller stays up and its counter has not wrapped.
THEOREM Companions == Spec => []CompanionsAreCompanions
<1>1. ZInv => CompanionsAreCompanions
  <2> SUFFICES ASSUME ZInv, Counting, ~environment.czc_restarts, to_node # << >>,
                      Node!IsCompanion(Head(to_node).command)
               PROVE  Head(to_node).press = hazard_press
    BY DEF CompanionsAreCompanions
  <2>1. Counts
    BY DEF Counts
  <2>2. to_node \in Seq(Message) /\ Len(to_node) \in Nat \ {0}
    BY EmptySeq DEF ZInv, Typing
  <2>3. Head(to_node) = to_node[1] /\ 1 \in 1 .. Len(to_node)
    BY <2>2
  <2>4. /\ Head(to_node).command.sequence_counter = Head(to_node).press
        /\ Head(to_node).press >= 1 /\ Head(to_node).press \in Nat
        /\ last_hazard_sequence = 0 \/ last_hazard_sequence = hazard_press
    BY <2>1, <2>3, QueueTypes DEF ZInv, CounterInv, OrderInv
  <2> QED
    BY <2>4 DEF Node!IsCompanion
<1> QED
  BY <1>1, Invariance, PTL

-----------------------------------------------------------------------------
(* The node: what one command does to each lamp, and what is said of it. *)

\* ApplyOne for an action that is resolved already, as an exact value.
LEMMA ApplyResolved ==
  ASSUME faulted = {}, NEW o \in Outputs, NEW g \in LampFunctions,
         NEW a \in LampCommandActions \ {"kToggle"}
  PROVE  Node!Apply(o, g, a) =
           [o EXCEPT ![g] = IF a = "kActivate" THEN "kOn"
                            ELSE IF a = "kDeactivate" THEN "kOff" ELSE @]
<1> DEFINE after == IF a = "kActivate" THEN "kOn"
                    ELSE IF a = "kDeactivate" THEN "kOff" ELSE o[g]
<1>1. OutputAfter(g \in faulted, o[g], a) = after
  BY DEF LampCommandActions, OutputAfter, Refuses, Resolve
<1> QED
  BY <1>1, SameDomain DEF Node!Apply

\* Each event tells what its lamp has become.
Truthful == \A i \in 1 .. Len(sent') : sent'[i].output = lamp_output'[sent'[i].function]
TellsOf(f) == \E i \in 1 .. Len(sent') : sent'[i].function = f

LEMMA SendEffect ==
  ASSUME NEW fs \in Seq(LampFunctions), Node!Send(fs)
  PROVE  Truthful /\ \A i \in 1 .. Len(fs) : TellsOf(fs[i])
<1>1. DOMAIN fs = 1 .. Len(fs) /\ Len(fs) \in Nat
  OBVIOUS
<1>2. Len(sent') = Len(fs)
  BY <1>1 DEF Node!Send
<1> QED
  BY <1>1, <1>2 DEF Node!Send, Truthful, TellsOf

HazardOnEffect ==
  /\ lamp_output["kHazardLamp"] = "kOff"
  /\ lamp_output' = [lamp_output EXCEPT !["kHazardLamp"] = "kOn"]
  /\ active_indicator_before_hazard' =
       IF lamp_output["kLeftIndicator"] = "kOn" THEN "kLeftIndicator"
       ELSE IF lamp_output["kRightIndicator"] = "kOn" THEN "kRightIndicator" ELSE "kUnknown"
  /\ TellsOf("kHazardLamp")

\* Both ways to end hazard: the saved indicator is all that comes on.
HazardOffEffect ==
  /\ lamp_output["kHazardLamp"] = "kOn"
  /\ lamp_output' =
       [lamp_output EXCEPT
          !["kHazardLamp"] = "kOff",
          !["kLeftIndicator"] =
             IF active_indicator_before_hazard = "kLeftIndicator" THEN "kOn" ELSE "kOff",
          !["kRightIndicator"] =
             IF active_indicator_before_hazard = "kRightIndicator" THEN "kOn" ELSE "kOff"]
  /\ active_indicator_before_hazard' = "kUnknown"
  /\ TellsOf("kHazardLamp") /\ \A f \in Indicators : TellsOf(f)

LEMMA HazardOnExact ==
  ASSUME Typing, NEW c, Node!HazardOn(c)
  PROVE  HazardOnEffect /\ Truthful
<1>1. /\ faulted = {} /\ lamp_output \in Outputs
      /\ "kHazardLamp" \in LampFunctions /\ "kActivate" \in LampCommandActions \ {"kToggle"}
      /\ <<"kHazardLamp">> \in Seq(LampFunctions)
  BY DEF Typing, LampFunctions, LampCommandActions
<1>2. /\ lamp_output' = Node!Apply(lamp_output, "kHazardLamp", "kActivate")
      /\ Node!Send(<<"kHazardLamp">>) /\ lamp_output["kHazardLamp"] # "kOn"
  BY DEF Node!HazardOn, Node!IsOn
<1>3. lamp_output' = [lamp_output EXCEPT !["kHazardLamp"] = "kOn"]
  BY <1>1, <1>2, ApplyResolved
<1>4. lamp_output["kHazardLamp"] = "kOff"
  BY <1>1, <1>2 DEF Outputs, OutputStates
<1>5. Truthful /\ TellsOf("kHazardLamp")
  <2>1. 1 \in 1 .. Len(<<"kHazardLamp">>) /\ <<"kHazardLamp">>[1] = "kHazardLamp"
    OBVIOUS
  <2> QED
    BY <1>1, <1>2, <2>1, SendEffect
<1>6. active_indicator_before_hazard' =
        IF lamp_output["kLeftIndicator"] = "kOn" THEN "kLeftIndicator"
        ELSE IF lamp_output["kRightIndicator"] = "kOn" THEN "kRightIndicator" ELSE "kUnknown"
  <2> DEFINE left == lamp_output["kLeftIndicator"] = "kOn"
             right == lamp_output["kRightIndicator"] = "kOn"
  <2>1. active_indicator_before_hazard' =
          CASE left -> "kLeftIndicator"
            [] ~left /\ right -> "kRightIndicator"
            [] Node!Lit = {} -> "kUnknown"
    BY DEF Node!HazardOn, Node!IsOn
  <2>2. Node!Lit = {} <=> ~left /\ ~right
    BY SameDomain DEF Node!Lit, Node!IsOn, Indicators
  <2> QED
    BY <2>1, <2>2
<1> QED
  BY <1>3, <1>4, <1>5, <1>6 DEF HazardOnEffect

LEMMA HazardOffExact ==
  ASSUME Typing, NEW c, Node!HazardOffRestore(c) \/ Node!HazardOffClear(c)
  PROVE  HazardOffEffect /\ Truthful
<1> DEFINE saved == active_indicator_before_hazard
           off == Node!Apply(lamp_output, "kHazardLamp", "kDeactivate")
           On(f) == [lamp_output EXCEPT
                       !["kHazardLamp"] = "kOff",
                       !["kLeftIndicator"] = IF f = "kLeftIndicator" THEN "kOn" ELSE "kOff",
                       !["kRightIndicator"] = IF f = "kRightIndicator" THEN "kOn" ELSE "kOff"]
<1>1. /\ faulted = {} /\ lamp_output \in Outputs
      /\ {"kHazardLamp", "kLeftIndicator", "kRightIndicator"} \subseteq LampFunctions
      /\ {"kActivate", "kDeactivate"} \subseteq LampCommandActions \ {"kToggle"}
      /\ Indicators = {"kLeftIndicator", "kRightIndicator"}
  BY DEF Typing, LampFunctions, LampCommandActions, Indicators
<1>2. /\ off = [lamp_output EXCEPT !["kHazardLamp"] = "kOff"] /\ off \in Outputs
  BY <1>1, ApplyResolved DEF Outputs, OutputStates
<1>3. CASE Node!HazardOffRestore(c)
  <2> DEFINE restored == Node!Apply(off, saved, "kActivate")
             fs == <<saved, Opposite(saved), "kHazardLamp">>
  <2>1. /\ saved \in Indicators /\ Opposite(saved) \in Indicators
        /\ Opposite(saved) # saved
        /\ lamp_output["kHazardLamp"] = "kOn"
        /\ lamp_output' = Node!Apply(restored, Opposite(saved), "kDeactivate")
        /\ Node!Send(fs) /\ active_indicator_before_hazard' = "kUnknown"
    BY <1>3, SameDomain DEF Typing, Node!HazardOffRestore, Node!IsOn, Opposite, Indicators
  <2>2. restored = [off EXCEPT ![saved] = "kOn"] /\ restored \in Outputs
    <3> HIDE DEF off
    <3>1. saved \in LampFunctions
      BY <1>1, <2>1
    <3>2. restored = [off EXCEPT ![saved] = "kOn"]
      BY <1>1, <1>2, <3>1, ApplyResolved
    <3> QED
      BY <1>2, <3>1, <3>2 DEF Outputs, OutputStates
  <2>3. lamp_output' = [restored EXCEPT ![Opposite(saved)] = "kOff"]
    <3>1. Opposite(saved) \in LampFunctions
      BY <1>1, <2>1
    <3> QED
      BY <1>1, <2>1, <2>2, <3>1, ApplyResolved
  <2>4. lamp_output' = On(saved)
    BY <1>1, <1>2, <2>1, <2>2, <2>3 DEF Opposite, Outputs
  <2>5. fs \in Seq(LampFunctions) /\ Len(fs) = 3
        /\ fs[1] = saved /\ fs[2] = Opposite(saved) /\ fs[3] = "kHazardLamp"
    BY <1>1, <2>1
  <2>6. Truthful /\ TellsOf(saved) /\ TellsOf(Opposite(saved)) /\ TellsOf("kHazardLamp")
    <3> HIDE DEF fs
    <3>1. 1 \in 1 .. Len(fs) /\ 2 \in 1 .. Len(fs) /\ 3 \in 1 .. Len(fs)
      BY <2>5
    <3> QED
      BY <2>1, <2>5, <3>1, SendEffect
  <2>7. \A f \in Indicators : TellsOf(f)
    BY <1>1, <2>1, <2>6
  <2> QED
    BY <2>1, <2>4, <2>6, <2>7 DEF HazardOffEffect
<1>4. CASE Node!HazardOffClear(c)
  <2> DEFINE left == Node!Apply(off, "kLeftIndicator", "kDeactivate")
             fs == <<"kLeftIndicator", "kRightIndicator", "kHazardLamp">>
  <2>1. /\ saved = "kUnknown" /\ lamp_output["kHazardLamp"] = "kOn"
        /\ lamp_output' = Node!Apply(left, "kRightIndicator", "kDeactivate")
        /\ Node!Send(fs) /\ active_indicator_before_hazard' = "kUnknown"
    BY <1>4 DEF Node!HazardOffClear, Node!IsOn
  <2>2. left = [off EXCEPT !["kLeftIndicator"] = "kOff"] /\ left \in Outputs
    BY <1>1, <1>2, ApplyResolved DEF Outputs, OutputStates
  <2>3. lamp_output' = [left EXCEPT !["kRightIndicator"] = "kOff"]
    BY <1>1, <2>1, <2>2, ApplyResolved
  <2>4. lamp_output' = On(saved)
    BY <1>1, <1>2, <2>1, <2>2, <2>3 DEF Outputs
  <2>5. fs \in Seq(LampFunctions) /\ Len(fs) = 3
        /\ fs[1] = "kLeftIndicator" /\ fs[2] = "kRightIndicator" /\ fs[3] = "kHazardLamp"
    BY <1>1
  <2>6. Truthful /\ TellsOf("kLeftIndicator") /\ TellsOf("kRightIndicator")
        /\ TellsOf("kHazardLamp")
    <3> HIDE DEF fs
    <3>1. 1 \in 1 .. Len(fs) /\ 2 \in 1 .. Len(fs) /\ 3 \in 1 .. Len(fs)
      BY <2>5
    <3> QED
      BY <2>1, <2>5, <3>1, SendEffect
  <2>7. \A f \in Indicators : TellsOf(f)
    BY <1>1, <2>6
  <2> QED
    BY <2>1, <2>4, <2>6, <2>7 DEF HazardOffEffect
<1> QED
  BY <1>3, <1>4

\* An indicator command that is not dropped, with its action resolved.
IndicatorEffect(f, resolved) ==
  /\ lamp_output["kHazardLamp"] = "kOff"
  /\ lamp_output' = [lamp_output EXCEPT
                       ![Opposite(f)] = IF resolved = "kActivate" THEN "kOff" ELSE @,
                       ![f] = IF resolved = "kActivate" THEN "kOn"
                              ELSE IF resolved = "kDeactivate" THEN "kOff" ELSE @]
  /\ active_indicator_before_hazard' = active_indicator_before_hazard
  /\ TellsOf(f)
  /\ lamp_output'[Opposite(f)] # lamp_output[Opposite(f)] => TellsOf(Opposite(f))

LEMMA ApplyIndicatorExact ==
  ASSUME Typing, NEW c \in LampCommand(SequenceCounters), Node!ApplyIndicator(c)
  PROVE  /\ c.function \in Indicators /\ ~Node!DropsIndicator(c)
         /\ IndicatorEffect(c.function, Resolve(lamp_output[c.function], c.action))
         /\ Truthful
<1> DEFINE f == c.function
           o == Opposite(f)
           a == Resolve(lamp_output[f], c.action)
           exchange == a = "kActivate" /\ Node!IsOn(o)
           start == IF exchange THEN Node!Apply(lamp_output, o, "kDeactivate")
                    ELSE lamp_output
           fs == Node!IndicatorEvents(f, exchange)
<1>1. /\ f \in Indicators /\ ~Node!DropsIndicator(c) /\ faulted = {}
      /\ lamp_output' = Node!Apply(start, f, a) /\ Node!Send(fs)
      /\ active_indicator_before_hazard' = active_indicator_before_hazard
      /\ lamp_output \in Outputs
  BY SameDomain DEF Typing, Node!ApplyIndicator
<1>2. /\ {f, o, "kHazardLamp"} \subseteq LampFunctions /\ o # f
      /\ "kDeactivate" \in LampCommandActions \ {"kToggle"}
  BY <1>1 DEF Opposite, Indicators, LampFunctions, LampCommandActions
<1>3. a \in LampCommandActions \ {"kToggle"}
  BY DEF LampCommand, Resolve, LampCommandActions
<1>4. lamp_output["kHazardLamp"] = "kOff"
  BY <1>1, <1>2 DEF Node!DropsIndicator, Node!IsOn, Outputs, OutputStates
<1>5. start = [lamp_output EXCEPT ![o] = IF exchange THEN "kOff" ELSE @] /\ start \in Outputs
  <2>1. CASE exchange
    <3>1. start = [lamp_output EXCEPT ![o] = "kOff"]
      BY <1>1, <1>2, <2>1, ApplyResolved
    <3> QED
      BY <1>1, <2>1, <3>1 DEF Outputs, OutputStates
  <2>2. CASE ~exchange
    <3>1. start = lamp_output /\ [lamp_output EXCEPT ![o] = @] = lamp_output
      BY <1>1, <2>2 DEF Outputs
    <3> QED
      BY <1>1, <2>2, <3>1
  <2> QED
    BY <2>1, <2>2
<1>6. exchange \/ (a = "kActivate" => lamp_output[o] = "kOff")
  BY <1>1, <1>2 DEF Node!IsOn, Outputs, OutputStates
<1>7. fs \in Seq(LampFunctions) /\ (\E i \in 1 .. Len(fs) : fs[i] = f)
      /\ (exchange => \E i \in 1 .. Len(fs) : fs[i] = o)
  <2>1. fs = IF exchange THEN <<o, f>> ELSE <<f>>
    BY SameDomain DEF Node!IndicatorEvents
  <2> HIDE DEF fs, exchange, o
  <2>2. CASE exchange
    <3>1. fs \in Seq(LampFunctions) /\ Len(fs) = 2 /\ fs[1] = o /\ fs[2] = f
      BY <1>2, <2>1, <2>2
    <3> QED
      BY <3>1
  <2>3. CASE ~exchange
    <3>1. fs \in Seq(LampFunctions) /\ Len(fs) = 1 /\ fs[1] = f
      BY <1>2, <2>1, <2>3
    <3> QED
      BY <2>3, <3>1
  <2> QED
    BY <2>2, <2>3
<1> HIDE DEF start, exchange, fs
<1>8. Truthful /\ TellsOf(f) /\ (exchange => TellsOf(o))
  BY <1>1, <1>7, SendEffect
<1> HIDE DEF a, o
<1>9. lamp_output' = [start EXCEPT ![f] = IF a = "kActivate" THEN "kOn"
                                          ELSE IF a = "kDeactivate" THEN "kOff" ELSE @]
  <2>1. f \in LampFunctions /\ start \in Outputs /\ lamp_output' = Node!Apply(start, f, a)
    BY <1>1, <1>2, <1>5
  <2> QED
    BY <1>1, <1>3, <2>1, ApplyResolved
<1>10. lamp_output' = [lamp_output EXCEPT
                         ![o] = IF a = "kActivate" THEN "kOff" ELSE @,
                         ![f] = IF a = "kActivate" THEN "kOn"
                                ELSE IF a = "kDeactivate" THEN "kOff" ELSE @]
  <2>1. exchange => a = "kActivate"
    BY DEF exchange
  <2> QED
    BY <1>1, <1>2, <1>5, <1>6, <1>9, <2>1 DEF Outputs
<1>11. lamp_output'[o] # lamp_output[o] => TellsOf(o)
  BY <1>1, <1>2, <1>5, <1>8, <1>9 DEF Outputs
<1> QED
  BY <1>1, <1>4, <1>8, <1>10, <1>11 DEF IndicatorEffect, a, o

\* What is left: nothing changes but the park or head lamp a command is for.
OtherEffect(c) ==
  /\ \A f \in LampFunctions :
       lamp_output'[f] # lamp_output[f] => TellsOf(f) /\ f = c.function
                                             /\ f \notin Indicators \cup {"kHazardLamp"}
  /\ active_indicator_before_hazard' = active_indicator_before_hazard

LEMMA ApplyOtherExact ==
  ASSUME Typing, NEW c \in LampCommand(SequenceCounters),
         Node!DropIndicator(c) \/ Node!ApplyOther(c)
  PROVE  OtherEffect(c) /\ Truthful
<1>1. CASE Node!DropIndicator(c)
  BY <1>1 DEF Node!DropIndicator, OtherEffect, Truthful
<1>2. CASE Node!ApplyOther(c)
  <2> DEFINE f == c.function
             ok == f # "kUnknown" /\ Node!ApplySucceeds(f \in faulted, lamp_output[f], c.action)
             fs == IF ok THEN <<f>> ELSE << >>
  <2>1. /\ f \in {"kParkLamp", "kHeadLamp", "kUnknown"}
        /\ lamp_output' = IF ok THEN Node!Apply(lamp_output, f, c.action) ELSE lamp_output
        /\ Node!Send(fs) /\ faulted = {} /\ lamp_output \in Outputs
        /\ active_indicator_before_hazard' = active_indicator_before_hazard
        /\ c.action \in LampCommandActions
    BY <1>2 DEF Node!ApplyOther, Typing, LampCommand
  <2>2. ok => f \in LampFunctions /\ f \notin Indicators \cup {"kHazardLamp"}
    BY <2>1 DEF LampFunctions, Indicators
  <2> HIDE DEF ok
  <2>3. \A g \in LampFunctions : lamp_output'[g] # lamp_output[g] => ok /\ g = f
    BY <2>1, <2>2, ApplyOne
  <2>4. fs \in Seq(LampFunctions) /\ (ok => 1 \in 1 .. Len(fs) /\ fs[1] = f)
    BY <2>2
  <2> HIDE DEF fs
  <2>5. Truthful /\ (ok => TellsOf(f))
    BY <2>1, <2>4, SendEffect
  <2> QED
    BY <2>1, <2>2, <2>3, <2>5 DEF OtherEffect
<1> QED
  BY <1>1, <1>2

\* Every command has one of these effects.
LEMMA CommandEffect ==
  ASSUME Typing, NEW c \in LampCommand(SequenceCounters), Node!OnTransportMessageReceived(c)
  PROVE  /\ Truthful
         /\ \/ c.function = "kHazardLamp" /\ (HazardOnEffect \/ HazardOffEffect)
            \/ /\ c.function \in Indicators /\ ~Node!DropsIndicator(c)
               /\ IndicatorEffect(c.function, Resolve(lamp_output[c.function], c.action))
            \/ /\ c.function \in Indicators => Node!DropsIndicator(c)
               /\ c.function # "kHazardLamp" /\ OtherEffect(c)
<1>1. CASE Node!HazardOn(c)
  BY <1>1, HazardOnExact DEF Node!HazardOn
<1>2. CASE Node!HazardOffRestore(c) \/ Node!HazardOffClear(c)
  BY <1>2, HazardOffExact DEF Node!HazardOffRestore, Node!HazardOffClear
<1>3. CASE Node!ApplyIndicator(c)
  BY <1>3, ApplyIndicatorExact
<1>4. CASE Node!DropIndicator(c)
  <2>1. c.function \in Indicators /\ c.function # "kHazardLamp" /\ Node!DropsIndicator(c)
    BY <1>4, SameDomain DEF Node!DropIndicator, Indicators
  <2> QED
    BY <1>4, <2>1, ApplyOtherExact
<1>5. CASE Node!ApplyOther(c)
  <2>1. c.function \notin Indicators /\ c.function # "kHazardLamp"
    BY <1>5 DEF Node!ApplyOther, Indicators
  <2> QED
    BY <1>5, <2>1, ApplyOtherExact
<1> QED
  BY <1>1, <1>2, <1>3, <1>4, <1>5 DEF Node!OnTransportMessageReceived

\* Of every lamp that changes an event is sent.
LEMMA EveryChangeTold ==
  ASSUME Typing, NEW c \in LampCommand(SequenceCounters), Node!OnTransportMessageReceived(c),
         NEW f \in LampFunctions, lamp_output'[f] # lamp_output[f]
  PROVE  TellsOf(f)
<1>1. lamp_output \in Outputs
  BY DEF Typing
<1>2. CASE HazardOnEffect
  BY <1>1, <1>2 DEF HazardOnEffect, Outputs
<1>3. CASE HazardOffEffect
  <2>1. f = "kHazardLamp" \/ f \in Indicators
    BY <1>1, <1>3 DEF HazardOffEffect, Outputs, Indicators
  <2> QED
    BY <1>3, <2>1 DEF HazardOffEffect
<1>4. ASSUME IndicatorEffect(c.function, Resolve(lamp_output[c.function], c.action))
      PROVE  TellsOf(f)
  <2>1. f = c.function \/ f = Opposite(c.function)
    BY <1>1, <1>4 DEF IndicatorEffect, Outputs
  <2> QED
    BY <1>4, <2>1 DEF IndicatorEffect
<1>5. CASE OtherEffect(c)
  BY <1>5 DEF OtherEffect
<1> QED
  BY <1>2, <1>3, <1>4, <1>5, CommandEffect

-----------------------------------------------------------------------------
(* What the controller knows of the lamps: every lamp the node has told of *)
(* has its last event under way, or between the caches, or in both.        *)

\* An event of f is under way, and what comes from it on is true.
EventFrom(f, i) ==
  /\ to_czc[i].function = f
  /\ \A j \in i .. Len(to_czc) : to_czc[j].function = f => to_czc[j].output = lamp_output[f]

NoEventOf(f) == \A i \in 1 .. Len(to_czc) : to_czc[i].function # f

Caught(f) ==
  /\ NoEventOf(f) /\ cached_lamp_statuses[f] = lamp_output[f]
  /\ IF receiving.function = f THEN receiving.output = lamp_output[f]
     ELSE lamp_status_cache[f] = lamp_output[f]

Unheard(f) ==
  NoEventOf(f) /\ receiving.function # f /\ lamp_status_cache[f] = "kUnknown"

CacheOf(f) ==
  IF f \in told THEN Delivers => Caught(f) \/ \E i \in 1 .. Len(to_czc) : EventFrom(f, i)
  ELSE lamp_output[f] = "kOff" /\ (BothStayUp => Unheard(f))

CacheInv == \A f \in LampFunctions : CacheOf(f)

LEMMA InitCache ==
  ASSUME Init
  PROVE  CacheInv
<1> SUFFICES ASSUME NEW f \in LampFunctions
             PROVE  CacheOf(f)
  BY DEF CacheInv
<1>1. /\ told = {} /\ to_czc = << >> /\ lamp_output[f] = "kOff"
  BY SameDomain DEF Init, Node!Init
<1>2. receiving.function # f /\ lamp_status_cache[f] = "kUnknown"
  BY SameDomain DEF Init, CZC!Init, CZC!Start, CZC!None, LampFunctions
<1> QED
  BY <1>1, <1>2 DEF CacheOf, Unheard, NoEventOf

\* Steps that touch neither the lamps nor their events nor the caches.
LEMMA CacheKept ==
  ASSUME CacheInv, UNCHANGED <<environment, to_czc, told, lamp_output, receiving,
                               cached_lamp_statuses, lamp_status_cache>>
  PROVE  CacheInv'
<1> SUFFICES ASSUME NEW f \in LampFunctions
             PROVE  CacheOf(f)'
  BY DEF CacheInv
<1>1. CacheOf(f) /\ (Delivers' <=> Delivers) /\ (BothStayUp' <=> BothStayUp)
  BY DEF CacheInv, Delivers, BothStayUp
<1>2. (NoEventOf(f)' <=> NoEventOf(f)) /\ \A i : EventFrom(f, i)' <=> EventFrom(f, i)
  BY DEF NoEventOf, EventFrom
<1> QED
  BY <1>1, <1>2 DEF CacheOf, Caught, Unheard

\* The first event of the queue reaches the first cache.
LEMMA ReceiveCache ==
  ASSUME ZInv, CacheInv, Receive, NodeQuiet
  PROVE  CacheInv'
<1> DEFINE e == Head(to_czc)
           n == Len(to_czc')
<1>1. /\ to_czc \in Seq(LampEvent) /\ to_czc # << >> /\ cached_lamp_statuses \in CacheType
  BY DEF ZInv, Typing, Receive
<1>2. /\ to_czc' = Tail(to_czc) /\ receiving = CZC!None /\ receiving' = e
      /\ cached_lamp_statuses' = [cached_lamp_statuses EXCEPT ![e.function] = e.output]
      /\ UNCHANGED <<environment, told, lamp_output, lamp_status_cache>>
  BY DEF Receive, CZC!OnLampStatusReceived, NodeQuiet, node, node_history
<1>3. /\ n \in Nat /\ Len(to_czc) = n + 1
      /\ \A i \in 1 .. n : to_czc'[i] = to_czc[i + 1] /\ i + 1 \in 1 .. n + 1
      /\ e = to_czc[1] /\ e \in LampEvent /\ 1 \in 1 .. n + 1
  BY <1>1, <1>2, HeadTailProperties, EmptySeq
<1>4. e.function \in LampFunctions
  BY <1>3 DEF LampEvent
<1> HIDE DEF e, n
<1> SUFFICES ASSUME NEW f \in LampFunctions
             PROVE  CacheOf(f)'
  BY DEF CacheInv
<1>5. CacheOf(f)
  BY DEF CacheInv
<1>6. (Delivers' <=> Delivers) /\ (BothStayUp' <=> BothStayUp)
  BY <1>2 DEF Delivers, BothStayUp
<1>7. NoEventOf(f) => e.function # f /\ NoEventOf(f)'
  BY <1>3 DEF NoEventOf, n
<1>8. receiving.function # f
  BY <1>2 DEF CZC!None, LampFunctions
<1>9. CASE f \notin told
  BY <1>2, <1>5, <1>6, <1>7, <1>9 DEF CacheOf, Unheard
<1>10. ASSUME f \in told, Delivers
       PROVE  Caught(f)' \/ \E i \in 1 .. n : EventFrom(f, i)'
  <2>1. CASE Caught(f)
    <3>1. e.function # f /\ NoEventOf(f)'
      BY <1>7, <2>1 DEF Caught
    <3>2. cached_lamp_statuses'[f] = lamp_output'[f]
      BY <1>1, <1>2, <1>4, <2>1, <3>1 DEF Caught, CacheType
    <3> QED
      BY <1>2, <1>8, <2>1, <3>1, <3>2 DEF Caught
  <2>2. ASSUME NEW i \in 1 .. n + 1, EventFrom(f, i)
        PROVE  Caught(f)' \/ \E j \in 1 .. n : EventFrom(f, j)'
    <3>1. ASSUME NEW j \in 1 .. n, i <= j + 1, to_czc'[j].function = f
          PROVE  EventFrom(f, j)'
      <4> SUFFICES ASSUME NEW k \in j .. n, to_czc'[k].function = f
                   PROVE  to_czc'[k].output = lamp_output[f]
        BY <1>2, <3>1 DEF EventFrom, n
      <4>1. to_czc'[k] = to_czc[k + 1] /\ k + 1 \in i .. n + 1
        BY <1>3, <3>1
      <4> QED
        BY <1>3, <2>2, <4>1 DEF EventFrom
    <3>2. CASE i > 1
      <4>1. i - 1 \in 1 .. n /\ i <= (i - 1) + 1 /\ to_czc'[i - 1] = to_czc[i]
        BY <1>3, <3>2
      <4>2. to_czc'[i - 1].function = f
        BY <2>2, <4>1 DEF EventFrom
      <4> QED
        BY <3>1, <4>1, <4>2
    <3>3. CASE i = 1 /\ \E j \in 1 .. n : to_czc'[j].function = f
      <4>1. PICK j \in 1 .. n : to_czc'[j].function = f
        BY <3>3
      <4>2. i <= j + 1
        BY <3>3
      <4> QED
        BY <3>1, <4>1, <4>2
    <3>4. CASE i = 1 /\ \A j \in 1 .. n : to_czc'[j].function # f
      <4>1. e.function = f /\ e.output = lamp_output[f]
        BY <1>3, <2>2, <3>4 DEF EventFrom
      <4>2. NoEventOf(f)'
        BY <3>4 DEF NoEventOf, n
      <4>3. cached_lamp_statuses'[f] = lamp_output'[f]
        BY <1>1, <1>2, <4>1 DEF CacheType
      <4> QED
        BY <1>2, <4>1, <4>2, <4>3 DEF Caught
    <3> QED
      BY <3>2, <3>3, <3>4
  <2> QED
    BY <1>3, <1>5, <1>10, <2>1, <2>2 DEF CacheOf
<1> QED
  BY <1>2, <1>6, <1>9, <1>10 DEF CacheOf, n

\* What the receiver holds reaches the second cache.
LEMMA FinishCache ==
  ASSUME ZInv, CacheInv, FinishReceiving, NodeQuiet
  PROVE  CacheInv'
<1>1. /\ receiving' = CZC!None /\ lamp_status_cache \in CacheType
      /\ lamp_status_cache' =
           [lamp_status_cache EXCEPT ![receiving.function] = receiving.output]
      /\ UNCHANGED <<environment, told, lamp_output, cached_lamp_statuses, to_czc>>
  BY DEF ZInv, Typing, FinishReceiving, CZC!UpdateLampStatus, NodeQuiet, node, node_history,
         link
<1> SUFFICES ASSUME NEW f \in LampFunctions
             PROVE  CacheOf(f)'
  BY DEF CacheInv
<1>2. CacheOf(f) /\ (Delivers' <=> Delivers) /\ (BothStayUp' <=> BothStayUp)
  BY <1>1 DEF CacheInv, Delivers, BothStayUp
<1>3. (NoEventOf(f)' <=> NoEventOf(f)) /\ \A i : EventFrom(f, i)' <=> EventFrom(f, i)
  BY <1>1 DEF NoEventOf, EventFrom
<1>4. /\ receiving'.function # f
      /\ lamp_status_cache'[f] = IF receiving.function = f THEN receiving.output
                                 ELSE lamp_status_cache[f]
  BY <1>1 DEF CZC!None, LampFunctions, CacheType
<1> QED
  BY <1>1, <1>2, <1>3, <1>4 DEF CacheOf, Caught, Unheard

LEMMA NodeStepCache ==
  ASSUME ZInv, CacheInv, NodeStep, UNCHANGED environment
  PROVE  CacheInv'
<1> DEFINE c == Head(to_node).command
           n == Len(to_czc)
           k == Len(sent')
<1>1. c \in LampCommand(SequenceCounters)
  BY QueueShrinks DEF ZInv, Typing, NodeStep, Message
<1>2. /\ Node!OnTransportMessageReceived(c) /\ to_czc' = to_czc \o sent'
      /\ told' = told \cup {sent'[i].function : i \in DOMAIN sent'}
      /\ UNCHANGED <<environment, receiving, cached_lamp_statuses, lamp_status_cache>>
  BY DEF NodeStep, controller
<1>3. /\ to_czc \in Seq(LampEvent) /\ sent' \in Seq(LampEvent) /\ lamp_output \in Outputs
  BY <1>1, <1>2, NodeCommand DEF ZInv, Typing, NodeTyping
<1>4. /\ n \in Nat /\ k \in Nat /\ Len(to_czc') = n + k /\ DOMAIN sent' = 1 .. k
      /\ \A i \in 1 .. n : to_czc'[i] = to_czc[i]
      /\ \A i \in n + 1 .. n + k : to_czc'[i] = sent'[i - n] /\ i - n \in 1 .. k
  BY <1>2, <1>3, ConcatProperties
<1>5. Truthful
  BY <1>1, <1>2, CommandEffect DEF ZInv
<1> HIDE DEF c, n, k
<1> SUFFICES ASSUME NEW f \in LampFunctions
             PROVE  CacheOf(f)'
  BY DEF CacheInv
<1>6. CacheOf(f) /\ (Delivers' <=> Delivers) /\ (BothStayUp' <=> BothStayUp)
  BY <1>2 DEF CacheInv, Delivers, BothStayUp
<1>7. \A i \in n + 1 .. n + k :
        to_czc'[i].function = f => to_czc'[i].output = lamp_output'[f]
  BY <1>4, <1>5 DEF Truthful, k
<1>8. CASE TellsOf(f)
  <2>1. PICK i \in 1 .. k : sent'[i].function = f
    BY <1>8 DEF TellsOf, k
  <2>2. PICK p \in 1 .. Len(to_czc') : p = n + i /\ to_czc'[p] = sent'[i]
    BY <1>4
  <2>3. EventFrom(f, p)'
    <3> SUFFICES ASSUME NEW j \in p .. n + k, to_czc'[j].function = f
                 PROVE  to_czc'[j].output = lamp_output'[f]
      BY <1>4, <2>1, <2>2 DEF EventFrom
    <3>1. j \in n + 1 .. n + k
      BY <1>4, <2>2
    <3> QED
      BY <1>7, <3>1
  <2>4. f \in told'
    BY <1>2, <1>4, <2>1
  <2> QED
    BY <2>2, <2>3, <2>4 DEF CacheOf
<1>9. CASE ~TellsOf(f)
  <2>1. lamp_output'[f] = lamp_output[f]
    BY <1>1, <1>2, <1>9, EveryChangeTold DEF ZInv
  <2>2. f \in told' <=> f \in told
    BY <1>2, <1>4, <1>9 DEF TellsOf, k
  <2>3. \A j \in n + 1 .. n + k : to_czc'[j].function # f
    BY <1>4, <1>9 DEF TellsOf, k
  <2>4. NoEventOf(f) => NoEventOf(f)'
    <3> SUFFICES ASSUME NoEventOf(f), NEW j \in 1 .. n + k
                 PROVE  to_czc'[j].function # f
      BY <1>4 DEF NoEventOf
    <3>1. j \in 1 .. n \/ j \in n + 1 .. n + k
      BY <1>4
    <3> QED
      BY <1>4, <2>3, <3>1 DEF NoEventOf, n
  <2>5. ASSUME NEW i \in 1 .. n, EventFrom(f, i)
        PROVE  EventFrom(f, i)' /\ i \in 1 .. n + k
    <3> SUFFICES ASSUME NEW j \in i .. n + k, to_czc'[j].function = f
                 PROVE  to_czc'[j].output = lamp_output'[f]
      BY <1>4, <2>5 DEF EventFrom
    <3>1. j \in i .. n
      BY <1>4, <2>3
    <3> QED
      BY <1>4, <2>1, <2>5, <3>1 DEF EventFrom, n
  <2> QED
    BY <1>2, <1>4, <1>6, <2>1, <2>2, <2>4, <2>5 DEF CacheOf, Caught, Unheard, n
<1> QED
  BY <1>8, <1>9

\* The node forgets, and every lamp is off.
LEMMA RestartNodeCache ==
  ASSUME ZInv, CacheInv, RestartNode, UNCHANGED environment
  PROVE  CacheInv'
<1>1. /\ told' = {} /\ \A f \in LampFunctions : lamp_output'[f] = "kOff"
      /\ node_starts < environment.node_restarts
  BY SameDomain DEF RestartNode, Node!Restart
<1>2. ~BothStayUp'
  <2>1. node_starts \in Nat /\ environment.node_restarts # 0
    BY <1>1 DEF ZInv, Typing
  <2> QED
    BY <1>1, <2>1 DEF BothStayUp
<1> QED
  BY <1>1, <1>2 DEF CacheInv, CacheOf

LEMMA StepCache ==
  ASSUME ZInv, CacheInv, [Next]_vars
  PROVE  CacheInv'
<1>1. CASE ControllerStep /\ UNCHANGED environment
  <2>1. NodeQuiet
    BY <1>1 DEF NodeQuiet, ControllerStep, Press, OperatorThread, Receive, FinishReceiving,
                Restart, history
  <2>2. UNCHANGED <<environment, told, lamp_output>>
    BY <2>1 DEF NodeQuiet, node, node_history
  <2>3. CASE (\E request \in environment.requests : Press(request)) \/ OperatorThread
    <3>1. UNCHANGED <<to_czc, receiving, cached_lamp_statuses, lamp_status_cache>>
      BY <2>3 DEF Press, OperatorThread, CZC!SendLampCommand, CZC!OperatorStep, CZC!SendNext,
                  CZC!ReadContext, CZC!Decide, CZC!caches, link
    <3> QED
      BY <2>2, <3>1, CacheKept
  <2>4. CASE Restart
    <3>1. ~Delivers' /\ ~BothStayUp'
      BY <2>2, <2>4 DEF Restart, Delivers, BothStayUp
    <3> QED
      BY <2>2, <3>1 DEF CacheInv, CacheOf
  <2> QED
    BY <1>1, <2>1, <2>3, <2>4, ReceiveCache, FinishCache DEF ControllerStep
<1>2. CASE NodeStep /\ UNCHANGED environment
  BY <1>2, NodeStepCache
<1>3. CASE RestartNode /\ UNCHANGED environment
  BY <1>3, RestartNodeCache
<1>4. CASE Lose /\ UNCHANGED environment
  <2>1. ~Delivers' /\ ~BothStayUp' /\ UNCHANGED <<told, lamp_output>>
    BY <1>4 DEF Lose, Delivers, BothStayUp, node
  <2> QED
    BY <2>1 DEF CacheInv, CacheOf
<1>5. CASE UNCHANGED vars
  BY <1>5, CacheKept DEF vars, controller, node, link, history, node_history
<1> QED
  BY <1>1, <1>2, <1>3, <1>4, <1>5 DEF Next

LEMMA CacheInvariance == Spec => []CacheInv
<1>1. Init => CacheInv
  BY InitCache
<1>2. ZInv /\ CacheInv /\ [Next]_vars => CacheInv'
  BY StepCache
<1> QED
  BY <1>1, <1>2, Invariance, PTL DEF Spec

-----------------------------------------------------------------------------
(* Which indicators may be on.  A command for an indicator nobody asked    *)
(* for is a companion: the last hazard command before it, waiting or       *)
(* handled, carries its counter, unless a hazard command was lost or       *)
(* forgotten (orphans).                                                    *)

\* Switches on nothing that was not asked for.
Harmless(c) == c.function \in Indicators /\ c.action # "kDeactivate" => c.function \in asked

\* Once the first i commands are handled, the node knows q as its hazard counter.
Precedes(i, q) ==
  \E k \in 0 .. i :
    /\ \A j \in k + 1 .. i : ~IsHazard(to_node[j])
    /\ IF k = 0 THEN last_hazard_sequence = q
       ELSE IsHazard(to_node[k]) /\ to_node[k].command.sequence_counter = q

CompanionAt(i) ==
  \/ Harmless(to_node[i].command)
  \/ Precedes(i, to_node[i].command.sequence_counter)

DecisionIsHarmless ==
  \/ decision[1].function = "kHazardLamp"
  \/ \A i \in 1 .. Len(decision) : Harmless(decision[i])
  \/ Precedes(Len(to_node), lamp_command.sequence_counter)

AskedInv ==
  ~orphans =>
    /\ Node!Lit \subseteq asked /\ active_indicator_before_hazard \in asked \cup {"kUnknown"}
    /\ operator # "idle" => lamp_command.function \in asked
    /\ \A i \in 1 .. Len(to_node) : CompanionAt(i)
    /\ operator = "send" => DecisionIsHarmless

LEMMA InitAsked ==
  ASSUME Init
  PROVE  AskedInv
<1>1. /\ Node!Lit = {} /\ active_indicator_before_hazard = "kUnknown"
      /\ operator = "idle" /\ to_node = << >>
  BY SameDomain, StartTypes
     DEF Init, CZC!Init, Node!Init, Node!Lit, Node!IsOn, Indicators, LampFunctions
<1> QED
  BY <1>1 DEF AskedInv

\* A command that is not of the hazard lamp changes nothing of what precedes it.
LEMMA PrecedesKept ==
  ASSUME UNCHANGED <<to_node, last_hazard_sequence>>, NEW i, NEW q
  PROVE  Precedes(i, q)' <=> Precedes(i, q)
  BY DEF Precedes, IsHazard

LEMMA HarmlessKept ==
  ASSUME asked \subseteq asked', NEW c, Harmless(c)
  PROVE  Harmless(c)'
  BY DEF Harmless

LEMMA PressAsked ==
  ASSUME ZInv, AskedInv, NEW request \in environment.requests, Press(request), NodeQuiet
  PROVE  AskedInv'
<1>1. /\ asked' = asked \cup {request.function} /\ lamp_command'.function = request.function
      /\ operator' = "kLeftIndicator"
      /\ UNCHANGED <<to_node, last_hazard_sequence, lamp_output, orphans,
                     active_indicator_before_hazard>>
  BY DEF Press, CZC!SendLampCommand, NodeQuiet, node, node_history, link
<1> SUFFICES ASSUME ~orphans'
             PROVE  AskedInv'
  BY DEF AskedInv
<1>2. \A i \in 1 .. Len(to_node) : CompanionAt(i)'
  BY <1>1, PrecedesKept, HarmlessKept DEF AskedInv, CompanionAt
<1>3. Node!Lit' = Node!Lit
  BY <1>1 DEF Node!Lit, Node!IsOn
<1> QED
  BY <1>1, <1>2, <1>3 DEF AskedInv

\* What arbitration makes of a request for an indicator switches on that one only.
LEMMA ArbitrationHarmless ==
  ASSUME NEW c \in LampCommand(SequenceCounters), NEW ctx, c.function \in asked,
         c.action # "kNoAction"
  PROVE  \/ CZC!Arbitrate(c, ctx)[1].function = "kHazardLamp"
         \/ \A i \in 1 .. Len(CZC!Arbitrate(c, ctx)) : Harmless(CZC!Arbitrate(c, ctx)[i])
<1> DEFINE d == CZC!Arbitrate(c, ctx)
<1>1. CASE d = << >>
  BY <1>1
<1>2. CASE c.function = "kHazardLamp"
  BY <1>2, Arbitration
<1>3. CASE d = <<c>>
  BY <1>3 DEF Harmless
<1>4. CASE d = CZC!Exchange(c) /\ c.function \in Indicators
  <2>1. d = <<CZC!MakeDerived(c, CZC!Opposite(c.function), "kDeactivate"),
              [c EXCEPT !.action = "kActivate"]>>
    BY <1>4 DEF CZC!Exchange
  <2>2. CZC!MakeDerived(c, CZC!Opposite(c.function), "kDeactivate").action = "kDeactivate"
        /\ [c EXCEPT !.action = "kActivate"].function = c.function
    BY DEF CZC!MakeDerived, LampCommand
  <2> HIDE DEF d
  <2>3. Len(d) = 2 /\ d[1].action = "kDeactivate" /\ d[2].function = c.function
    BY <2>1, <2>2
  <2>4. \A i \in 1 .. Len(d) : i = 1 \/ i = 2
    BY <2>3
  <2>5. \A i \in 1 .. Len(d) : Harmless(d[i])
    BY <2>3, <2>4 DEF Harmless
  <2> QED
    BY <2>5 DEF d
<1> QED
  <2>1. \/ d = << >> \/ c.function = "kHazardLamp" \/ d = <<c>>
        \/ d = CZC!Exchange(c) /\ c.function \in Indicators
    BY SameDomain DEF CZC!Arbitrate, CZC!IsIndicatorActivationCommand
  <2> QED
    BY <1>1, <1>2, <1>3, <1>4, <2>1

\* Up to the first send.
LEMMA ThinkAsked ==
  ASSUME ZInv, AskedInv, OperatorThread, CZC!OperatorStep, NodeQuiet
  PROVE  AskedInv'
<1>1. /\ UNCHANGED <<lamp_command, asked, last_hazard_sequence, lamp_output, orphans,
                     active_indicator_before_hazard>>
      /\ operator # "idle" /\ operator # "send"
  BY DEF OperatorThread, CZC!OperatorStep, CZC!ReadContext, CZC!Decide, history,
         operator_history, NodeQuiet, node, node_history
<1>2. to_node' = to_node
  BY QueueKept
     DEF ZInv, Typing, OperatorThread, CZC!OperatorStep, CZC!ReadContext, CZC!Decide
<1> SUFFICES ASSUME ~orphans
             PROVE  AskedInv'
  BY <1>1 DEF AskedInv
<1>3. \A i \in 1 .. Len(to_node) : CompanionAt(i)'
  BY <1>1, <1>2, PrecedesKept, HarmlessKept DEF AskedInv, CompanionAt
<1>4. Node!Lit' = Node!Lit
  BY <1>1 DEF Node!Lit, Node!IsOn
<1>5. operator' = "send" => DecisionIsHarmless'
  <2> SUFFICES ASSUME operator' = "send"
               PROVE  DecisionIsHarmless'
    OBVIOUS
  <2>1. decision' = CZC!Arbitrate(lamp_command, context)
    BY <1>1 DEF CZC!OperatorStep, CZC!ReadContext, CZC!Decide
  <2>2. /\ lamp_command \in LampCommand(SequenceCounters) /\ lamp_command.function \in asked
        /\ lamp_command.action # "kNoAction"
    BY <1>1 DEF ZInv, Typing, DecisionInv, AskedInv
  <2>3. \/ decision'[1].function = "kHazardLamp"
        \/ \A i \in 1 .. Len(decision') : Harmless(decision'[i])
    BY <2>1, <2>2, ArbitrationHarmless
  <2> QED
    BY <1>1, <2>3 DEF DecisionIsHarmless, Harmless
<1> QED
  BY <1>1, <1>2, <1>3, <1>4, <1>5 DEF AskedInv

\* The queue grows by one command.
LEMMA PrecedesGrows ==
  ASSUME NEW n \in Nat, \A i \in 1 .. n : to_node'[i] = to_node[i],
         last_hazard_sequence' = last_hazard_sequence, NEW q
  PROVE  /\ \A i \in 0 .. n : Precedes(i, q) => Precedes(i, q)'
         /\ Precedes(n, q) /\ ~IsHazard(to_node'[n + 1]) => Precedes(n + 1, q)'
         /\ IsHazard(to_node'[n + 1]) /\ to_node'[n + 1].command.sequence_counter = q =>
              Precedes(n + 1, q)'
<1>1. ASSUME NEW i \in 0 .. n, Precedes(i, q)
      PROVE  Precedes(i, q)'
  <2>1. PICK k \in 0 .. i :
          /\ \A j \in k + 1 .. i : ~IsHazard(to_node[j])
          /\ IF k = 0 THEN last_hazard_sequence = q
             ELSE IsHazard(to_node[k]) /\ to_node[k].command.sequence_counter = q
    BY <1>1 DEF Precedes
  <2>2. \A j \in k + 1 .. i : j \in 1 .. n
    OBVIOUS
  <2>3. k = 0 \/ k \in 1 .. n
    OBVIOUS
  <2> QED
    BY <2>1, <2>2, <2>3 DEF Precedes, IsHazard
<1>2. ASSUME Precedes(n, q), ~IsHazard(to_node'[n + 1])
      PROVE  Precedes(n + 1, q)'
  <2>1. PICK k \in 0 .. n :
          /\ \A j \in k + 1 .. n : ~IsHazard(to_node[j])
          /\ IF k = 0 THEN last_hazard_sequence = q
             ELSE IsHazard(to_node[k]) /\ to_node[k].command.sequence_counter = q
    BY <1>2 DEF Precedes
  <2>2. \A j \in k + 1 .. n + 1 : ~IsHazard(to_node'[j])
    <3> TAKE j \in k + 1 .. n + 1
    <3>1. j = n + 1 \/ (j \in k + 1 .. n /\ j \in 1 .. n)
      OBVIOUS
    <3> QED
      BY <1>2, <2>1, <3>1 DEF IsHazard
  <2>3. k \in 0 .. n + 1 /\ (k = 0 \/ k \in 1 .. n)
    OBVIOUS
  <2> QED
    BY <2>1, <2>2, <2>3 DEF Precedes, IsHazard
<1>3. ASSUME IsHazard(to_node'[n + 1]), to_node'[n + 1].command.sequence_counter = q
      PROVE  Precedes(n + 1, q)'
  <2>1. n + 1 \in 0 .. n + 1 /\ n + 1 # 0 /\ (n + 1) + 1 .. n + 1 = {}
    OBVIOUS
  <2> QED
    BY <1>3, <2>1 DEF Precedes, IsHazard
<1> QED
  BY <1>1, <1>2, <1>3

LEMMA SendAsked ==
  ASSUME ZInv, AskedInv, OperatorThread, NEW accepted \in BOOLEAN, CZC!SendNext(accepted),
         NodeQuiet
  PROVE  AskedInv'
<1> DEFINE c == Head(decision)
<1>1. /\ UNCHANGED <<lamp_command, asked, last_hazard_sequence, lamp_output, orphans,
                     active_indicator_before_hazard, presses>>
      /\ operator = "send" /\ outgoing' = <<c>>
      /\ decision' = IF accepted THEN Tail(decision) ELSE << >>
      /\ operator' = IF decision' = << >> THEN "idle" ELSE "send"
  BY DEF OperatorThread, CZC!SendNext, history, operator_history, NodeQuiet, node,
         node_history
<1> SUFFICES ASSUME ~orphans
             PROVE  AskedInv'
  BY <1>1 DEF AskedInv
<1>2. /\ decision \in Seq(LampCommand(SequenceCounters)) /\ decision # << >>
      /\ DecisionOf(decision, lamp_command)
  BY <1>1 DEF ZInv, Typing, DecisionInv
<1>3. /\ c \in LampCommand(SequenceCounters) /\ c = decision[1] /\ 1 \in 1 .. Len(decision)
      /\ \A i \in 1 .. Len(Tail(decision)) :
           Tail(decision)[i] = decision[i + 1] /\ i + 1 \in 1 .. Len(decision)
  BY <1>2, HeadTailProperties, EmptySeq
<1>4. c.sequence_counter = lamp_command.sequence_counter
  BY <1>2, <1>3 DEF DecisionOf
<1>5. PICK n \in Nat : n = Len(to_node)
  BY LenProperties DEF ZInv, Typing
<1>6. /\ Len(to_node') = n + 1 /\ \A i \in 1 .. n : to_node'[i] = to_node[i]
      /\ to_node'[n + 1].command = c
  BY <1>1, <1>3, <1>5, QueueGrows DEF ZInv, Typing, OperatorThread
<1>7. IsHazard(to_node'[n + 1]) <=> c.function = "kHazardLamp"
  BY <1>6 DEF IsHazard
<1> DEFINE q == lamp_command.sequence_counter
<1> HIDE DEF c
<1>8. PICK p : p = q
  OBVIOUS
<1>9. \/ c.function = "kHazardLamp" \/ Precedes(n, p)
      \/ \A i \in 1 .. Len(decision) : Harmless(decision[i])
  BY <1>1, <1>3, <1>5, <1>8 DEF AskedInv, DecisionIsHarmless
<1>10. \A i \in 1 .. n : CompanionAt(i)'
  <2> SUFFICES ASSUME NEW i \in 1 .. n
               PROVE  CompanionAt(i)'
    OBVIOUS
  <2>1. CompanionAt(i) /\ i \in 0 .. n /\ to_node'[i] = to_node[i]
    BY <1>5, <1>6 DEF AskedInv
  <2>2. PICK r : r = to_node[i].command.sequence_counter
    OBVIOUS
  <2>3. Precedes(i, r) => Precedes(i, r)'
    BY <1>1, <1>6, <2>1, PrecedesGrows
  <2> QED
    BY <1>1, <2>1, <2>2, <2>3 DEF CompanionAt, Harmless
<1>11. CompanionAt(n + 1)' /\ (c.function = "kHazardLamp" \/ Precedes(n, p) => Precedes(n + 1, p)')
  <2>1. c.function = "kHazardLamp" \/ Precedes(n, p) => Precedes(n + 1, p)'
    BY <1>1, <1>4, <1>6, <1>7, <1>8, PrecedesGrows
  <2>2. to_node'[n + 1].command = c /\ asked' = asked
    BY <1>1, <1>6
  <2>3. (\A i \in 1 .. Len(decision) : Harmless(decision[i])) => Harmless(c)
    BY <1>3
  <2> QED
    BY <1>4, <1>8, <1>9, <2>1, <2>2, <2>3 DEF CompanionAt, Harmless
<1>12. \A i \in 1 .. n + 1 : CompanionAt(i)'
  <2> TAKE i \in 1 .. n + 1
  <2>1. i \in 1 .. n \/ i = n + 1
    OBVIOUS
  <2> QED
    BY <1>10, <1>11, <2>1
<1>13. operator' = "send" => DecisionIsHarmless'
  <2> SUFFICES ASSUME operator' = "send"
               PROVE  DecisionIsHarmless'
    OBVIOUS
  <2>1. CASE c.function = "kHazardLamp" \/ Precedes(n, p)
    BY <1>1, <1>6, <1>8, <1>11, <2>1 DEF DecisionIsHarmless
  <2>2. CASE \A i \in 1 .. Len(decision) : Harmless(decision[i])
    <3>1. decision' = Tail(decision)
      BY <1>1
    <3>2. \A i \in 1 .. Len(decision') : Harmless(decision'[i])
      BY <1>1, <1>3, <2>2, <3>1 DEF Harmless
    <3> QED
      BY <1>1, <3>2 DEF DecisionIsHarmless, Harmless
  <2> QED
    BY <1>9, <2>1, <2>2
<1>14. Node!Lit' = Node!Lit
  BY <1>1 DEF Node!Lit, Node!IsOn
<1> QED
  BY <1>1, <1>6, <1>12, <1>13, <1>14 DEF AskedInv

\* The first command leaves the queue: handled, or lost but not of the hazard lamp.
LEMMA PrecedesShrinks ==
  ASSUME to_node \in Seq(Message), to_node # << >>, to_node' = Tail(to_node),
         last_hazard_sequence' = IF IsHazard(Head(to_node))
                                 THEN Head(to_node).command.sequence_counter
                                 ELSE last_hazard_sequence,
         NEW i \in 1 .. Len(to_node), NEW q, Precedes(i, q)
  PROVE  Precedes(i - 1, q)'
<1>1. PICK k \in 0 .. i :
        /\ \A j \in k + 1 .. i : ~IsHazard(to_node[j])
        /\ IF k = 0 THEN last_hazard_sequence = q
           ELSE IsHazard(to_node[k]) /\ to_node[k].command.sequence_counter = q
  BY DEF Precedes
<1>2. /\ Len(to_node) \in Nat \ {0} /\ Len(to_node') = Len(to_node) - 1
      /\ \A j \in 1 .. Len(to_node') : to_node'[j] = to_node[j + 1]
      /\ Head(to_node) = to_node[1]
  BY QueueShrinks
<1> DEFINE first == IF k = 0 THEN 0 ELSE k - 1
<1>3. first \in 0 .. i - 1 /\ i \in Nat \ {0} /\ k \in Nat
  OBVIOUS
<1>4. \A j \in first + 1 .. i - 1 : ~IsHazard(to_node'[j])
  <2> TAKE j \in first + 1 .. i - 1
  <2>1. j \in 1 .. Len(to_node') /\ j + 1 \in k + 1 .. i
    BY <1>2, <1>3
  <2> QED
    BY <1>1, <1>2, <2>1 DEF IsHazard
<1>5. IF first = 0 THEN last_hazard_sequence' = q
      ELSE IsHazard(to_node'[first]) /\ to_node'[first].command.sequence_counter = q
  <2>1. CASE k = 0
    <3>1. ~IsHazard(to_node[1])
      BY <1>1, <1>3, <2>1
    <3> QED
      BY <1>1, <1>2, <2>1, <3>1
  <2>2. CASE k = 1
    BY <1>1, <1>2, <2>2
  <2>3. CASE k > 1
    <3>1. first = k - 1 /\ first # 0 /\ first \in 1 .. Len(to_node')
      BY <1>2, <2>3
    <3>2. to_node'[first] = to_node[k]
      BY <1>2, <3>1
    <3> QED
      BY <1>1, <2>3, <3>1, <3>2 DEF IsHazard
  <2> QED
    BY <1>3, <2>1, <2>2, <2>3
<1> HIDE DEF first
<1>6. PICK m \in 0 .. i - 1 : m = first
  BY <1>3
<1> QED
  BY <1>4, <1>5, <1>6 DEF Precedes, IsHazard

LEMMA QueueShrinksAsked ==
  ASSUME ZInv, to_node # << >>, to_node' = Tail(to_node),
         last_hazard_sequence' = IF IsHazard(Head(to_node))
                                 THEN Head(to_node).command.sequence_counter
                                 ELSE last_hazard_sequence,
         UNCHANGED <<asked, operator, decision, lamp_command>>,
         \A i \in 1 .. Len(to_node) : CompanionAt(i),
         operator = "send" => DecisionIsHarmless
  PROVE  /\ \A i \in 1 .. Len(to_node') : CompanionAt(i)'
         /\ operator' = "send" => DecisionIsHarmless'
<1>1. /\ to_node \in Seq(Message) /\ Len(to_node) \in Nat \ {0}
      /\ Len(to_node') = Len(to_node) - 1
      /\ \A i \in 1 .. Len(to_node') : to_node'[i] = to_node[i + 1]
  BY QueueShrinks DEF ZInv, Typing
<1>2. ASSUME NEW i \in 1 .. Len(to_node')
      PROVE  CompanionAt(i)'
  <2>1. PICK j \in 1 .. Len(to_node) : j = i + 1
    BY <1>1
  <2>2. PICK r : r = to_node[j].command.sequence_counter
    OBVIOUS
  <2>3. Precedes(j, r) => Precedes(j - 1, r)'
    BY <1>1, PrecedesShrinks
  <2>4. CompanionAt(j) /\ to_node'[i] = to_node[j] /\ j - 1 = i
    BY <1>1, <2>1
  <2> QED
    BY <2>2, <2>3, <2>4 DEF CompanionAt, Harmless
<1>3. operator' = "send" => DecisionIsHarmless'
  <2> SUFFICES ASSUME operator = "send"
               PROVE  DecisionIsHarmless'
    OBVIOUS
  <2>1. PICK n \in 1 .. Len(to_node) : n = Len(to_node)
    <3>1. Len(to_node) \in 1 .. Len(to_node)
      BY <1>1
    <3> QED
      BY <3>1
  <2>2. PICK r : r = lamp_command.sequence_counter
    OBVIOUS
  <2>3. Precedes(n, r) => Precedes(n - 1, r)'
    BY <1>1, PrecedesShrinks
  <2>4. n - 1 = Len(to_node')
    BY <1>1, <2>1
  <2> QED
    BY <2>1, <2>2, <2>3, <2>4 DEF DecisionIsHarmless, Harmless
<1> QED
  BY <1>2, <1>3

LEMMA NodeStepAsked ==
  ASSUME ZInv, AskedInv, NodeStep, UNCHANGED environment
  PROVE  AskedInv'
<1> DEFINE c == Head(to_node).command
           f == c.function
<1>1. /\ UNCHANGED <<asked, operator, decision, lamp_command, orphans>>
      /\ to_node # << >> /\ to_node' = Tail(to_node) /\ Node!OnTransportMessageReceived(c)
  BY DEF NodeStep, controller, operator_history
<1>2. /\ to_node \in Seq(Message) /\ Head(to_node) = to_node[1] /\ 1 \in 1 .. Len(to_node)
      /\ c \in LampCommand(SequenceCounters)
  BY <1>1, QueueShrinks DEF ZInv, Typing, Message
<1>3. /\ lamp_output \in Outputs /\ lamp_output' \in Outputs
      /\ last_hazard_sequence' = IF IsHazard(Head(to_node)) THEN c.sequence_counter
                                 ELSE last_hazard_sequence
  BY <1>1, <1>2, NodeCommand DEF ZInv, Typing, NodeTyping, HazardEffect, IsHazard
<1> SUFFICES ASSUME ~orphans
             PROVE  AskedInv'
  BY <1>1 DEF AskedInv
<1>4. /\ Node!Lit \subseteq asked /\ active_indicator_before_hazard \in asked \cup {"kUnknown"}
      /\ operator # "idle" => lamp_command.function \in asked
      /\ \A i \in 1 .. Len(to_node) : CompanionAt(i)
      /\ operator = "send" => DecisionIsHarmless
  BY DEF AskedInv
<1>5. /\ \A i \in 1 .. Len(to_node') : CompanionAt(i)'
      /\ operator' = "send" => DecisionIsHarmless'
  BY <1>1, <1>3, <1>4, QueueShrinksAsked
<1>6. /\ \A g \in Indicators : g \in Node!Lit <=> lamp_output[g] = "kOn"
      /\ \A g \in Indicators : g \in Node!Lit' <=> lamp_output'[g] = "kOn"
      /\ Node!Lit \subseteq Indicators /\ Node!Lit' \subseteq Indicators
      /\ Indicators = {"kLeftIndicator", "kRightIndicator"}
      /\ Indicators \subseteq LampFunctions /\ "kHazardLamp" \notin Indicators
      /\ "kHazardLamp" \in LampFunctions
  BY SameDomain DEF Node!Lit, Node!IsOn, Indicators, LampFunctions
<1>7. ASSUME f \in Indicators, ~Node!IsCompanion(c), c.action # "kDeactivate"
      PROVE  f \in asked
  <2>1. CompanionAt(1) /\ ~IsHazard(to_node[1])
    BY <1>2, <1>4, <1>6, <1>7 DEF IsHazard
  <2>2. CASE Harmless(c)
    BY <1>7, <2>2 DEF Harmless
  <2>3. CASE Precedes(1, c.sequence_counter)
    <3>1. PICK k \in 0 .. 1 :
            /\ \A j \in k + 1 .. 1 : ~IsHazard(to_node[j])
            /\ IF k = 0 THEN last_hazard_sequence = c.sequence_counter
               ELSE IsHazard(to_node[k]) /\ to_node[k].command.sequence_counter
                                              = c.sequence_counter
      BY <2>3 DEF Precedes
    <3>2. k = 0 \/ k = 1
      OBVIOUS
    <3> QED
      BY <1>7, <2>1, <3>1, <3>2 DEF Node!IsCompanion
  <2> QED
    BY <1>2, <2>1, <2>2, <2>3 DEF CompanionAt
<1>8. Node!Lit' \subseteq asked /\ active_indicator_before_hazard' \in asked \cup {"kUnknown"}
  <2>1. CASE HazardOnEffect
    <3>1. \A g \in Indicators : lamp_output'[g] = lamp_output[g]
      BY <1>3, <1>6, <2>1 DEF HazardOnEffect, Outputs
    <3>2. active_indicator_before_hazard' \in Node!Lit \cup {"kUnknown"}
      BY <1>6, <2>1 DEF HazardOnEffect
    <3> QED
      BY <1>4, <1>6, <3>1, <3>2
  <2>2. CASE HazardOffEffect
    <3>1. \A g \in Indicators :
            lamp_output'[g] = IF active_indicator_before_hazard = g THEN "kOn" ELSE "kOff"
      BY <1>3, <1>6, <2>2 DEF HazardOffEffect, Outputs
    <3>2. \A g \in Node!Lit' : g = active_indicator_before_hazard /\ g # "kUnknown"
      BY <1>6, <3>1
    <3> QED
      BY <1>4, <2>2, <3>2 DEF HazardOffEffect
  <2>3. ASSUME f \in Indicators, ~Node!DropsIndicator(c),
               IndicatorEffect(f, Resolve(lamp_output[f], c.action))
        PROVE  Node!Lit' \subseteq asked
                 /\ active_indicator_before_hazard' \in asked \cup {"kUnknown"}
    <3> DEFINE a == Resolve(lamp_output[f], c.action)
    <3>1. a = "kActivate" => c.action # "kDeactivate"
      BY DEF Resolve
    <3>2. a = "kActivate" => f \in asked
      BY <1>7, <2>3, <3>1 DEF Node!DropsIndicator
    <3> HIDE DEF a, f
    <3>3. IndicatorEffect(f, a)
      BY <2>3 DEF a
    <3>4. \A g \in Node!Lit' : g \in Node!Lit \/ (g = f /\ a = "kActivate")
      BY <1>3, <1>6, <2>3, <3>3 DEF IndicatorEffect, Opposite, Outputs
    <3> QED
      BY <1>4, <3>2, <3>3, <3>4 DEF IndicatorEffect
  <2>4. CASE OtherEffect(c)
    <3>1. \A g \in Indicators : lamp_output'[g] = lamp_output[g]
      BY <1>6, <2>4 DEF OtherEffect
    <3> QED
      BY <1>4, <1>6, <2>4, <3>1 DEF OtherEffect
  <2> QED
    BY <1>1, <1>2, <2>1, <2>2, <2>3, <2>4, CommandEffect DEF ZInv
<1> QED
  BY <1>1, <1>4, <1>5, <1>8 DEF AskedInv

LEMMA StepAsked ==
  ASSUME ZInv, AskedInv, [Next]_vars
  PROVE  AskedInv'
<1>1. CASE ControllerStep /\ UNCHANGED environment
  <2>1. NodeQuiet
    BY <1>1 DEF NodeQuiet, ControllerStep, Press, OperatorThread, Receive, FinishReceiving,
                Restart, history
  <2>2. /\ UNCHANGED <<last_hazard_sequence, lamp_output, orphans,
                       active_indicator_before_hazard>>
        /\ Node!Lit' = Node!Lit
    BY <2>1 DEF NodeQuiet, node, node_history, Node!Lit, Node!IsOn
  <2>3. CASE OperatorThread
    <3>1. environment.answers \subseteq BOOLEAN
      BY EnvironmentsAssumption DEF ZInv, Typing
    <3>2. ASSUME NEW accepted \in environment.answers, CZC!SendNext(accepted)
          PROVE  AskedInv'
      BY <2>1, <2>3, <3>1, <3>2, SendAsked
    <3> QED
      BY <2>1, <2>3, <3>2, ThinkAsked DEF OperatorThread
  <2>4. CASE Receive \/ FinishReceiving
    <3>1. UNCHANGED <<operator, lamp_command, decision, to_node, asked>>
      BY <2>4 DEF Receive, FinishReceiving, CZC!OnLampStatusReceived, CZC!UpdateLampStatus,
                  CZC!operator_thread, history, operator_history, link
    <3> QED
      BY <2>2, <3>1
         DEF AskedInv, CompanionAt, DecisionIsHarmless, Precedes, Harmless, IsHazard
  <2>5. CASE Restart
    <3>1. operator' = "idle" /\ UNCHANGED <<to_node, asked>>
      BY <2>5, StartTypes DEF Restart, CZC!Restart, history, operator_history
    <3> QED
      BY <2>2, <3>1 DEF AskedInv, CompanionAt, Precedes, Harmless, IsHazard
  <2> QED
    BY <1>1, <2>1, <2>3, <2>4, <2>5, PressAsked DEF ControllerStep
<1>2. CASE NodeStep /\ UNCHANGED environment
  BY <1>2, NodeStepAsked
<1>3. CASE RestartNode /\ UNCHANGED environment
  <2> SUFFICES ASSUME ~orphans'
               PROVE  AskedInv'
    BY DEF AskedInv
  <2>1. /\ ~orphans /\ to_node' = << >> /\ operator' = operator /\ operator # "send"
        /\ UNCHANGED <<asked, lamp_command>>
        /\ active_indicator_before_hazard' = "kUnknown"
        /\ \A f \in LampFunctions : lamp_output'[f] = "kOff"
    BY <1>3, SameDomain DEF RestartNode, Node!Restart, controller, operator_history
  <2>2. Node!Lit' = {}
    BY <2>1, SameDomain DEF Node!Lit, Node!IsOn, Indicators, LampFunctions
  <2> QED
    BY <2>1, <2>2 DEF AskedInv
<1>4. CASE Lose /\ UNCHANGED environment
  <2> SUFFICES ASSUME ~orphans'
               PROVE  AskedInv'
    BY DEF AskedInv
  <2>1. /\ UNCHANGED <<asked, operator, decision, lamp_command, last_hazard_sequence,
                       lamp_output, active_indicator_before_hazard>>
        /\ Node!Lit' = Node!Lit
    BY <1>4 DEF Lose, controller, node, operator_history, Node!Lit, Node!IsOn
  <2>2. CASE LoseCommand
    <3>1. /\ ~orphans /\ to_node # << >> /\ to_node' = Tail(to_node)
          /\ ~IsHazard(Head(to_node))
      BY <2>2 DEF LoseCommand, IsHazard
    <3>2. /\ \A i \in 1 .. Len(to_node') : CompanionAt(i)'
          /\ operator' = "send" => DecisionIsHarmless'
      BY <2>1, <3>1, QueueShrinksAsked DEF AskedInv
    <3> QED
      BY <2>1, <3>1, <3>2 DEF AskedInv
  <2>3. CASE LoseEvent
    <3>1. UNCHANGED <<to_node, orphans>>
      BY <2>3 DEF LoseEvent
    <3> QED
      BY <2>1, <3>1
         DEF AskedInv, CompanionAt, DecisionIsHarmless, Precedes, Harmless, IsHazard
  <2> QED
    BY <1>4, <2>2, <2>3 DEF Lose
<1>5. CASE UNCHANGED vars
  <2>1. UNCHANGED <<operator, lamp_command, decision, to_node, asked, last_hazard_sequence,
                    lamp_output, orphans, active_indicator_before_hazard>>
    BY <1>5 DEF vars, controller, node, link, history, operator_history, node_history
  <2> QED
    BY <2>1 DEF AskedInv, CompanionAt, DecisionIsHarmless, Precedes, Harmless, IsHazard,
                Node!Lit, Node!IsOn
<1> QED
  BY <1>1, <1>2, <1>3, <1>4, <1>5 DEF Next

LEMMA AskedInvariance == Spec => []AskedInv
<1>1. Init => AskedInv
  BY InitAsked
<1>2. ZInv /\ AskedInv /\ [Next]_vars => AskedInv'
  BY StepAsked
<1> QED
  BY <1>1, <1>2, Invariance, PTL DEF Spec

-----------------------------------------------------------------------------
(* What a patient operator gets.  The node's view of the requests is what  *)
(* its lamps and its memory of the interrupted indicator say; each command *)
(* that counts answers a request as Answer says it should be.              *)

View == [hazard |-> Node!IsOn("kHazardLamp"), lit |-> Node!Lit,
         saved |-> {active_indicator_before_hazard} \ {"kUnknown"}]

\* Never both indicators, and an indicator is remembered only while hazard is on.
Safe ==
  /\ ~(Node!IsOn("kLeftIndicator") /\ Node!IsOn("kRightIndicator"))
  /\ ~Node!IsOn("kHazardLamp") => active_indicator_before_hazard = "kUnknown"

LEMMA LitFacts ==
  /\ Node!Lit \subseteq Indicators /\ Node!Lit' \subseteq Indicators
  /\ \A g \in Indicators : /\ g \in Node!Lit <=> lamp_output[g] = "kOn"
                           /\ g \in Node!Lit' <=> lamp_output'[g] = "kOn"
  /\ Indicators = {"kLeftIndicator", "kRightIndicator"} /\ "kHazardLamp" \notin Indicators
  /\ Indicators \subseteq LampFunctions /\ "kHazardLamp" \in LampFunctions
  BY SameDomain DEF Node!Lit, Node!IsOn, Indicators, LampFunctions

LEMMA HazardView ==
  ASSUME Typing, Safe, NEW c \in LampCommand(SequenceCounters), c.function = "kHazardLamp",
         HazardOnEffect \/ HazardOffEffect
  PROVE  Safe' /\ View' = Answer(View, c)
<1> DEFINE active == active_indicator_before_hazard
<1>1. lamp_output \in Outputs /\ active \in Indicators \cup {"kUnknown"}
  BY DEF Typing
<1>2. CASE HazardOnEffect
  <2>1. /\ lamp_output["kHazardLamp"] = "kOff" /\ lamp_output'["kHazardLamp"] = "kOn"
        /\ \A g \in Indicators : lamp_output'[g] = lamp_output[g]
    BY <1>1, <1>2, LitFacts DEF HazardOnEffect, Outputs
  <2>2. Node!Lit' = Node!Lit
    BY <2>1, LitFacts
  <2>3. (active' = "kUnknown" /\ Node!Lit = {}) \/ (active' # "kUnknown" /\ Node!Lit = {active'})
    <3> DEFINE left == lamp_output["kLeftIndicator"] = "kOn"
               right == lamp_output["kRightIndicator"] = "kOn"
    <3>1. /\ ~(left /\ right)
          /\ active' = IF left THEN "kLeftIndicator"
                       ELSE IF right THEN "kRightIndicator" ELSE "kUnknown"
      BY <1>2 DEF HazardOnEffect, Safe, Node!IsOn
    <3>2. \A g : g \in Node!Lit <=>
                (g = "kLeftIndicator" /\ left) \/ (g = "kRightIndicator" /\ right)
      BY LitFacts
    <3> HIDE DEF left, right
    <3> QED
      BY <3>1, <3>2
  <2>4. Answer(View, c) = [hazard |-> TRUE, lit |-> Node!Lit, saved |-> Node!Lit]
    BY <2>1 DEF Answer, View, Node!IsOn
  <2>5. View' = [hazard |-> TRUE, lit |-> Node!Lit, saved |-> {active'} \ {"kUnknown"}]
    BY <2>1, <2>2 DEF View, Node!IsOn
  <2>6. {active'} \ {"kUnknown"} = Node!Lit
    BY <2>3
  <2>7. Safe'
    BY <2>1, LitFacts DEF Safe, Node!IsOn
  <2> QED
    BY <2>4, <2>5, <2>6, <2>7
<1>3. CASE HazardOffEffect
  <2>1. /\ lamp_output["kHazardLamp"] = "kOn" /\ lamp_output'["kHazardLamp"] = "kOff"
        /\ \A g \in Indicators :
             lamp_output'[g] = IF active = g THEN "kOn" ELSE "kOff"
        /\ active' = "kUnknown"
    BY <1>1, <1>3, LitFacts DEF HazardOffEffect, Outputs
  <2>2. Node!Lit' = {active} \ {"kUnknown"}
    <3>1. \A g : g \in Node!Lit' => g \in Indicators /\ g = active /\ g # "kUnknown"
      BY <2>1, LitFacts
    <3>2. \A g : g = active /\ g # "kUnknown" => g \in Node!Lit'
      BY <1>1, <2>1, LitFacts
    <3> QED
      BY <3>1, <3>2
  <2>3. Answer(View, c) = [hazard |-> FALSE, lit |-> {active} \ {"kUnknown"}, saved |-> {}]
    BY <2>1 DEF Answer, View, Node!IsOn
  <2>4. View' = [hazard |-> FALSE, lit |-> {active} \ {"kUnknown"}, saved |-> {}]
    <3>1. {active'} \ {"kUnknown"} = {}
      BY <2>1
    <3>2. (lamp_output'["kHazardLamp"] = "kOn") = FALSE
      BY <2>1
    <3> QED
      BY <2>2, <3>1, <3>2 DEF View, Node!IsOn
  <2>5. Safe'
    BY <2>1, LitFacts DEF Safe, Node!IsOn
  <2> QED
    BY <2>3, <2>4, <2>5
<1> QED
  BY <1>2, <1>3

LEMMA IndicatorView ==
  ASSUME Typing, Safe, NEW c \in LampCommand(SequenceCounters), c.function \in Indicators,
         IndicatorEffect(c.function, Resolve(lamp_output[c.function], c.action))
  PROVE  Safe' /\ (c.action # "kNoAction" => View' = Answer(View, c))
<1> DEFINE f == c.function
           o == Opposite(f)
           a == Resolve(lamp_output[f], c.action)
           lit == IF a = "kActivate" THEN {f} ELSE Node!Lit \ {f}
<1>1. /\ lamp_output \in Outputs /\ c.action \in LampCommandActions
      /\ f \in Indicators /\ o \in Indicators /\ o # f
      /\ \A g \in Indicators : g = f \/ g = o
  BY DEF Typing, LampCommand, Opposite, Indicators
<1>2. a \in LampCommandActions \ {"kToggle"} /\ (a = "kNoAction" => c.action = "kNoAction")
  BY <1>1 DEF Resolve, LampCommandActions
<1> HIDE DEF a, o
<1>3. /\ lamp_output["kHazardLamp"] = "kOff" /\ lamp_output'["kHazardLamp"] = "kOff"
      /\ lamp_output'[o] = IF a = "kActivate" THEN "kOff" ELSE lamp_output[o]
      /\ lamp_output'[f] = IF a = "kActivate" THEN "kOn"
                           ELSE IF a = "kDeactivate" THEN "kOff" ELSE lamp_output[f]
      /\ active_indicator_before_hazard' = active_indicator_before_hazard
  BY <1>1, LitFacts DEF IndicatorEffect, Outputs, a, o
<1>4. Safe'
  <2>1. ~(lamp_output[f] = "kOn" /\ lamp_output[o] = "kOn")
    BY <1>1 DEF Safe, Node!IsOn, Indicators
  <2>2. ~(lamp_output'[f] = "kOn" /\ lamp_output'[o] = "kOn")
    BY <1>3, <2>1
  <2>3. ~(lamp_output'["kLeftIndicator"] = "kOn" /\ lamp_output'["kRightIndicator"] = "kOn")
    BY <1>1, <2>2 DEF Indicators
  <2> QED
    BY <1>3, <2>3 DEF Safe, Node!IsOn
<1>5. ASSUME c.action # "kNoAction"
      PROVE  View' = Answer(View, c)
  <2>1. a = "kActivate" \/ a = "kDeactivate"
    BY <1>2, <1>5 DEF LampCommandActions
  <2>2. Node!Lit' = lit
    <3>1. /\ f \in Node!Lit' <=> a = "kActivate"
          /\ o \in Node!Lit' <=> a # "kActivate" /\ o \in Node!Lit
      BY <1>1, <1>3, <2>1, LitFacts
    <3>2. \A g \in Node!Lit' \cup Node!Lit : g = f \/ g = o
      BY <1>1, LitFacts
    <3>3. CASE a = "kActivate"
      <4>1. \A g : g \in Node!Lit' <=> g = f
        BY <1>1, <3>1, <3>2, <3>3
      <4> QED
        BY <3>3, <4>1
    <3>4. CASE a # "kActivate"
      <4>1. \A g : g \in Node!Lit' <=> g \in Node!Lit /\ g # f
        BY <1>1, <3>1, <3>2, <3>4
      <4> QED
        BY <3>4, <4>1
    <3> QED
      BY <3>3, <3>4
  <2>3. Resolve(IF f \in Node!Lit THEN "kOn" ELSE "kOff", c.action) = a
    BY <1>1, LitFacts DEF Resolve, a, Outputs, OutputStates
  <2>4. Answer(View, c) = [hazard |-> FALSE, lit |-> lit,
                           saved |-> {active_indicator_before_hazard} \ {"kUnknown"}]
    BY <1>1, <1>3, <2>3, LitFacts DEF Answer, View, Node!IsOn
  <2> QED
    BY <1>3, <2>2, <2>4 DEF View, Node!IsOn
<1> QED
  BY <1>4, <1>5

\* Every command keeps the outputs safe and answers its request; a command under
\* hazard, which is dropped, does not count for Answer either.
LEMMA NodeView ==
  ASSUME Typing, Safe, NEW c \in LampCommand(SequenceCounters),
         Node!OnTransportMessageReceived(c)
  PROVE  /\ Safe'
         /\ c.function = "kHazardLamp" => View' = Answer(View, c)
         /\ c.function \in Indicators /\ ~Node!IsCompanion(c) /\ c.action # "kNoAction" =>
              View' = Answer(View, c)
         /\ c.function \in Indicators /\ Node!IsCompanion(c) => View' = View
         /\ c.function \notin Indicators \cup {"kHazardLamp"} => View' = View
<1>1. CASE c.function = "kHazardLamp" /\ (HazardOnEffect \/ HazardOffEffect)
  BY <1>1, HazardView, LitFacts
<1>2. CASE /\ c.function \in Indicators /\ ~Node!DropsIndicator(c)
           /\ IndicatorEffect(c.function, Resolve(lamp_output[c.function], c.action))
  BY <1>2, IndicatorView, LitFacts DEF Node!DropsIndicator
<1>3. CASE /\ c.function \in Indicators => Node!DropsIndicator(c)
           /\ c.function # "kHazardLamp" /\ OtherEffect(c)
  <2>1. /\ \A g \in Indicators : lamp_output'[g] = lamp_output[g]
        /\ lamp_output'["kHazardLamp"] = lamp_output["kHazardLamp"]
        /\ active_indicator_before_hazard' = active_indicator_before_hazard
    BY <1>3, LitFacts DEF OtherEffect
  <2>2. Node!Lit' = Node!Lit
    BY <2>1, LitFacts
  <2>3. View' = View /\ Safe'
    BY <2>1, <2>2, LitFacts DEF View, Safe, Node!IsOn
  <2>4. c.function \in Indicators /\ ~Node!IsCompanion(c) => Answer(View, c) = View
    BY <1>3, LitFacts DEF Node!DropsIndicator, Answer, View
  <2> QED
    BY <1>3, <2>3, <2>4
<1> QED
  BY <1>1, <1>2, <1>3, CommandEffect


\* With what the operator thread leaves behind between requests.
SafeInv ==
  /\ Safe /\ context \in CZC!Contexts
  /\ operator # "send" => decision = << >>

LEMMA InitSafe ==
  ASSUME Init
  PROVE  SafeInv
<1>1. /\ lamp_output = [f \in LampFunctions |-> "kOff"] /\ operator = "idle"
      /\ active_indicator_before_hazard = "kUnknown" /\ decision = << >>
      /\ context = CZC!NoContext
  BY SameDomain DEF Init, CZC!Init, Node!Init, CZC!Start
<1> QED
  BY <1>1 DEF SafeInv, Safe, Node!IsOn, LampFunctions, CZC!NoContext, CZC!Contexts

LEMMA StepSafe ==
  ASSUME ZInv, SafeInv, [Next]_vars
  PROVE  SafeInv'
<1>1. CASE ControllerStep /\ UNCHANGED environment
  <2>1. Safe'
    BY <1>1 DEF ControllerStep, node, SafeInv, Safe, Node!IsOn
  <2>2. CASE \E request \in environment.requests : Press(request)
    BY <2>1, <2>2 DEF Press, CZC!SendLampCommand, SafeInv
  <2>3. CASE OperatorThread
    <3>1. CASE CZC!OperatorStep
      <4>1. context' \in CZC!Contexts
        BY <3>1 DEF SafeInv, CZC!OperatorStep, CZC!ReadContext, CZC!Decide, CZC!Contexts
      <4>2. operator' # "send" => decision' = << >>
        BY <3>1 DEF SafeInv, CZC!OperatorStep, CZC!ReadContext, CZC!Decide
      <4> QED
        BY <2>1, <4>1, <4>2 DEF SafeInv
    <3>2. ASSUME NEW accepted \in environment.answers, CZC!SendNext(accepted)
          PROVE  SafeInv'
      BY <2>1, <3>2 DEF SafeInv, CZC!SendNext
    <3> QED
      BY <2>3, <3>1, <3>2 DEF OperatorThread
  <2>4. CASE Receive \/ FinishReceiving
    BY <2>1, <2>4 DEF Receive, FinishReceiving, CZC!OnLampStatusReceived, CZC!UpdateLampStatus,
                      CZC!operator_thread, SafeInv
  <2>5. CASE Restart
    BY <2>1, <2>5 DEF Restart, CZC!Restart, CZC!Start, SafeInv, CZC!NoContext, CZC!Contexts
  <2> QED
    BY <1>1, <2>2, <2>3, <2>4, <2>5 DEF ControllerStep
<1>2. CASE NodeStep /\ UNCHANGED environment
  <2>1. Head(to_node).command \in LampCommand(SequenceCounters)
    BY <1>2, QueueShrinks DEF ZInv, Typing, NodeStep, Message
  <2>2. Safe'
    BY <1>2, <2>1, NodeView DEF ZInv, SafeInv, NodeStep
  <2> QED
    BY <1>2, <2>2 DEF NodeStep, SafeInv, controller
<1>3. CASE RestartNode /\ UNCHANGED environment
  BY <1>3, SameDomain
     DEF RestartNode, Node!Restart, SafeInv, Safe, Node!IsOn, controller, LampFunctions
<1>4. CASE Lose /\ UNCHANGED environment
  BY <1>4 DEF Lose, SafeInv, Safe, Node!IsOn, controller, node
<1>5. CASE UNCHANGED vars
  BY <1>5 DEF vars, SafeInv, Safe, Node!IsOn, controller, node
<1> QED
  BY <1>1, <1>2, <1>3, <1>4, <1>5 DEF Next

LEMMA SafeInvariance == Spec => []SafeInv
<1>1. Init => SafeInv
  BY InitSafe
<1>2. ZInv /\ SafeInv /\ [Next]_vars => SafeInv'
  BY StepSafe
<1> QED
  BY <1>1, <1>2, Invariance, PTL DEF Spec

-----------------------------------------------------------------------------
(* Why the hazard lamp does as it is told.  While the operator waits for   *)
(* the answer to one hazard command before the next, at most one is under  *)
(* way or being made, no event of that lamp is, and so the cache from      *)
(* which the toggle is resolved is right about it until the node acts.     *)

\* The command says what the node will do.
Reverses(c) == c.action = IF Node!IsOn("kHazardLamp") THEN "kDeactivate" ELSE "kActivate"

NoHazardEvent == NoEventOf("kHazardLamp") /\ receiving.function # "kHazardLamp"

ToldInv ==
  BothStayUp /\ TogglesHazard /\ informed =>
    /\ Unsent =>
         /\ NoHazardEvent /\ lamp_command.action = "kToggle"
         /\ \A i \in 1 .. Len(to_node) : ~IsHazard(to_node[i])
         /\ operator = "arbitrate" => (context["kHazardLamp"] <=> Node!IsOn("kHazardLamp"))
         /\ operator = "send" => Reverses(decision[1])
    /\ \A i \in 1 .. Len(to_node) : IsHazard(to_node[i]) =>
         /\ NoHazardEvent /\ Reverses(to_node[i].command)
         /\ \A j \in 1 .. Len(to_node) : IsHazard(to_node[j]) => j = i

\* The cache is right about the hazard lamp when no event of it is under way.
LEMMA HazardCached ==
  ASSUME CacheInv, BothStayUp, NoHazardEvent
  PROVE  lamp_status_cache["kHazardLamp"] = "kOn" <=> Node!IsOn("kHazardLamp")
<1>1. CacheOf("kHazardLamp") /\ Delivers
  BY DEF CacheInv, LampFunctions, BothStayUp
<1>2. ~\E i \in 1 .. Len(to_czc) : EventFrom("kHazardLamp", i)
  BY DEF NoHazardEvent, NoEventOf, EventFrom
<1> QED
  BY <1>1, <1>2 DEF CacheOf, Caught, Unheard, NoHazardEvent, Node!IsOn

\* Steps that at most take an event from the link.
LEMMA ToldKept ==
  ASSUME ToldInv, NoHazardEvent => NoHazardEvent',
         UNCHANGED <<environment, operator, lamp_command, context, decision, to_node,
                     lamp_output, informed>>
  PROVE  ToldInv'
<1>1. (BothStayUp' <=> BothStayUp) /\ (TogglesHazard' <=> TogglesHazard) /\ (Unsent' <=> Unsent)
  BY DEF BothStayUp, Delivers, TogglesHazard, Unsent
<1>2. \A c : Reverses(c)' <=> Reverses(c)
  BY DEF Reverses, Node!IsOn
<1> QED
  BY <1>1, <1>2 DEF ToldInv, IsHazard, Node!IsOn, Reverses

LEMMA PressTold ==
  ASSUME ZInv, ToldInv, NEW request \in environment.requests, Press(request), NodeQuiet
  PROVE  ToldInv'
<1>1. /\ ~Unsent /\ operator' = "kLeftIndicator"
      /\ lamp_command'.function = request.function /\ lamp_command'.action = request.action
      /\ informed' = (informed /\ (request.function = "kHazardLamp" => HazardAtRest))
      /\ UNCHANGED <<to_node, to_czc, receiving, environment, lamp_output>>
  BY DEF Press, CZC!SendLampCommand, CZC!caches, link, NodeQuiet, node, Unsent
<1>2. (BothStayUp' <=> BothStayUp) /\ (TogglesHazard' <=> TogglesHazard)
      /\ (NoHazardEvent' <=> NoHazardEvent) /\ \A c : Reverses(c)' <=> Reverses(c)
  BY <1>1 DEF BothStayUp, Delivers, TogglesHazard, NoHazardEvent, NoEventOf, Reverses,
              Node!IsOn
<1>3. Unsent' <=> request.function = "kHazardLamp"
  BY <1>1 DEF Unsent
<1> SUFFICES ASSUME BothStayUp, TogglesHazard, informed'
             PROVE  ToldInv'
  BY <1>2 DEF ToldInv
<1>4. informed /\ (request.function = "kHazardLamp" => HazardAtRest)
  BY <1>1
<1>5. ASSUME request.function = "kHazardLamp"
      PROVE  /\ NoHazardEvent /\ request.action = "kToggle"
             /\ \A i \in 1 .. Len(to_node) : ~IsHazard(to_node[i])
  <2>1. DOMAIN to_node = 1 .. Len(to_node) /\ DOMAIN to_czc = 1 .. Len(to_czc)
    BY LenProperties DEF ZInv, Typing
  <2>2. HazardAtRest
    BY <1>4, <1>5
  <2> QED
    BY <1>5, <2>1, <2>2 DEF TogglesHazard, HazardAtRest, NoHazardEvent, NoEventOf, IsHazard
<1>6. \A i \in 1 .. Len(to_node') : IsHazard(to_node'[i]) =>
         /\ NoHazardEvent' /\ Reverses(to_node[i].command)'
         /\ \A j \in 1 .. Len(to_node') : IsHazard(to_node'[j]) => j = i
  BY <1>1, <1>2, <1>4 DEF ToldInv, IsHazard, Reverses
<1> QED
  BY <1>1, <1>2, <1>3, <1>5, <1>6 DEF ToldInv, IsHazard

\* The context is read true of the hazard lamp, and a toggle is resolved with it.
LEMMA ThinkTold ==
  ASSUME ZInv, SafeInv, CacheInv, ToldInv, OperatorThread, CZC!OperatorStep, NodeQuiet
  PROVE  ToldInv'
<1>1. /\ UNCHANGED <<lamp_command, environment, lamp_output, to_czc, receiving, informed>>
      /\ operator \notin {"idle", "send"}
  BY DEF OperatorThread, CZC!OperatorStep, CZC!ReadContext, CZC!Decide, CZC!caches, history,
         operator_history, NodeQuiet, node
<1>2. to_node' = to_node
  BY QueueKept
     DEF ZInv, Typing, OperatorThread, CZC!OperatorStep, CZC!ReadContext, CZC!Decide
<1>3. (BothStayUp' <=> BothStayUp) /\ (TogglesHazard' <=> TogglesHazard)
      /\ (NoHazardEvent' <=> NoHazardEvent) /\ \A c : Reverses(c)' <=> Reverses(c)
  BY <1>1 DEF BothStayUp, Delivers, TogglesHazard, NoHazardEvent, NoEventOf, Reverses,
              Node!IsOn
<1> SUFFICES ASSUME BothStayUp, TogglesHazard, informed
             PROVE  ToldInv'
  BY <1>1, <1>3 DEF ToldInv
<1>4. \A i \in 1 .. Len(to_node') : IsHazard(to_node'[i]) =>
         /\ NoHazardEvent' /\ Reverses(to_node[i].command)'
         /\ \A j \in 1 .. Len(to_node') : IsHazard(to_node'[j]) => j = i
  BY <1>2, <1>3 DEF ToldInv, IsHazard, Reverses
<1>5. CASE ~Unsent
  <2>1. lamp_command.function # "kHazardLamp"
    BY <1>1, <1>5 DEF Unsent
  <2>2. ~Unsent'
    BY <1>1, <2>1 DEF Unsent
  <2> QED
    BY <1>4, <2>2 DEF ToldInv
<1>6. CASE Unsent
  <2>1. /\ lamp_command.function = "kHazardLamp" /\ lamp_command.action = "kToggle"
        /\ NoHazardEvent /\ \A i \in 1 .. Len(to_node) : ~IsHazard(to_node[i])
        /\ operator = "arbitrate" => (context["kHazardLamp"] <=> Node!IsOn("kHazardLamp"))
    BY <1>6 DEF ToldInv, Unsent
  <2>2. operator' = "arbitrate" => (context'["kHazardLamp"] <=> Node!IsOn("kHazardLamp"))
    <3> SUFFICES ASSUME operator' = "arbitrate"
                 PROVE  context'["kHazardLamp"] <=> Node!IsOn("kHazardLamp")
      OBVIOUS
    <3>1. context' = [context EXCEPT !["kHazardLamp"] = (lamp_status_cache["kHazardLamp"] = "kOn")]
      BY DEF CZC!OperatorStep, CZC!ReadContext, CZC!Decide
    <3>2. context'["kHazardLamp"] = (lamp_status_cache["kHazardLamp"] = "kOn")
      BY <3>1 DEF SafeInv, CZC!Contexts
    <3> QED
      BY <2>1, <3>2, HazardCached
  <2>3. operator' = "send" => Reverses(decision'[1])
    <3> SUFFICES ASSUME operator' = "send"
                 PROVE  Reverses(decision'[1])
      OBVIOUS
    <3>1. operator = "arbitrate" /\ decision' = CZC!Arbitrate(lamp_command, context)
      BY DEF CZC!OperatorStep, CZC!ReadContext, CZC!Decide
    <3>2. decision' = CZC!HazardFanout(lamp_command, context)
      BY <2>1, <3>1 DEF CZC!Arbitrate, CZC!IsIndicatorActivationCommand, CZC!Indicators
    <3>3. decision'[1].action = CZC!ResolveHazardAction(lamp_command, context)
      BY <3>2 DEF CZC!HazardFanout, CZC!MakeDerived, ZInv, Typing, LampCommand
    <3> QED
      BY <2>1, <3>1, <3>3 DEF CZC!ResolveHazardAction, Reverses
  <2>4. Node!IsOn("kHazardLamp")' <=> Node!IsOn("kHazardLamp")
    BY <1>1 DEF Node!IsOn
  <2>5. Reverses(decision[1])' <=> Reverses(decision'[1])
    BY <1>1 DEF Reverses, Node!IsOn
  <2> QED
    BY <1>1, <1>2, <1>3, <1>4, <2>1, <2>2, <2>3, <2>4, <2>5 DEF ToldInv, IsHazard
<1> QED
  BY <1>5, <1>6

LEMMA SendTold ==
  ASSUME ZInv, ToldInv, OperatorThread, NEW accepted \in BOOLEAN, CZC!SendNext(accepted),
         NodeQuiet
  PROVE  ToldInv'
<1> DEFINE n == Len(to_node)
           c == Head(decision)
<1>1. /\ UNCHANGED <<environment, lamp_output, to_czc, receiving, informed>>
      /\ operator = "send"
  BY DEF OperatorThread, CZC!SendNext, CZC!caches, history, operator_history, NodeQuiet, node
<1>2. (BothStayUp' <=> BothStayUp) /\ (TogglesHazard' <=> TogglesHazard)
      /\ (NoHazardEvent' <=> NoHazardEvent) /\ \A x : Reverses(x)' <=> Reverses(x)
  BY <1>1 DEF BothStayUp, Delivers, TogglesHazard, NoHazardEvent, NoEventOf, Reverses,
              Node!IsOn
<1> SUFFICES ASSUME BothStayUp, TogglesHazard, informed
             PROVE  ToldInv'
  BY <1>1, <1>2 DEF ToldInv
<1>3. /\ ~Unsent' /\ n \in Nat /\ Len(to_node') = n + 1
      /\ \A i \in 1 .. n : to_node'[i] = to_node[i]
      /\ to_node'[n + 1].command = c /\ c = decision[1]
      /\ c.function = "kHazardLamp" <=> Unsent
  BY SendFacts
<1>4. IsHazard(to_node'[n + 1]) <=> Unsent
  BY <1>3 DEF IsHazard
<1> HIDE DEF n, c
<1>5. \A i \in 1 .. n + 1 : i \in 1 .. n \/ i = n + 1
  BY <1>3
<1>6. CASE Unsent
  <2>1. /\ NoHazardEvent /\ Reverses(c) /\ \A i \in 1 .. n : ~IsHazard(to_node[i])
    BY <1>1, <1>3, <1>6 DEF ToldInv, n
  <2>2. \A i \in 1 .. n + 1 : IsHazard(to_node'[i]) => i = n + 1
    BY <1>3, <1>5, <2>1 DEF IsHazard
  <2>3. Reverses(to_node'[n + 1].command)
    BY <1>3, <2>1
  <2> QED
    BY <1>1, <1>2, <1>3, <2>1, <2>2, <2>3 DEF ToldInv, IsHazard, Reverses, Node!IsOn
<1>7. CASE ~Unsent
  <2>1. \A i \in 1 .. n + 1 :
          IsHazard(to_node'[i]) => i \in 1 .. n /\ to_node'[i] = to_node[i]
    BY <1>3, <1>4, <1>5, <1>7
  <2>2. \A i \in 1 .. n : IsHazard(to_node[i]) =>
          /\ NoHazardEvent /\ Reverses(to_node[i].command)
          /\ \A j \in 1 .. n : IsHazard(to_node[j]) => j = i
    BY DEF ToldInv, n
  <2> QED
    BY <1>1, <1>2, <1>3, <2>1, <2>2 DEF ToldInv, IsHazard, Reverses, Node!IsOn
<1> QED
  BY <1>6, <1>7

\* Only a hazard command makes the node say something of the hazard lamp.
LEMMA SaysNothingOfHazard ==
  ASSUME Typing, NEW c \in LampCommand(SequenceCounters), c.function # "kHazardLamp",
         Node!OnTransportMessageReceived(c)
  PROVE  ~TellsOf("kHazardLamp")
<1>1. \/ Node!DropIndicator(c) \/ Node!ApplyIndicator(c) \/ Node!ApplyOther(c)
  BY DEF Node!OnTransportMessageReceived, Node!HazardOn, Node!HazardOffRestore,
         Node!HazardOffClear
<1>2. CASE Node!DropIndicator(c)
  BY <1>2 DEF Node!DropIndicator, TellsOf
<1>3. CASE Node!ApplyIndicator(c)
  <2> DEFINE f == c.function
             o == Opposite(f)
             exchange == Resolve(lamp_output[f], c.action) = "kActivate" /\ Node!IsOn(o)
             fs == Node!IndicatorEvents(f, exchange)
  <2>1. Node!Send(fs) /\ f \in Indicators
    BY <1>3, SameDomain DEF Node!ApplyIndicator
  <2>2. o # "kHazardLamp" /\ f # "kHazardLamp"
    BY <2>1 DEF Opposite, Indicators
  <2>3. fs = <<o, f>> \/ fs = <<f>>
    BY SameDomain DEF Node!IndicatorEvents
  <2> HIDE DEF fs, o, f
  <2>4. Len(sent') = Len(fs) /\ \A i \in 1 .. Len(fs) : sent'[i].function = fs[i]
    BY <2>1, <2>3 DEF Node!Send
  <2>5. \A i \in 1 .. Len(fs) : fs[i] # "kHazardLamp"
    BY <2>2, <2>3
  <2> QED
    BY <2>4, <2>5 DEF TellsOf
<1>4. CASE Node!ApplyOther(c)
  <2>1. PICK fs : (fs = <<c.function>> \/ fs = << >>) /\ Node!Send(fs)
    BY <1>4 DEF Node!ApplyOther
  <2>2. Len(sent') = Len(fs) /\ \A i \in 1 .. Len(fs) : sent'[i].function = fs[i]
    BY <2>1 DEF Node!Send
  <2> QED
    BY <2>1, <2>2 DEF TellsOf
<1> QED
  BY <1>1, <1>2, <1>3, <1>4

LEMMA NodeStepTold ==
  ASSUME ZInv, ToldInv, NodeStep, UNCHANGED environment
  PROVE  ToldInv'
<1> DEFINE c == Head(to_node).command
           n == Len(to_node')
<1>1. /\ UNCHANGED <<operator, lamp_command, context, decision, receiving, informed>>
      /\ to_node # << >> /\ to_node' = Tail(to_node) /\ to_czc' = to_czc \o sent'
      /\ Node!OnTransportMessageReceived(c)
  BY DEF NodeStep, controller, operator_history
<1>2. /\ n \in Nat /\ Len(to_node) = n + 1 /\ c = to_node[1].command
      /\ \A i \in 1 .. n : to_node'[i] = to_node[i + 1]
      /\ 1 \in 1 .. n + 1 /\ \A i \in 1 .. n : i + 1 \in 1 .. n + 1 /\ i + 1 # 1
      /\ c \in LampCommand(SequenceCounters)
  BY <1>1, QueueShrinks DEF ZInv, Typing, Message
<1>3. NodeTyping /\ HazardEffect(c)
  BY <1>1, <1>2, NodeCommand DEF ZInv
<1>4. (BothStayUp' <=> BothStayUp) /\ (TogglesHazard' <=> TogglesHazard) /\ (Unsent' <=> Unsent)
  BY <1>1 DEF BothStayUp, Delivers, TogglesHazard, Unsent
<1> SUFFICES ASSUME BothStayUp, TogglesHazard, informed
             PROVE  ToldInv'
  BY <1>1, <1>4 DEF ToldInv
<1>5. CASE c.function = "kHazardLamp"
  <2>1. IsHazard(to_node[1])
    BY <1>2, <1>5 DEF IsHazard
  <2>2. ~Unsent /\ \A j \in 1 .. n + 1 : IsHazard(to_node[j]) => j = 1
    BY <1>2, <2>1 DEF ToldInv
  <2>3. \A i \in 1 .. n : ~IsHazard(to_node'[i])
    BY <1>2, <2>2 DEF IsHazard
  <2> QED
    BY <1>4, <2>2, <2>3 DEF ToldInv, IsHazard
<1>6. CASE c.function # "kHazardLamp"
  <2>1. lamp_output'["kHazardLamp"] = lamp_output["kHazardLamp"]
    BY <1>3, <1>6 DEF HazardEffect
  <2>2. (Node!IsOn("kHazardLamp")' <=> Node!IsOn("kHazardLamp"))
        /\ \A x : Reverses(x)' <=> Reverses(x)
    BY <2>1 DEF Node!IsOn, Reverses
  <2>3. ~TellsOf("kHazardLamp")
    BY <1>1, <1>2, <1>6, SaysNothingOfHazard DEF ZInv
  <2>4. NoHazardEvent => NoHazardEvent'
    <3> SUFFICES ASSUME NoEventOf("kHazardLamp"), NEW j \in 1 .. Len(to_czc')
                 PROVE  to_czc'[j].function # "kHazardLamp"
      BY <1>1 DEF NoHazardEvent, NoEventOf
    <3>1. to_czc \in Seq(LampEvent) /\ sent' \in Seq(LampEvent)
      BY <1>3 DEF ZInv, Typing, NodeTyping
    <3>2. \/ j \in 1 .. Len(to_czc) /\ to_czc'[j] = to_czc[j]
          \/ j - Len(to_czc) \in 1 .. Len(sent') /\ to_czc'[j] = sent'[j - Len(to_czc)]
      BY <1>1, <3>1, ConcatProperties
    <3> QED
      BY <2>3, <3>2 DEF TellsOf, NoEventOf
  <2>5. \A i \in 1 .. n : IsHazard(to_node'[i]) <=> IsHazard(to_node[i + 1])
    BY <1>2 DEF IsHazard
  <2>6. \A i \in 1 .. n : IsHazard(to_node'[i]) =>
          /\ NoHazardEvent' /\ Reverses(to_node'[i].command)
          /\ \A j \in 1 .. n : IsHazard(to_node'[j]) => j = i
    <3> SUFFICES ASSUME NEW i \in 1 .. n, IsHazard(to_node'[i])
                 PROVE  /\ NoHazardEvent' /\ Reverses(to_node'[i].command)
                        /\ \A j \in 1 .. n : IsHazard(to_node'[j]) => j = i
      OBVIOUS
    <3>1. /\ NoHazardEvent /\ Reverses(to_node[i + 1].command)
          /\ \A j \in 1 .. n + 1 : IsHazard(to_node[j]) => j = i + 1
      BY <1>2, <2>5 DEF ToldInv
    <3>2. \A j \in 1 .. n : IsHazard(to_node'[j]) => j = i
      BY <1>2, <2>5, <3>1
    <3> QED
      BY <1>2, <2>4, <3>1, <3>2
  <2>7. Unsent => \A i \in 1 .. n : ~IsHazard(to_node'[i])
    BY <1>2, <2>5 DEF ToldInv
  <2>8. /\ \A i \in 1 .. n : Reverses(to_node[i].command)' <=> Reverses(to_node'[i].command)
        /\ Reverses(decision[1])' <=> Reverses(decision[1])
    BY <1>1, <2>1 DEF Reverses, Node!IsOn
  <2> QED
    BY <1>1, <1>4, <2>2, <2>4, <2>6, <2>7, <2>8 DEF ToldInv, IsHazard
<1> QED
  BY <1>5, <1>6

LEMMA StepTold ==
  ASSUME ZInv, SafeInv, CacheInv, ToldInv, [Next]_vars
  PROVE  ToldInv'
<1>1. CASE ControllerStep /\ UNCHANGED environment
  <2>1. NodeQuiet
    BY <1>1 DEF NodeQuiet, ControllerStep, Press, OperatorThread, Receive, FinishReceiving,
                Restart, history
  <2>2. CASE OperatorThread
    <3>1. environment.answers \subseteq BOOLEAN
      BY EnvironmentsAssumption DEF ZInv, Typing
    <3>2. ASSUME NEW accepted \in environment.answers, CZC!SendNext(accepted)
          PROVE  ToldInv'
      BY <2>1, <2>2, <3>1, <3>2, SendTold
    <3> QED
      BY <2>1, <2>2, <3>2, ThinkTold DEF OperatorThread
  <2>3. CASE Receive \/ FinishReceiving
    <3>1. UNCHANGED <<environment, operator, lamp_command, context, decision, to_node,
                      lamp_output, informed>>
      BY <1>1, <2>3
         DEF ControllerStep, node, Receive, FinishReceiving, CZC!OnLampStatusReceived,
             CZC!UpdateLampStatus, CZC!operator_thread, history, operator_history, link
    <3>2. NoHazardEvent => NoHazardEvent'
      <4>1. CASE FinishReceiving
        BY <4>1 DEF FinishReceiving, CZC!UpdateLampStatus, link, NoHazardEvent, NoEventOf,
                    CZC!None
      <4>2. CASE Receive
        <5>1. /\ to_czc \in Seq(LampEvent) /\ to_czc # << >> /\ to_czc' = Tail(to_czc)
              /\ receiving' = Head(to_czc)
          BY <4>2 DEF ZInv, Typing, Receive, CZC!OnLampStatusReceived
        <5>2. /\ 1 \in 1 .. Len(to_czc) /\ Head(to_czc) = to_czc[1]
              /\ \A i \in 1 .. Len(to_czc') :
                   to_czc'[i] = to_czc[i + 1] /\ i + 1 \in 1 .. Len(to_czc)
          BY <5>1, HeadTailProperties, EmptySeq
        <5> QED
          BY <5>1, <5>2 DEF NoHazardEvent, NoEventOf
      <4> QED
        BY <2>3, <4>1, <4>2
    <3> QED
      BY <3>1, <3>2, ToldKept
  <2>4. CASE Restart
    BY <1>1, <2>4 DEF Restart, ToldInv, BothStayUp, Delivers
  <2> QED
    BY <1>1, <2>1, <2>2, <2>3, <2>4, PressTold DEF ControllerStep
<1>2. CASE NodeStep /\ UNCHANGED environment
  BY <1>2, NodeStepTold
<1>3. CASE RestartNode /\ UNCHANGED environment
  <2>1. node_starts \in Nat /\ node_starts < environment.node_restarts
    BY <1>3 DEF RestartNode, ZInv, Typing
  <2> QED
    BY <1>3, <2>1 DEF ToldInv, BothStayUp
<1>4. CASE Lose /\ UNCHANGED environment
  BY <1>4 DEF Lose, ToldInv, BothStayUp, Delivers
<1>5. CASE UNCHANGED vars
  <2>1. NoHazardEvent' <=> NoHazardEvent
    BY <1>5 DEF vars, controller, link, NoHazardEvent, NoEventOf
  <2> QED
    BY <1>5, <2>1, ToldKept DEF vars, controller, node, link, history, operator_history
<1> QED
  BY <1>1, <1>2, <1>3, <1>4, <1>5 DEF Next

LEMMA ToldInvariance == Spec => []ToldInv
<1>1. Init => ToldInv
  <2>1. Init => operator = "idle" /\ to_node = << >>
    BY StartTypes DEF Init, CZC!Init
  <2> QED
    BY <2>1 DEF ToldInv, Unsent
<1>2. ZInv /\ SafeInv /\ CacheInv /\ ToldInv /\ [Next]_vars => ToldInv'
  BY StepTold
<1> QED
  BY <1>1, <1>2, Invariance, SafeInvariance, CacheInvariance, PTL DEF Spec

-----------------------------------------------------------------------------
(* A patient operator, whose lamps at rest are what the requests add up to. *)

\* The commands still to be handled: those under way, then those still to be sent.
Ahead == Len(to_node) + Len(decision)
CommandAhead(i) ==
  IF i <= Len(to_node) THEN to_node[i].command ELSE decision[i - Len(to_node)]

\* A command for an indicator that the node does not take for a companion.
Proper(c) == c.function \in Indicators /\ c.action # "kNoAction" /\ ~Node!IsCompanion(c)

\* The node is as expected, and what is left changes nothing.
Settled ==
  /\ View = expected
  /\ \A i \in 1 .. Ahead :
       LET c == CommandAhead(i) IN
       \/ c.function \notin Indicators \cup {"kHazardLamp"}
       \/ c.function \in Indicators /\ Node!IsCompanion(c)

\* The node is as before the request; what is left answers it: a hazard command with
\* its companions, an indicator command, or two that exchange the indicators.
HazardAhead ==
  /\ Ahead >= 1 /\ CommandAhead(1).function = "kHazardLamp"
  /\ expected = Answer(View, CommandAhead(1))
  /\ \A i \in 2 .. Ahead :
       /\ CommandAhead(i).function \in Indicators
       /\ CommandAhead(i).sequence_counter = CommandAhead(1).sequence_counter

IndicatorAhead ==
  Ahead = 1 /\ Proper(CommandAhead(1)) /\ expected = Answer(View, CommandAhead(1))

ExchangeAhead ==
  /\ Ahead = 2 /\ Proper(CommandAhead(1)) /\ Proper(CommandAhead(2))
  /\ CommandAhead(1).function = Opposite(CommandAhead(2).function)
  /\ CommandAhead(1).action = "kDeactivate" /\ CommandAhead(2).action = "kActivate"
  /\ ~Node!IsOn("kHazardLamp") /\ expected = Answer(View, CommandAhead(2))

\* The controller reads its context while nothing else happens.
Reading ==
  /\ to_node = << >> /\ to_czc = << >> /\ receiving = CZC!None
  /\ hazard_press < presses /\ expected = Answer(View, lamp_command)
  /\ operator # "kLeftIndicator" =>
       (context["kLeftIndicator"] <=> Node!IsOn("kLeftIndicator"))
  /\ operator \in {"kHazardLamp", "arbitrate"} =>
       (context["kRightIndicator"] <=> Node!IsOn("kRightIndicator"))
  /\ operator = "arbitrate" => (context["kHazardLamp"] <=> Node!IsOn("kHazardLamp"))

OnTheWay == Settled \/ HazardAhead \/ IndicatorAhead \/ ExchangeAhead

Calm == NothingFails /\ TogglesHazard /\ Counting /\ patient

PatienceInv ==
  Calm => IF operator \in {"idle", "send"} THEN OnTheWay ELSE Reading

\* At rest the cache arbitration reads is right about what is on.
LEMMA CacheAtRest ==
  ASSUME CacheInv, NothingFails, to_czc = << >>, receiving = CZC!None,
         NEW f \in LampFunctions
  PROVE  lamp_status_cache[f] = "kOn" <=> Node!IsOn(f)
<1>1. receiving.function # f /\ Len(to_czc) = 0
  BY DEF CZC!None, LampFunctions
<1>2. CacheOf(f) /\ Delivers /\ BothStayUp
  BY DEF CacheInv, NothingFails, BothStayUp
<1> QED
  BY <1>1, <1>2 DEF CacheOf, Caught, Unheard, Node!IsOn

LEMMA InitPatience ==
  ASSUME Init
  PROVE  PatienceInv
<1>1. /\ operator = "idle" /\ to_node = << >> /\ decision = << >>
      /\ expected = [hazard |-> FALSE, lit |-> {}, saved |-> {}]
      /\ lamp_output = [f \in LampFunctions |-> "kOff"]
      /\ active_indicator_before_hazard = "kUnknown"
  BY SameDomain, StartTypes DEF Init, CZC!Init, Node!Init
<1>2. Node!Lit = {}
  BY <1>1, LitFacts
<1>3. (lamp_output["kHazardLamp"] = "kOn") = FALSE
  BY <1>1 DEF LampFunctions
<1>4. View = expected
  BY <1>1, <1>2, <1>3 DEF View, Node!IsOn
<1>5. Ahead = 0
  BY <1>1 DEF Ahead
<1> QED
  BY <1>1, <1>4, <1>5 DEF PatienceInv, OnTheWay, Settled

\* Steps that touch nothing of this.
LEMMA PatienceKept ==
  ASSUME PatienceInv, operator \in {"idle", "send"},
         UNCHANGED <<environment, operator, to_node, decision, expected, lamp_output,
                     active_indicator_before_hazard, last_hazard_sequence, patient, presses>>
  PROVE  PatienceInv'
<1>1. /\ View' = View /\ Ahead' = Ahead /\ (Calm' <=> Calm)
      /\ \A i : CommandAhead(i)' = CommandAhead(i)
      /\ \A c : (Node!IsCompanion(c)' <=> Node!IsCompanion(c))
  BY DEF View, Node!Lit, Node!IsOn, Ahead, Calm, TogglesHazard, Counting, NothingFails,
         BothStayUp, Delivers, CommandAhead, Node!IsCompanion
<1> QED
  BY <1>1 DEF PatienceInv, OnTheWay, Settled, HazardAhead, IndicatorAhead, ExchangeAhead,
              Proper, Node!IsOn, Node!IsCompanion


\* A request made at rest: the node is as expected, and nothing is left over.
LEMMA PressPatience ==
  ASSUME ZInv, SafeInv, PatienceInv, NEW request \in environment.requests, Press(request),
         NodeQuiet
  PROVE  PatienceInv'
<1>1. /\ operator = "idle" /\ operator' = "kLeftIndicator" /\ presses' = presses + 1
      /\ lamp_command' = [function |-> request.function, action |-> request.action,
                          sequence_counter |-> next_sequence_counter]
      /\ expected' = Answer(expected, request) /\ patient' = (patient /\ AtRest)
      /\ UNCHANGED <<to_node, to_czc, receiving, environment, hazard_press, lamp_output,
                     active_indicator_before_hazard>>
  BY DEF Press, CZC!SendLampCommand, CZC!caches, link, NodeQuiet, node, node_history
<1> SUFFICES ASSUME Calm'
             PROVE  Reading'
  BY <1>1 DEF PatienceInv
<1>2. Calm /\ AtRest
  <2>1. presses < SequenceModulus
    BY <1>1, ModulusAssumption DEF Calm, Counting, ZInv, Typing
  <2>2. patient /\ AtRest
    BY <1>1 DEF Calm
  <2> QED
    BY <1>1, <2>1, <2>2 DEF Calm, TogglesHazard, Counting, NothingFails, BothStayUp, Delivers
<1>3. to_node = << >> /\ decision = << >> /\ to_czc = << >> /\ receiving = CZC!None
  BY <1>1, <1>2 DEF AtRest, SafeInv
<1>4. Ahead = 0 /\ Ahead \in Nat
  BY <1>3 DEF Ahead
<1>5. View = expected
  BY <1>1, <1>2, <1>4
     DEF PatienceInv, OnTheWay, Settled, HazardAhead, IndicatorAhead, ExchangeAhead
<1>6. Answer(View, request) = Answer(View, lamp_command')
  BY <1>1 DEF Answer
<1>7. View' = View
  BY <1>1 DEF View, Node!Lit, Node!IsOn
<1>8. hazard_press < presses + 1
  BY DEF ZInv, Typing, OrderInv
<1> QED
  BY <1>1, <1>3, <1>5, <1>6, <1>7, <1>8 DEF Reading

\* Only a patient operator's context is read true: meanwhile nothing is under way.
LEMMA ReadPatience ==
  ASSUME ZInv, SafeInv, CacheInv, Calm, Reading, UNCHANGED <<link, expected, presses>>,
         NodeQuiet, NEW f \in {"kLeftIndicator", "kRightIndicator", "kHazardLamp"}, NEW next,
         CZC!ReadContext(f, next),
         \/ f = "kLeftIndicator" /\ next = "kRightIndicator"
         \/ f = "kRightIndicator" /\ next = "kHazardLamp"
         \/ f = "kHazardLamp" /\ next = "arbitrate"
  PROVE  Reading'
<1>1. /\ operator = f /\ operator' = next
      /\ context' = [context EXCEPT ![f] = (lamp_status_cache[f] = "kOn")]
      /\ UNCHANGED <<to_node, to_czc, receiving, lamp_command, lamp_output, hazard_press,
                     presses, expected, active_indicator_before_hazard>>
  BY DEF CZC!ReadContext, CZC!caches, NodeQuiet, node, node_history, link
<1>2. /\ context \in [{"kLeftIndicator", "kRightIndicator", "kHazardLamp"} -> BOOLEAN]
      /\ f \in LampFunctions
  BY DEF SafeInv, CZC!Contexts, LampFunctions
<1>3. lamp_status_cache[f] = "kOn" <=> Node!IsOn(f)
  BY <1>2, CacheAtRest DEF Calm, Reading
<1>4. /\ context'[f] <=> Node!IsOn(f)
      /\ \A g \in {"kLeftIndicator", "kRightIndicator", "kHazardLamp"} :
           g # f => context'[g] = context[g]
  BY <1>1, <1>2, <1>3
<1>5. View' = View /\ \A g : Node!IsOn(g)' <=> Node!IsOn(g)
  BY <1>1 DEF View, Node!Lit, Node!IsOn
<1> QED
  BY <1>1, <1>4, <1>5 DEF Reading

\* With a true context arbitration decides what answers the request.
LEMMA DecidePatience ==
  ASSUME ZInv, SafeInv, Calm, Reading, CZC!Decide, NodeQuiet,
         UNCHANGED <<link, expected, presses>>
  PROVE  OnTheWay'
<1>c. PICK c : c = lamp_command
  OBVIOUS
<1>d. PICK d : d = CZC!Arbitrate(c, context)
  OBVIOUS
<1>1. /\ operator = "arbitrate" /\ decision' = d
      /\ UNCHANGED <<to_node, lamp_output, last_hazard_sequence, expected,
                     active_indicator_before_hazard>>
      /\ to_node = << >> /\ expected = Answer(View, c)
      /\ c \in LampCommand(SequenceCounters) /\ c.action # "kNoAction"
  BY <1>c, <1>d DEF CZC!Decide, NodeQuiet, node, link, Reading, ZInv, Typing, DecisionInv
<1>2. ~Node!IsCompanion(c)
  <2>1. Counts
    BY DEF Calm, NothingFails, BothStayUp, Delivers, Counts
  <2>2. /\ c.sequence_counter = presses /\ hazard_press < presses /\ presses >= 1
        /\ last_hazard_sequence = 0 \/ last_hazard_sequence = hazard_press
        /\ presses \in Nat /\ hazard_press \in Nat
    BY <1>c, <1>1, <2>1 DEF ZInv, Typing, DecisionInv, CounterInv, Reading
  <2> QED
    BY <2>2 DEF Node!IsCompanion
<1>3. /\ context["kHazardLamp"] <=> Node!IsOn("kHazardLamp")
      /\ \A f \in Indicators : context[f] <=> Node!IsOn(f)
  BY <1>1 DEF Reading, Indicators
<1>4. /\ View' = View /\ \A f : Node!IsOn(f)' <=> Node!IsOn(f)
      /\ \A x : Node!IsCompanion(x)' <=> Node!IsCompanion(x)
  BY <1>1 DEF View, Node!Lit, Node!IsOn, Node!IsCompanion
<1>5. Ahead' = Len(decision') /\ \A i \in 1 .. Len(decision') : CommandAhead(i)' = decision'[i]
  BY <1>1, <1>d, Arbitration DEF Ahead, CommandAhead
<1>6. c.function \notin Indicators \cup {"kHazardLamp"} => Answer(View, c) = View
  BY DEF Answer
<1>7. CASE c.function = "kHazardLamp"
  <2> DEFINE a == CZC!ResolveHazardAction(c, context)
  <2>1. d = <<CZC!MakeDerived(c, "kHazardLamp", a), CZC!MakeDerived(c, "kLeftIndicator", a),
              CZC!MakeDerived(c, "kRightIndicator", a)>>
    <3>1. d = CZC!HazardFanout(c, context)
      BY <1>1, <1>d, <1>7
         DEF CZC!Arbitrate, CZC!IsIndicatorActivationCommand, CZC!Indicators
    <3> QED
      BY <3>1 DEF CZC!HazardFanout
  <2>2. \A f : /\ CZC!MakeDerived(c, f, a).function = f
               /\ CZC!MakeDerived(c, f, a).sequence_counter = c.sequence_counter
    BY <1>1 DEF CZC!MakeDerived, LampCommand
  <2> HIDE DEF a
  <2>3. /\ Len(d) = 3 /\ d[1].function = "kHazardLamp" /\ d[2].function = "kLeftIndicator"
        /\ d[3].function = "kRightIndicator"
        /\ d[2].sequence_counter = d[1].sequence_counter
        /\ d[3].sequence_counter = d[1].sequence_counter
    BY <2>1, <2>2
  <2>4. Ahead' = 3 /\ \A i \in 1 .. 3 : CommandAhead(i)' = d[i]
    BY <1>1, <1>5, <2>3
  <2>5. Answer(View, c) = Answer(View, d[1])
    BY <1>7, <2>3 DEF Answer, Indicators
  <2>6. \A i \in 2 .. 3 : i = 2 \/ i = 3
    OBVIOUS
  <2>7. \A i \in 2 .. 3 : d[i].function \in Indicators
                            /\ d[i].sequence_counter = d[1].sequence_counter
    BY <2>3, <2>6, LitFacts
  <2>8. /\ CommandAhead(1)' = d[1] /\ \A i \in 2 .. 3 : CommandAhead(i)' = d[i]
    BY <2>4
  <2>9. HazardAhead'
    BY <1>1, <1>4, <2>3, <2>4, <2>5, <2>7, <2>8 DEF HazardAhead
  <2> QED
    BY <2>9 DEF OnTheWay
<1>8. CASE d = << >> /\ c.function # "kHazardLamp"
  <2>1. Answer(View, c) = View
    <3>1. c.function \in Indicators => context["kHazardLamp"]
      <4>1. <<c>> # << >> /\ CZC!Exchange(c) # << >>
        BY DEF CZC!Exchange
      <4>2. c.function \in Indicators => c.function # "kUnknown"
        BY DEF Indicators
      <4> QED
        BY <1>1, <1>d, <1>8, <4>1, <4>2 DEF CZC!Arbitrate
    <3>2. c.function \in Indicators => Answer(View, c) = View
      BY <1>3, <1>8, <3>1 DEF Answer, View
    <3> QED
      BY <1>6, <1>8, <3>2
  <2>2. Ahead' = 0
    BY <1>1, <1>5, <1>8
  <2> QED
    BY <1>1, <1>4, <2>1, <2>2 DEF OnTheWay, Settled
<1>9. CASE d = <<c>> /\ c.function # "kHazardLamp"
  <2>1. Ahead' = 1 /\ CommandAhead(1)' = c
    BY <1>1, <1>5, <1>9
  <2>2. CASE c.function \in Indicators
    BY <1>1, <1>2, <1>4, <2>1, <2>2 DEF OnTheWay, IndicatorAhead, Proper, Node!IsCompanion
  <2>3. CASE c.function \notin Indicators
    <3>1. expected' = View'
      BY <1>1, <1>4, <1>6, <1>9, <2>3
    <3>2. \A i \in 1 .. Ahead' : CommandAhead(i)' = c
      BY <2>1
    <3> QED
      BY <1>9, <2>3, <3>1, <3>2 DEF OnTheWay, Settled
  <2> QED
    BY <2>2, <2>3
<1>10. CASE /\ d = CZC!Exchange(c) /\ CZC!IsIndicatorActivationCommand(c)
            /\ ~context["kHazardLamp"] /\ context[CZC!Opposite(c.function)]
  <2> DEFINE first == CZC!MakeDerived(c, CZC!Opposite(c.function), "kDeactivate")
             second == [c EXCEPT !.action = "kActivate"]
  <2>1. d = <<first, second>>
    BY <1>10 DEF CZC!Exchange
  <2>2. /\ c.function \in Indicators /\ Opposite(c.function) \in Indicators
        /\ Opposite(c.function) # c.function
        /\ c.action \in {"kActivate", "kToggle"}
        /\ ~Node!IsOn("kHazardLamp") /\ Node!IsOn(Opposite(c.function))
    BY <1>3, <1>10, SameDomain
       DEF CZC!IsIndicatorActivationCommand, CZC!IsActionKnownAndActive, Opposite, Indicators
  <2>3. /\ first.function = Opposite(c.function) /\ first.action = "kDeactivate"
        /\ first.sequence_counter = c.sequence_counter
        /\ second.function = c.function /\ second.action = "kActivate"
        /\ second.sequence_counter = c.sequence_counter
    BY <1>1, SameDomain DEF CZC!MakeDerived, LampCommand
  <2> HIDE DEF first, second
  <2>4. Ahead' = 2 /\ CommandAhead(1)' = first /\ CommandAhead(2)' = second
    <3>1. Len(d) = 2 /\ d[1] = first /\ d[2] = second
      BY <2>1
    <3> QED
      BY <1>1, <1>5, <3>1
  <2>5. Proper(first)' /\ Proper(second)'
    BY <1>2, <1>4, <2>2, <2>3 DEF Proper, Node!IsCompanion
  <2>6. ~Node!IsOn(c.function)
    BY <2>2 DEF SafeInv, Safe, Indicators, Opposite
  <2>7. Answer(View, c) = Answer(View, second)
    <3>1. c.function \notin Node!Lit
      BY <2>2, <2>6, LitFacts DEF Node!IsOn
    <3> QED
      BY <2>2, <2>3, <3>1, LitFacts DEF Answer, View, Resolve
  <2>8. ExchangeAhead'
    BY <1>1, <1>4, <2>2, <2>3, <2>4, <2>5, <2>7 DEF ExchangeAhead
  <2> QED
    BY <2>8 DEF OnTheWay
<1> QED
  <2>1. \/ c.function = "kHazardLamp"
        \/ c.function # "kHazardLamp" /\ (d = << >> \/ d = <<c>>)
        \/ /\ d = CZC!Exchange(c) /\ CZC!IsIndicatorActivationCommand(c)
           /\ ~context["kHazardLamp"] /\ context[CZC!Opposite(c.function)]
    BY <1>d DEF CZC!Arbitrate
  <2> QED
    BY <1>7, <1>8, <1>9, <1>10, <2>1


\* Sending moves a command from the decision to the queue; what is ahead stays.
LEMMA SendPatience ==
  ASSUME ZInv, SafeInv, PatienceInv, OperatorThread, CZC!SendNext(TRUE), NodeQuiet
  PROVE  PatienceInv'
<1> DEFINE c == Head(decision)
           n == Len(to_node)
           m == Len(decision)
<1>1. /\ UNCHANGED <<lamp_output, active_indicator_before_hazard, last_hazard_sequence,
                     environment, expected, patient, presses>>
      /\ operator = "send" /\ operator' \in {"idle", "send"}
      /\ outgoing' = <<c>> /\ decision' = Tail(decision)
  BY DEF OperatorThread, CZC!SendNext, history, operator_history, NodeQuiet, node
<1>2. decision \in Seq(LampCommand(SequenceCounters)) /\ decision # << >>
  BY <1>1 DEF ZInv, Typing, DecisionInv
<1>3. /\ c \in LampCommand(SequenceCounters) /\ c = decision[1] /\ m \in Nat \ {0}
      /\ Len(decision') = m - 1 /\ \A i \in 1 .. m - 1 : decision'[i] = decision[i + 1]
  BY <1>1, <1>2, HeadTailProperties, EmptySeq
<1>4. n \in Nat
  BY LenProperties DEF ZInv, Typing
<1>5. /\ Len(to_node') = n + 1 /\ \A i \in 1 .. n : to_node'[i] = to_node[i]
      /\ to_node'[n + 1].command = c
  BY <1>1, <1>3, QueueGrows DEF ZInv, Typing, OperatorThread
<1> HIDE DEF c, n, m
<1>6. Ahead' = Ahead /\ Ahead = n + m
  BY <1>3, <1>4, <1>5 DEF Ahead, n, m
<1>7. ASSUME NEW i \in 1 .. Ahead
      PROVE  CommandAhead(i)' = CommandAhead(i)
  <2>1. CASE i <= n
    BY <1>4, <1>5, <1>6, <2>1 DEF CommandAhead, n
  <2>2. CASE i = n + 1
    BY <1>3, <1>4, <1>5, <1>6, <2>2 DEF CommandAhead, n
  <2>3. CASE i > n + 1
    <3>1. i - (n + 1) \in 1 .. m - 1 /\ (i - (n + 1)) + 1 = i - n /\ ~(i <= n) /\ ~(i <= n + 1)
      BY <1>3, <1>4, <1>6, <2>3
    <3> QED
      BY <1>3, <1>5, <3>1 DEF CommandAhead, n
  <2> QED
    BY <1>3, <1>4, <1>6, <2>1, <2>2, <2>3
<1>8. /\ View' = View /\ (Calm' <=> Calm)
      /\ \A x : Node!IsCompanion(x)' <=> Node!IsCompanion(x)
      /\ Node!IsOn("kHazardLamp")' <=> Node!IsOn("kHazardLamp")
  BY <1>1 DEF View, Node!Lit, Node!IsOn, Calm, TogglesHazard, Counting, NothingFails,
         BothStayUp, Delivers, Node!IsCompanion
<1>9. OnTheWay => OnTheWay'
  <2>1. CASE Settled
    BY <1>1, <1>6, <1>7, <1>8, <2>1 DEF OnTheWay, Settled, Node!IsCompanion
  <2>2. CASE HazardAhead
    <3>1. /\ 1 \in 1 .. Ahead /\ \A i \in 2 .. Ahead : i \in 1 .. Ahead
      BY <1>3, <1>4, <1>6, <2>2 DEF HazardAhead
    <3>2. CommandAhead(1)' = CommandAhead(1)
             /\ \A i \in 2 .. Ahead : CommandAhead(i)' = CommandAhead(i)
      BY <1>7, <3>1
    <3>3. HazardAhead'
      BY <1>1, <1>6, <1>8, <2>2, <3>2 DEF HazardAhead
    <3> QED
      BY <3>3 DEF OnTheWay
  <2>3. CASE IndicatorAhead
    <3>1. CommandAhead(1)' = CommandAhead(1)
      BY <1>7, <2>3 DEF IndicatorAhead
    <3>2. IndicatorAhead'
      BY <1>1, <1>6, <1>8, <2>3, <3>1 DEF IndicatorAhead, Proper, Node!IsCompanion
    <3> QED
      BY <3>2 DEF OnTheWay
  <2>4. CASE ExchangeAhead
    <3>1. CommandAhead(1)' = CommandAhead(1) /\ CommandAhead(2)' = CommandAhead(2)
      BY <1>7, <2>4 DEF ExchangeAhead
    <3>2. ExchangeAhead'
      BY <1>1, <1>6, <1>8, <2>4, <3>1 DEF ExchangeAhead, Proper, Node!IsCompanion
    <3> QED
      BY <3>2 DEF OnTheWay
  <2> QED
    BY <2>1, <2>2, <2>3, <2>4 DEF OnTheWay
<1> QED
  BY <1>1, <1>8, <1>9 DEF PatienceInv

\* Exchanging the indicators in two steps comes to the same.
LEMMA ExchangeAnswer ==
  ASSUME NEW first, NEW second, ~Node!IsOn("kHazardLamp"), second.function \in Indicators,
         first.function = Opposite(second.function), first.action = "kDeactivate",
         second.action = "kActivate", View' = Answer(View, first)
  PROVE  /\ Answer(View', second) = Answer(View, second)
         /\ ~Node!IsOn("kHazardLamp")'
<1> DEFINE saved == {active_indicator_before_hazard} \ {"kUnknown"}
<1>1. first.function \in Indicators /\ "kHazardLamp" \notin Indicators
  BY DEF Opposite, Indicators
<1>2. View' = [hazard |-> FALSE, lit |-> Node!Lit \ {first.function}, saved |-> saved]
  BY <1>1 DEF Answer, View, Resolve, Node!IsOn
<1>3. ASSUME NEW lit, NEW s
      PROVE  Answer([hazard |-> FALSE, lit |-> lit, saved |-> s], second)
               = [hazard |-> FALSE, lit |-> {second.function}, saved |-> s]
  BY <1>1 DEF Answer, Resolve
<1>4. Answer(View, second) = [hazard |-> FALSE, lit |-> {second.function}, saved |-> saved]
  BY <1>1 DEF Answer, View, Resolve, Node!IsOn
<1> HIDE DEF saved
<1>5. Answer(View', second) = Answer(View, second)
  BY <1>2, <1>3, <1>4
<1>6. View'.hazard = FALSE
  BY <1>2
<1>7. ~Node!IsOn("kHazardLamp")'
  BY <1>6 DEF View, Node!IsOn
<1> QED
  BY <1>5, <1>7

LEMMA NodeStepPatience ==
  ASSUME ZInv, SafeInv, PatienceInv, NodeStep, UNCHANGED environment
  PROVE  PatienceInv'
<1>c. PICK c : c = Head(to_node).command
  OBVIOUS
<1>1. /\ UNCHANGED <<operator, decision, expected, patient, presses, environment>>
      /\ to_node # << >> /\ to_node' = Tail(to_node) /\ Node!OnTransportMessageReceived(c)
  BY <1>c DEF NodeStep, controller, operator_history
<1>2. /\ Len(to_node) \in Nat \ {0} /\ Len(to_node') = Len(to_node) - 1
      /\ \A i \in 1 .. Len(to_node') : to_node'[i] = to_node[i + 1]
      /\ Head(to_node) = to_node[1] /\ c \in LampCommand(SequenceCounters)
  BY <1>c, <1>1, QueueShrinks DEF ZInv, Typing, Message
<1>3. Len(decision) \in Nat
  BY LenProperties DEF ZInv, Typing
<1>4. /\ Ahead \in Nat \ {0} /\ Ahead' = Ahead - 1 /\ CommandAhead(1) = c
      /\ 1 \in 1 .. Ahead
  BY <1>c, <1>1, <1>2, <1>3 DEF Ahead, CommandAhead
<1>5. ASSUME NEW i \in 1 .. Ahead'
      PROVE  CommandAhead(i)' = CommandAhead(i + 1) /\ i + 1 \in 2 .. Ahead
  <2>1. i + 1 \in 2 .. Ahead /\ i \in Nat
    BY <1>4
  <2>2. CASE i <= Len(to_node')
    <3>1. i + 1 <= Len(to_node) /\ i \in 1 .. Len(to_node')
      BY <1>2, <2>1, <2>2
    <3> QED
      BY <1>2, <2>1, <2>2, <3>1 DEF CommandAhead
  <2>3. CASE ~(i <= Len(to_node'))
    <3>1. ~(i + 1 <= Len(to_node)) /\ i - Len(to_node') = (i + 1) - Len(to_node)
      BY <1>2, <2>1, <2>3
    <3> QED
      BY <1>1, <2>1, <2>3, <3>1 DEF CommandAhead
  <2> QED
    BY <2>2, <2>3
<1>6. /\ c.function = "kHazardLamp" => View' = Answer(View, c)
      /\ Proper(c) => View' = Answer(View, c)
      /\ c.function \in Indicators /\ Node!IsCompanion(c) => View' = View
      /\ c.function \notin Indicators \cup {"kHazardLamp"} => View' = View
  BY <1>1, <1>2, NodeView DEF ZInv, SafeInv, Proper
<1>7. /\ c.function = "kHazardLamp" => last_hazard_sequence' = c.sequence_counter
      /\ c.function # "kHazardLamp" => last_hazard_sequence' = last_hazard_sequence
  BY <1>1, <1>2, NodeCommand DEF ZInv, HazardEffect
<1>8. "kHazardLamp" \notin Indicators
  BY DEF Indicators
<1> SUFFICES ASSUME Calm'
             PROVE  operator \in {"idle", "send"} /\ OnTheWay'
  BY <1>1 DEF PatienceInv
<1>9. operator \in {"idle", "send"} /\ OnTheWay
  BY <1>1 DEF Calm, TogglesHazard, Counting, NothingFails, BothStayUp, Delivers, PatienceInv, Reading
<1>10. CASE Settled
  <2>1. View' = View /\ last_hazard_sequence' = last_hazard_sequence
    BY <1>4, <1>6, <1>7, <1>8, <1>10 DEF Settled
  <2>2. ASSUME NEW i \in 1 .. Ahead', NEW d, d = CommandAhead(i)'
        PROVE  \/ d.function \notin Indicators \cup {"kHazardLamp"}
               \/ d.function \in Indicators /\ Node!IsCompanion(d)
    <3>1. d = CommandAhead(i + 1) /\ i + 1 \in 1 .. Ahead
      BY <1>5, <2>2
    <3> QED
      BY <1>10, <3>1 DEF Settled
  <2>3. Settled'
    BY <1>1, <1>10, <2>1, <2>2 DEF Settled, Node!IsCompanion
  <2> QED
    BY <1>9, <2>3 DEF OnTheWay
<1>11. CASE HazardAhead
  <2>1. View' = expected' /\ last_hazard_sequence' = c.sequence_counter
    BY <1>1, <1>4, <1>6, <1>7, <1>11 DEF HazardAhead
  <2>2. ASSUME NEW i \in 1 .. Ahead', NEW d, d = CommandAhead(i)'
        PROVE  d.function \in Indicators /\ d.sequence_counter = c.sequence_counter
    <3>1. d = CommandAhead(i + 1) /\ i + 1 \in 2 .. Ahead
      BY <1>5, <2>2
    <3> QED
      BY <1>4, <1>11, <3>1 DEF HazardAhead
  <2>3. Settled'
    BY <2>1, <2>2 DEF Settled, Node!IsCompanion
  <2> QED
    BY <1>9, <2>3 DEF OnTheWay
<1>12. CASE IndicatorAhead
  <2>1. View' = expected' /\ Ahead' = 0
    BY <1>1, <1>4, <1>6, <1>12 DEF IndicatorAhead
  <2>2. Settled'
    BY <2>1 DEF Settled
  <2> QED
    BY <1>9, <2>2 DEF OnTheWay
<1>13. CASE ExchangeAhead
  <2>1. PICK second : second = CommandAhead(2)
    OBVIOUS
  <2>2. /\ Proper(c) /\ Proper(second) /\ c.function = Opposite(second.function)
        /\ c.action = "kDeactivate" /\ second.action = "kActivate" /\ Ahead = 2
        /\ ~Node!IsOn("kHazardLamp") /\ expected = Answer(View, second)
    BY <1>4, <1>13, <2>1 DEF ExchangeAhead
  <2>3. View' = Answer(View, c) /\ last_hazard_sequence' = last_hazard_sequence
    BY <1>6, <1>7, <1>8, <2>2 DEF Proper
  <2>4. Ahead' = 1 /\ CommandAhead(1)' = second
    <3>1. Ahead' = 1 /\ 1 \in 1 .. Ahead'
      BY <1>4, <2>2
    <3> QED
      BY <1>5, <2>1, <3>1
  <2>5. expected' = Answer(View', second)
    BY <1>1, <2>2, <2>3, ExchangeAnswer DEF Proper
  <2>6. Proper(second)'
    BY <2>2, <2>3 DEF Proper, Node!IsCompanion
  <2>7. IndicatorAhead'
    BY <2>4, <2>5, <2>6 DEF IndicatorAhead
  <2> QED
    BY <1>9, <2>7 DEF OnTheWay
<1> QED
  BY <1>9, <1>10, <1>11, <1>12, <1>13 DEF OnTheWay

LEMMA StepPatience ==
  ASSUME ZInv, SafeInv, CacheInv, PatienceInv, [Next]_vars
  PROVE  PatienceInv'
<1>1. CASE ControllerStep /\ UNCHANGED environment
  <2>1. NodeQuiet
    BY <1>1 DEF NodeQuiet, ControllerStep, Press, OperatorThread, Receive, FinishReceiving,
                Restart, history
  <2>2. CASE OperatorThread
    <3>1. CASE CZC!OperatorStep
      <4>1. UNCHANGED <<link, expected, presses, patient, environment>>
        <5>1. to_node' = to_node
          BY <2>2, <3>1, QueueKept
             DEF ZInv, Typing, OperatorThread, CZC!OperatorStep, CZC!ReadContext, CZC!Decide
        <5> QED
          BY <1>1, <2>2, <5>1 DEF OperatorThread, history, operator_history, link
      <4>2. Calm' <=> Calm
        BY <4>1 DEF Calm, TogglesHazard, Counting, NothingFails, BothStayUp, Delivers
      <4> SUFFICES ASSUME Calm
                   PROVE  IF operator' \in {"idle", "send"} THEN OnTheWay' ELSE Reading'
        BY <4>2 DEF PatienceInv
      <4>3. Reading
        BY <3>1 DEF PatienceInv, CZC!OperatorStep, CZC!ReadContext, CZC!Decide
      <4>4. CASE CZC!Decide
        <5>1. operator' \in {"idle", "send"}
          BY <4>4 DEF CZC!Decide
        <5> QED
          BY <2>1, <4>1, <4>3, <4>4, <5>1, DecidePatience
      <4>5. ASSUME NEW f \in {"kLeftIndicator", "kRightIndicator", "kHazardLamp"}, NEW next,
                   CZC!ReadContext(f, next),
                   \/ f = "kLeftIndicator" /\ next = "kRightIndicator"
                   \/ f = "kRightIndicator" /\ next = "kHazardLamp"
                   \/ f = "kHazardLamp" /\ next = "arbitrate"
            PROVE  Reading' /\ operator' \notin {"idle", "send"}
        BY <2>1, <4>1, <4>3, <4>5, ReadPatience DEF CZC!ReadContext
      <4> QED
        BY <3>1, <4>4, <4>5 DEF CZC!OperatorStep
    <3>2. ASSUME NEW accepted \in environment.answers, CZC!SendNext(accepted)
          PROVE  PatienceInv'
      <4>1. Calm' => accepted = TRUE
        BY <1>1, <3>2 DEF Calm, NothingFails
      <4> QED
        BY <2>1, <2>2, <3>2, <4>1, SendPatience DEF PatienceInv
    <3> QED
      BY <2>2, <3>1, <3>2 DEF OperatorThread
  <2>3. CASE Receive \/ FinishReceiving
    <3>1. /\ UNCHANGED <<environment, operator, to_node, decision, expected, lamp_output,
                         active_indicator_before_hazard, last_hazard_sequence, patient,
                         presses>>
          /\ to_czc # << >> \/ receiving # CZC!None
      BY <1>1, <2>3
         DEF ControllerStep, node, Receive, FinishReceiving, CZC!OnLampStatusReceived,
             CZC!UpdateLampStatus, CZC!operator_thread, history, operator_history, link
    <3>2. Calm' <=> Calm
      BY <3>1 DEF Calm, TogglesHazard, Counting, NothingFails, BothStayUp, Delivers
    <3> QED
      BY <3>1, <3>2, PatienceKept DEF PatienceInv, Reading
  <2>4. CASE Restart
    BY <1>1, <2>4 DEF Restart, PatienceInv, Calm, TogglesHazard, Counting, NothingFails, BothStayUp, Delivers
  <2> QED
    BY <1>1, <2>1, <2>2, <2>3, <2>4, PressPatience DEF ControllerStep
<1>2. CASE NodeStep /\ UNCHANGED environment
  BY <1>2, NodeStepPatience
<1>3. CASE RestartNode /\ UNCHANGED environment
  <2>1. node_starts \in Nat /\ node_starts < environment.node_restarts
    BY <1>3 DEF RestartNode, ZInv, Typing
  <2> QED
    BY <1>3, <2>1 DEF PatienceInv, Calm, NothingFails, BothStayUp
<1>4. CASE Lose /\ UNCHANGED environment
  BY <1>4 DEF Lose, PatienceInv, Calm, TogglesHazard, Counting, NothingFails, BothStayUp, Delivers
<1>5. CASE UNCHANGED vars
  <2>1. /\ UNCHANGED <<environment, operator, to_node, decision, expected, lamp_output,
                       active_indicator_before_hazard, last_hazard_sequence, patient>>
        /\ UNCHANGED <<to_czc, receiving, hazard_press, presses, lamp_command, context>>
    BY <1>5 DEF vars, controller, node, link, history, operator_history, node_history
  <2>2. (Calm' <=> Calm) /\ (Reading' <=> Reading)
    BY <2>1 DEF Calm, TogglesHazard, Counting, NothingFails, BothStayUp, Delivers, Reading, View,
                Node!Lit, Node!IsOn
  <2> QED
    BY <2>1, <2>2, PatienceKept DEF PatienceInv
<1> QED
  BY <1>1, <1>2, <1>3, <1>4, <1>5 DEF Next

LEMMA PatienceInvariance == Spec => []PatienceInv
<1>1. Init => PatienceInv
  BY InitPatience
<1>2. ZInv /\ SafeInv /\ CacheInv /\ PatienceInv /\ [Next]_vars => PatienceInv'
  BY StepPatience
<1> QED
  BY <1>1, <1>2, Invariance, SafeInvariance, CacheInvariance, PTL DEF Spec


\* An indicator is on only if it was asked for, whatever is lost, refused or started
\* again, as long as no hazard command was lost or forgotten before its companions:
\* the companions of a hazard command follow it and carry its counter.
THEOREM OnlyAsked == Spec => []OnlyAskedIndicators
<1>1. AskedInv => OnlyAskedIndicators
  BY DEF AskedInv, OnlyAskedIndicators
<1> QED
  BY <1>1, AskedInvariance, PTL

\* When the link delivers and the controller stays up, both its caches are right at
\* rest about every lamp the node has told of since it started, for any number of
\* requests and although the two are written one after the other: each change of a
\* lamp is sent, and the last event of a lamp is the last to be caught.
THEOREM CachesTrue == Spec => []CachesTrueAtRest
<1>1. CacheInv => CachesTrueAtRest
  <2> SUFFICES ASSUME CacheInv, Delivers, AtRest, NEW f \in LampFunctions
               PROVE  \A cache \in {lamp_status_cache, cached_lamp_statuses} :
                        IF f \in told THEN cache[f] = lamp_output[f] ELSE ~Node!IsOn(f)
    BY DEF CachesTrueAtRest, Knows
  <2>1. CacheOf(f) /\ Len(to_czc) = 0 /\ receiving.function # f
    BY DEF CacheInv, AtRest, CZC!None, LampFunctions
  <2> QED
    BY <2>1 DEF CacheOf, Caught, Node!IsOn
<1> QED
  BY <1>1, CacheInvariance, PTL

\* The hazard lamp goes on and off only as it is told, for any number of requests and
\* whatever the operator does to the indicators meanwhile, as long as he awaits the
\* answer to each hazard command: the toggle was resolved with the truth.
THEOREM HazardAsTold == Spec => HazardDoesAsTold
<1> DEFINE Told == /\ BothStayUp /\ TogglesHazard /\ informed
                   /\ Node!IsOn("kHazardLamp") # Node!IsOn("kHazardLamp")'
                   => Head(to_node).command.action =
                        IF Node!IsOn("kHazardLamp") THEN "kDeactivate" ELSE "kActivate"
<1>1. ZInv /\ ToldInv /\ [Next]_vars => [Told]_vars
  <2> SUFFICES ASSUME ZInv, ToldInv, Next, BothStayUp, TogglesHazard, informed,
                      Node!IsOn("kHazardLamp") # Node!IsOn("kHazardLamp")'
               PROVE  Reverses(Head(to_node).command)
    BY DEF Reverses
  <2>1. NodeStep \/ RestartNode
    BY DEF Next, ControllerStep, Lose, node, Node!IsOn
  <2>2. NodeStep
    <3>1. environment.node_restarts = 0 /\ node_starts \in Nat
      BY DEF BothStayUp, ZInv, Typing
    <3>2. ~RestartNode
      BY <3>1 DEF RestartNode
    <3> QED
      BY <2>1, <3>2
  <2>3. HazardEffect(Head(to_node).command)
    BY <2>2, NodeStepTypes DEF Next, ZInv
  <2>4. IsHazard(Head(to_node))
    BY <2>3 DEF HazardEffect, IsHazard, Node!IsOn
  <2>5. 1 \in 1 .. Len(to_node) /\ Head(to_node) = to_node[1]
    BY <2>2, QueueShrinks DEF ZInv, Typing, NodeStep
  <2> QED
    BY <2>4, <2>5 DEF ToldInv
<1> QED
  BY <1>1, Invariance, ToldInvariance, PTL DEF Spec, HazardDoesAsTold

\* An operator who always waits for rest gets what each request means, for any number
\* of requests the counter can count without wrapping (one counted round would make
\* a command look like a companion of the last hazard request).
THEOREM Patience == Spec => []PatienceIsRewarded
<1>1. ZInv /\ SafeInv /\ PatienceInv => PatienceIsRewarded
  <2> SUFFICES ASSUME ZInv, SafeInv, PatienceInv, NothingFails, TogglesHazard, Counting,
                      patient, AtRest
               PROVE  (Node!IsOn("kHazardLamp") <=> expected.hazard)
                        /\ Node!Lit = expected.lit
    BY DEF PatienceIsRewarded
  <2>1. Calm
    BY DEF Calm
  <2>2. operator = "idle" /\ Ahead = 0
    BY DEF AtRest, SafeInv, Ahead
  <2>3. View = expected
    BY <2>1, <2>2 DEF PatienceInv, OnTheWay, Settled, HazardAhead, IndicatorAhead, ExchangeAhead
  <2> QED
    BY <2>3 DEF View
<1> QED
  BY <1>1, Invariance, SafeInvariance, PatienceInvariance, PTL

\* In the composition too, whatever arrives or is lost, the node never drives both
\* indicators, and remembers an interrupted one only while its hazard lamp is on.
THEOREM OneIndicator ==
  Spec => [](/\ Node!OutputsAreSafe
             /\ ~Node!IsOn("kHazardLamp") => active_indicator_before_hazard = "kUnknown")
<1>1. ZInv /\ SafeInv =>
        /\ Node!OutputsAreSafe
        /\ ~Node!IsOn("kHazardLamp") => active_indicator_before_hazard = "kUnknown"
  BY DEF ZInv, Typing, SafeInv, Safe, Node!OutputsAreSafe
<1> QED
  BY <1>1, Invariance, SafeInvariance, PTL

-----------------------------------------------------------------------------
(* The turn-signal policy in the composition. *)

KeepsPolicy == Node!Policy!Next \/ UNCHANGED Node!Policy!vars

\* The view of the requests is the policy's view of the node.
LEMMA PolicyView ==
  /\ View.hazard = Node!IsOn("kHazardLamp") /\ View.lit = Node!Lit
  /\ Safe => View.saved = IF Node!IsOn("kHazardLamp")
                          THEN {active_indicator_before_hazard} \ {"kUnknown"} ELSE {}
  BY DEF View, Safe

\* An answer to a request is a step of the policy.
LEMMA AnswerKeepsPolicy ==
  ASSUME Safe, Safe', NEW c, c.function \in Indicators \cup {"kHazardLamp"},
         View' = Answer(View, c)
  PROVE  KeepsPolicy
<1> DEFINE f == c.function
           saved == IF Node!IsOn("kHazardLamp")
                    THEN {active_indicator_before_hazard} \ {"kUnknown"} ELSE {}
<1>1. /\ View.hazard = Node!IsOn("kHazardLamp") /\ View.lit = Node!Lit /\ View.saved = saved
      /\ View'.hazard = Node!IsOn("kHazardLamp")' /\ View'.lit = Node!Lit'
      /\ View'.saved = saved'
  BY DEF View, Safe
<1>2. /\ View = [hazard |-> View.hazard, lit |-> View.lit, saved |-> View.saved]
      /\ "kHazardLamp" \notin Indicators /\ View.hazard \in BOOLEAN
  BY DEF View, Indicators, Node!IsOn
<1>3. CASE f = "kHazardLamp" /\ ~View.hazard
  <2>1. View'.hazard = TRUE /\ View'.lit = View.lit /\ View'.saved = View.lit
    BY <1>2, <1>3 DEF Answer
  <2>2. View.saved = {}
    BY <1>1, <1>3
  <2>3. Node!Policy!HazardOn
    BY <1>1, <1>3, <2>1, <2>2 DEF Node!Policy!HazardOn
  <2> QED
    BY <2>3 DEF KeepsPolicy, Node!Policy!Next
<1>4. CASE f = "kHazardLamp" /\ View.hazard
  <2>1. View'.hazard = FALSE /\ View'.lit = View.saved /\ View'.saved = {}
    BY <1>2, <1>4 DEF Answer
  <2>2. Node!Policy!HazardOffRestore
    BY <1>1, <1>4, <2>1 DEF Node!Policy!HazardOffRestore
  <2> QED
    BY <2>2 DEF KeepsPolicy, Node!Policy!Next
<1>5. CASE f \in Indicators /\ ~View.hazard
  <2>1. /\ View'.hazard = View.hazard /\ View'.saved = View.saved
        /\ View'.lit = {f} \/ View'.lit = View.lit \ {f}
    BY <1>2, <1>5 DEF Answer
  <2>2. View.saved = {}
    BY <1>1, <1>5
  <2>3. Node!Policy!Activate(f) \/ Node!Policy!Deactivate(f)
    BY <1>1, <1>5, <2>1, <2>2 DEF Node!Policy!Activate, Node!Policy!Deactivate
  <2>4. f \in Node!Indicators
    BY <1>5, SameDomain
  <2> QED
    BY <2>3, <2>4 DEF KeepsPolicy, Node!Policy!Next
<1>6. CASE f \in Indicators /\ View.hazard
  <2>1. View' = View
    BY <1>2, <1>6 DEF Answer
  <2> QED
    BY <1>1, <2>1 DEF KeepsPolicy, Node!Policy!vars
<1> QED
  BY <1>2, <1>3, <1>4, <1>5, <1>6

\* So every datagram the node handles is, a command without an action included.
LEMMA CommandKeepsPolicy ==
  ASSUME Typing, Safe, NEW c \in LampCommand(SequenceCounters),
         Node!OnTransportMessageReceived(c)
  PROVE  KeepsPolicy
<1>1. Safe'
  BY NodeView
<1>2. CASE View' = View
  <2>1. View'.hazard = View.hazard /\ View'.lit = View.lit /\ View'.saved = View.saved
    BY <1>2
  <2> QED
    BY <1>1, <2>1 DEF View, Safe, KeepsPolicy, Node!Policy!vars
<1>3. CASE /\ c.function \in Indicators \cup {"kHazardLamp"}
           /\ View' = Answer(View, c)
  BY <1>1, <1>3, AnswerKeepsPolicy
<1>4. CASE c.function \in Indicators /\ ~Node!IsCompanion(c) /\ c.action = "kNoAction"
  <2>1. \A g \in Indicators \cup {"kHazardLamp"} : lamp_output'[g] = lamp_output[g]
    <3>1. CASE IndicatorEffect(c.function, Resolve(lamp_output[c.function], c.action))
      BY <1>4, <3>1, LitFacts DEF IndicatorEffect, Resolve, Typing, Outputs
    <3>2. CASE OtherEffect(c)
      BY <3>2, LitFacts DEF OtherEffect
    <3> QED
      BY <1>4, <3>1, <3>2, CommandEffect, LitFacts
  <2>2. active_indicator_before_hazard' = active_indicator_before_hazard
    BY <1>4, CommandEffect, LitFacts DEF IndicatorEffect, OtherEffect
  <2>3. Node!Lit' = Node!Lit
    BY <2>1, LitFacts
  <2> QED
    BY <1>2, <2>1, <2>2, <2>3 DEF View, Node!IsOn
<1> QED
  BY <1>2, <1>3, <1>4, NodeView

\* A start of the node is one, too: of hazard going off without a restoration or, with
\* hazard off, of the indicator that was lit failing.
LEMMA StartKeepsPolicy ==
  ASSUME Safe, Node!Restart
  PROVE  KeepsPolicy
<1>1. /\ \A f \in LampFunctions : lamp_output'[f] = "kOff"
      /\ active_indicator_before_hazard' = "kUnknown"
  BY SameDomain DEF Node!Restart
<1>2. Node!Lit' = {} /\ ~Node!IsOn("kHazardLamp")' /\ {active_indicator_before_hazard'} \ {"kUnknown"} = {}
  BY <1>1, LitFacts DEF Node!IsOn
<1>3. CASE Node!IsOn("kHazardLamp")
  <2>1. Node!Policy!HazardOffRestore
    BY <1>2, <1>3 DEF Node!Policy!HazardOffRestore
  <2> QED
    BY <2>1 DEF KeepsPolicy, Node!Policy!Next
<1>4. CASE ~Node!IsOn("kHazardLamp")
  <2>1. active_indicator_before_hazard = "kUnknown"
    BY <1>4 DEF Safe
  <2>2. Node!IsOn("kHazardLamp")' = Node!IsOn("kHazardLamp")
    BY <1>2, <1>4 DEF Node!IsOn
  <2>3. active_indicator_before_hazard' = active_indicator_before_hazard
    BY <1>1, <2>1
  <2>4. CASE Node!Lit = {}
    BY <1>2, <2>2, <2>3, <2>4 DEF KeepsPolicy, Node!Policy!vars
  <2>5. ASSUME NEW f \in Indicators, f \in Node!Lit
        PROVE  KeepsPolicy
    <3>1. Node!Lit = {f}
      BY <2>5, LitFacts DEF Safe, Node!IsOn
    <3>2. Node!Policy!IndicatorFails(f) /\ f \in Node!Indicators
      BY <1>2, <2>2, <2>3, <2>5, <3>1, SameDomain DEF Node!Policy!IndicatorFails
    <3> QED
      BY <3>2 DEF KeepsPolicy, Node!Policy!Next
  <2> QED
    BY <2>4, <2>5, LitFacts
<1> QED
  BY <1>3, <1>4

\* Whatever the controller resolves with, however datagrams are lost and whoever starts
\* again, every step of the composition is a step of the turn-signal policy, or changes
\* nothing of it.
THEOREM PolicyRefinement == Spec => Node!ImplementsPolicy
<1>1. Init => Node!Policy!Init
  <2> SUFFICES ASSUME Init
               PROVE  Node!Policy!Init
    OBVIOUS
  <2>1. \A f \in LampFunctions : lamp_output[f] = "kOff"
    BY SameDomain DEF Init, Node!Init
  <2>2. Node!Lit = {} /\ ~Node!IsOn("kHazardLamp")
    BY <2>1, LitFacts DEF Node!IsOn
  <2> QED
    BY <2>2 DEF Node!Policy!Init
<1>2. ZInv /\ SafeInv /\ [Next]_vars => [Node!Policy!Next]_(Node!Policy!vars)
  <2> SUFFICES ASSUME ZInv, SafeInv, [Next]_vars
               PROVE  KeepsPolicy
    BY DEF KeepsPolicy
  <2>1. CASE UNCHANGED node
    BY <2>1 DEF node, KeepsPolicy, Node!Policy!vars, Node!IsOn, Node!Lit
  <2>2. CASE NodeStep
    <3>1. Head(to_node).command \in LampCommand(SequenceCounters)
      BY <2>2, QueueShrinks DEF ZInv, Typing, NodeStep, Message
    <3> QED
      BY <2>2, <3>1, CommandKeepsPolicy DEF NodeStep, ZInv, SafeInv
  <2>3. CASE RestartNode
    BY <2>3, StartKeepsPolicy DEF RestartNode, SafeInv
  <2> QED
    BY <2>1, <2>2, <2>3 DEF Next, ControllerStep, Lose, vars, node
<1> QED
  BY <1>1, <1>2, Invariance, SafeInvariance, PTL
     DEF Spec, Node!ImplementsPolicy, Node!Policy!Spec
=============================================================================
