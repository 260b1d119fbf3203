----------------------------- MODULE Controller -----------------------------
(***************************************************************************)
(* CentralZoneController with its LampStateManager and its                 *)
(* ExteriorLightingServiceConsumer.  Two threads meet here:                *)
(*                                                                         *)
(*   operator  runs SendLampCommand for one request of the HMI at a time   *)
(*   receiver  runs OnLampStatusReceived for one status event at a time    *)
(*                                                                         *)
(* The receiver writes the cache the HMI reads and, after the cache lock   *)
(* is released, the one arbitration reads, which has no lock at all: the   *)
(* operator thread reads it lamp by lamp while it changes.                 *)
(*                                                                         *)
(* outgoing holds the datagrams a step hands to the transport; what        *)
(* becomes of them is the network's affair (ZonalLighting).                *)
(***************************************************************************)
EXTENDS CommandArbitrator

CONSTANT SequenceModulus   \* 2^16, next_sequence_counter_ is a uint16_t

VARIABLES
  operator,               \* where the operator thread is, see OperatorPoints
  lamp_command,           \* the command it is sending
  context,                \* what it has read of the arbitration context
  decision,               \* the commands it has still to send
  next_sequence_counter,
  receiving,              \* the status event between the two caches, or None
  cached_lamp_statuses,   \* what GetCachedLampStatus answers
  lamp_status_cache,      \* of the LampStateManager
  outgoing                \* datagrams handed over in the last step

operator_thread == <<operator, lamp_command, context, decision, next_sequence_counter>>
caches == <<receiving, cached_lamp_statuses, lamp_status_cache>>
vars == <<operator_thread, caches, outgoing>>

OperatorPoints == {"idle", "kLeftIndicator", "kRightIndicator", "kHazardLamp",
                   "arbitrate", "send"}
None == [function |-> "kUnknown", output |-> "kUnknown"]
NoCommand == [function |-> "kUnknown", action |-> "kNoAction", sequence_counter |-> 0]
NoContext == [f \in {"kLeftIndicator", "kRightIndicator", "kHazardLamp"} |-> FALSE]

\* Mutation of FirstSequenceCounter: counting starts at the invalid value.
FirstSequenceCounterInvalid == 0

FirstSequenceCounter == 1

\* The process starts, or starts again: nothing it held survives.
Start ==
  [operator |-> "idle", lamp_command |-> NoCommand, context |-> NoContext,
   decision |-> << >>, next_sequence_counter |-> FirstSequenceCounter,
   receiving |-> None, cache |-> [f \in LampFunctions |-> "kUnknown"]]

Init ==
  /\ operator = Start.operator
  /\ lamp_command = Start.lamp_command
  /\ context = Start.context
  /\ decision = Start.decision
  /\ next_sequence_counter = Start.next_sequence_counter
  /\ receiving = Start.receiving
  /\ cached_lamp_statuses = Start.cache
  /\ lamp_status_cache = Start.cache
  /\ outgoing = << >>

\* A crash and restart of the controller process.
Restart ==
  /\ operator' = Start.operator
  /\ lamp_command' = Start.lamp_command
  /\ context' = Start.context
  /\ decision' = Start.decision
  /\ next_sequence_counter' = Start.next_sequence_counter
  /\ receiving' = Start.receiving
  /\ cached_lamp_statuses' = Start.cache
  /\ lamp_status_cache' = Start.cache
  /\ outgoing' = << >>

-----------------------------------------------------------------------------
(* operator: SendLampCommand *)

\* Post-increment of a uint16_t.
NextSequenceCounter(n) == (n + 1) % SequenceModulus

SendLampCommand(f, action) ==
  /\ operator = "idle"
  /\ f # "kUnknown" /\ action # "kNoAction"
  /\ lamp_command' = [function |-> f, action |-> action,
                      sequence_counter |-> next_sequence_counter]
  /\ next_sequence_counter' = NextSequenceCounter(next_sequence_counter)
  /\ operator' = "kLeftIndicator"
  /\ outgoing' = << >>
  /\ UNCHANGED <<context, decision, caches>>

\* GetArbitrationContext reads one slot of the manager's cache after another.
ReadContext(f, next) ==
  /\ operator = f
  /\ context' = [context EXCEPT ![f] = (lamp_status_cache[f] = "kOn")]
  /\ operator' = next
  /\ outgoing' = << >>
  /\ UNCHANGED <<lamp_command, decision, next_sequence_counter, caches>>

Decide ==
  /\ operator = "arbitrate"
  /\ decision' = Arbitrate(lamp_command, context)
  /\ operator' = IF decision' = << >> THEN "idle" ELSE "send"
  /\ outgoing' = << >>
  /\ UNCHANGED <<lamp_command, context, next_sequence_counter, caches>>

\* The next command of the decision is handed to the transport.  The fan-out
\* transport has sent it to the node before it knows whether its first transport
\* accepts it: if not, the rest of the decision is abandoned.
SendNext(accepted) ==
  /\ operator = "send"
  /\ outgoing' = <<Head(decision)>>
  /\ decision' = IF accepted THEN Tail(decision) ELSE << >>
  /\ operator' = IF decision' = << >> THEN "idle" ELSE "send"
  /\ UNCHANGED <<lamp_command, context, next_sequence_counter, caches>>

OperatorStep ==
  \/ ReadContext("kLeftIndicator", "kRightIndicator")
  \/ ReadContext("kRightIndicator", "kHazardLamp")
  \/ ReadContext("kHazardLamp", "arbitrate")
  \/ Decide

-----------------------------------------------------------------------------
(* receiver: OnTransportMessageReceived, which reaches OnLampStatusReceived *)

OnLampStatusReceived(status) ==
  /\ receiving = None
  /\ cached_lamp_statuses' =
       [cached_lamp_statuses EXCEPT ![status.function] = status.output]
  /\ receiving' = status
  /\ outgoing' = << >>
  /\ UNCHANGED <<operator_thread, lamp_status_cache>>

\* Mutation of UpdateLampStatus: only active outputs are recorded.
UpdateLampStatusActiveOnly ==
  /\ receiving # None
  /\ lamp_status_cache' =
       [lamp_status_cache EXCEPT ![receiving.function] =
          IF receiving.output = "kOn" THEN "kOn" ELSE @]
  /\ receiving' = None
  /\ outgoing' = << >>
  /\ UNCHANGED <<operator_thread, cached_lamp_statuses>>

UpdateLampStatus ==
  /\ receiving # None
  /\ lamp_status_cache' =
       [lamp_status_cache EXCEPT ![receiving.function] = receiving.output]
  /\ receiving' = None
  /\ outgoing' = << >>
  /\ UNCHANGED <<operator_thread, cached_lamp_statuses>>
=============================================================================
