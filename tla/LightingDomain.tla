--------------------------- MODULE LightingDomain ---------------------------
(***************************************************************************)
(* The domain layer shared by the controller and by every lighting node:   *)
(* the enumerations of the wire format and the meaning of one lamp command *)
(* for one lamp output (ExteriorLightingFunctionManager::ApplyCommand).    *)
(* Only constant-level operators live here, so that the state machines of  *)
(* the nodes and their proofs can share them.  The enumerator names are    *)
(* the source's; CommandSource decides nothing and is left out.            *)
(***************************************************************************)
EXTENDS Naturals

LampFunctions ==
  {"kLeftIndicator", "kRightIndicator", "kHazardLamp", "kParkLamp", "kHeadLamp"}

Indicators == {"kLeftIndicator", "kRightIndicator"}

LampCommandActions == {"kNoAction", "kActivate", "kDeactivate", "kToggle"}

\* What a node knows of its own outputs.  kUnknown, the third enumerator, is
\* only ever held by a controller that has not heard from the node.
OutputStates == {"kOff", "kOn"}

Opposite(f) == IF f = "kLeftIndicator" THEN "kRightIndicator" ELSE "kLeftIndicator"

(***************************************************************************)
(* IsValidLampCommand: every enumerator is in range.  kUnknown and         *)
(* kNoAction are in range, so a structurally valid command may carry them. *)
(***************************************************************************)
LampCommand(SequenceCounters) ==
  [function : LampFunctions \cup {"kUnknown"},
   action   : LampCommandActions,
   sequence_counter : SequenceCounters]

(***************************************************************************)
(* kToggle is a read-modify-write of the output it finds.                  *)
(***************************************************************************)
Resolve(out, action) ==
  IF action # "kToggle" THEN action
  ELSE IF out = "kOn" THEN "kDeactivate" ELSE "kActivate"

(***************************************************************************)
(* ApplyCommand, seen from one lamp whose output is out.  The fault guard  *)
(* refuses what would switch a faulted lamp on (kActivate, or kToggle from *)
(* kOff); an accepted command replaces the output; kNoAction leaves it     *)
(* alone and reports failure.                                              *)
(***************************************************************************)
Refuses(is_faulted, out, action) ==
  is_faulted /\ Resolve(out, action) = "kActivate"

OutputAfter(is_faulted, out, action) ==
  CASE Resolve(out, action) = "kActivate"   ->
         IF Refuses(is_faulted, out, action) THEN out ELSE "kOn"
    [] Resolve(out, action) = "kDeactivate" -> "kOff"
    [] Resolve(out, action) = "kNoAction"   -> out

ApplySucceeds(is_faulted, out, action) ==
  action # "kNoAction" /\ ~Refuses(is_faulted, out, action)
=============================================================================
