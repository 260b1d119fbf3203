---------------------------- MODULE FaultManager ----------------------------
(***************************************************************************)
(* FaultManager: the fault table of a lighting node, kept twice.  faulted_ *)
(* answers IsFaulted (the activation guard), and active_dtcs_, a compacted *)
(* array with its count, is what the diagnostic services report.  A fault  *)
(* code is identified with the lamp function it stands for                 *)
(* (LampFunctionToFaultCode is one to one).                                *)
(*                                                                         *)
(* The class has no lock: this module is its behaviour for the single      *)
(* caller its threading contract asks for.  ZephyrNode shows what another  *)
(* thread sees in the middle of one of these operations.                   *)
(***************************************************************************)
EXTENDS Integers, FiniteSets

CONSTANTS
  Functions,   \* the lamp functions (five in the code)
  Capacity,    \* kMaxActiveDtcs, the slots of active_dtcs_
  kNoFault     \* the empty slot

ASSUME FunctionsAssumption == IsFiniteSet(Functions) /\ kNoFault \notin Functions
ASSUME CapacityAssumption == Capacity \in Nat /\ Cardinality(Functions) <= Capacity

VARIABLES
  faulted,             \* faulted_: one flag per function
  active_dtcs,         \* active_dtcs_[i-1] is active_dtcs[i]
  active_fault_count   \* active_fault_count_

vars == <<faulted, active_dtcs, active_fault_count>>

Slots == 1 .. Capacity

Init ==
  /\ faulted = [f \in Functions |-> FALSE]
  /\ active_dtcs = [i \in Slots |-> kNoFault]
  /\ active_fault_count = 0

(***************************************************************************)
(* A new fault sets the flag and, if a slot is left, appends its code.     *)
(***************************************************************************)
InjectFault(f) ==
  /\ ~faulted[f]
  /\ faulted' = [faulted EXCEPT ![f] = TRUE]
  /\ IF active_fault_count < Capacity
     THEN /\ active_dtcs' = [active_dtcs EXCEPT ![active_fault_count + 1] = f]
          /\ active_fault_count' = active_fault_count + 1
     ELSE UNCHANGED <<active_dtcs, active_fault_count>>

\* The first slot in use that holds the code of f (the search loop).
IsFirstSlotOf(i, f) ==
  /\ i \in 1 .. active_fault_count
  /\ active_dtcs[i] = f
  /\ \A j \in 1 .. (i - 1) : active_dtcs[j] # f

\* Mutation of WithoutSlot: the compaction stops one slot early and leaves the
\* last code behind.
WithoutSlotShiftShort(i) ==
  [j \in Slots |-> IF i <= j /\ j + 1 < active_fault_count THEN active_dtcs[j + 1]
                   ELSE active_dtcs[j]]

\* Slot i removed: the used slots after it move one to the left and the last
\* of them becomes empty.
WithoutSlot(i) ==
  [j \in Slots |-> IF i <= j /\ j < active_fault_count THEN active_dtcs[j + 1]
                   ELSE IF j = active_fault_count THEN kNoFault
                   ELSE active_dtcs[j]]

(***************************************************************************)
(* Clearing drops the flag and compacts the array; if no slot holds the    *)
(* code, the search loop ends without a change.                            *)
(***************************************************************************)
ClearFault(f) ==
  /\ faulted[f]
  /\ faulted' = [faulted EXCEPT ![f] = FALSE]
  /\ IF f \in {active_dtcs[i] : i \in 1 .. active_fault_count}
     THEN \E i \in 1 .. active_fault_count :
            /\ IsFirstSlotOf(i, f)
            /\ active_dtcs' = WithoutSlot(i)
            /\ active_fault_count' = active_fault_count - 1
     ELSE UNCHANGED <<active_dtcs, active_fault_count>>

ClearAllFaults ==
  /\ faulted' = [f \in Functions |-> FALSE]
  /\ active_dtcs' = [i \in Slots |-> kNoFault]
  /\ active_fault_count' = 0

Next == \/ \E f \in Functions : InjectFault(f) \/ ClearFault(f)
        \/ ClearAllFaults

Spec == Init /\ [][Next]_vars

-----------------------------------------------------------------------------
TypeOK ==
  /\ faulted \in [Functions -> BOOLEAN]
  /\ active_dtcs \in [Slots -> Functions \cup {kNoFault}]
  /\ active_fault_count \in 0 .. Capacity

\* What GetFaultStatus hands out: the codes in the used slots.
ReportedFaults == {active_dtcs[i] : i \in 1 .. active_fault_count}

\* The two tables agree: the used slots hold each faulted function exactly
\* once, and nothing else (so no fault is reported twice, missed or left
\* behind), and the slots beyond the count are empty, as LampFaultStatus says.
DtcTableMatchesFlags ==
  /\ ReportedFaults = {f \in Functions : faulted[f]}
  /\ \A i, j \in 1 .. active_fault_count :
        active_dtcs[i] = active_dtcs[j] => i = j
  /\ \A i \in Slots : i > active_fault_count => active_dtcs[i] = kNoFault

\* The reported codes behave as the set of faults that FaultSet promises, for
\* every order of injections and clears.
Reported == INSTANCE FaultSet WITH faults <- ReportedFaults
ImplementsFaultSet == Reported!Spec
=============================================================================
