------------------------- MODULE FaultManagerProofs -------------------------
(***************************************************************************)
(* The fault table is correct for every set of lamp functions and every    *)
(* number of slots that is large enough for it.  The agreement of the two  *)
(* tables is inductive only together with the fact that the count is the   *)
(* number of faulted functions: that is what shows that InjectFault never  *)
(* finds the array full.                                                   *)
(***************************************************************************)
EXTENDS FaultManager, FiniteSetTheorems, TLAPS

FaultedSet == {f \in Functions : faulted[f]}

\* The inductive invariant.
IInv ==
  /\ TypeOK
  /\ DtcTableMatchesFlags
  /\ active_fault_count = Cardinality(FaultedSet)

-----------------------------------------------------------------------------
\* A slot is left whenever a function that is not faulted becomes faulted.
LEMMA RoomForNewFault ==
  ASSUME IInv, NEW f \in Functions, ~faulted[f]
  PROVE  /\ active_fault_count + 1 = Cardinality(FaultedSet \cup {f})
         /\ active_fault_count < Capacity
         /\ active_fault_count \in Nat
<1>1. FaultedSet \in SUBSET Functions /\ FaultedSet \cup {f} \in SUBSET Functions
  BY DEF FaultedSet
<1>2. IsFiniteSet(FaultedSet) /\ f \notin FaultedSet
  BY <1>1, FS_Subset, FunctionsAssumption DEF FaultedSet
<1>3. Cardinality(FaultedSet \cup {f}) = Cardinality(FaultedSet) + 1
  BY <1>2, FS_AddElement
<1>4. Cardinality(FaultedSet \cup {f}) <= Cardinality(Functions)
  BY <1>1, FS_Subset, FunctionsAssumption
<1>5. Cardinality(FaultedSet) \in Nat /\ Cardinality(Functions) \in Nat
  BY <1>2, FS_CardinalityType, FunctionsAssumption
<1> QED
  BY <1>3, <1>4, <1>5, CapacityAssumption DEF IInv

\* Appending a code keeps the two tables in agreement.
LEMMA InjectFaultInv ==
  ASSUME IInv, NEW f \in Functions, InjectFault(f)
  PROVE  IInv'
<1>1. active_fault_count < Capacity /\ active_fault_count \in Nat /\ ~faulted[f]
  BY RoomForNewFault DEF InjectFault
<1>2. /\ faulted' = [faulted EXCEPT ![f] = TRUE]
      /\ active_dtcs' = [active_dtcs EXCEPT ![active_fault_count + 1] = f]
      /\ active_fault_count' = active_fault_count + 1
  BY <1>1 DEF InjectFault
<1>3. TypeOK'
  BY <1>1, <1>2, CapacityAssumption DEF IInv, TypeOK, Slots
<1>4. FaultedSet' = FaultedSet \cup {f}
  BY <1>2 DEF FaultedSet, IInv, TypeOK
<1>5. active_fault_count' = Cardinality(FaultedSet')
  BY <1>1, <1>2, <1>4, RoomForNewFault
<1>6. \A i \in 1 .. active_fault_count : active_dtcs'[i] = active_dtcs[i]
  BY <1>1, <1>2, CapacityAssumption DEF IInv, TypeOK, Slots
<1>7. active_dtcs'[active_fault_count'] = f
  BY <1>1, <1>2, CapacityAssumption DEF IInv, TypeOK, Slots
<1>8. ReportedFaults' = ReportedFaults \cup {f}
  BY <1>1, <1>2, <1>6, <1>7 DEF ReportedFaults
<1>9. \A i, j \in 1 .. active_fault_count' :
        active_dtcs'[i] = active_dtcs'[j] => i = j
  <2>1. \A i \in 1 .. active_fault_count : active_dtcs[i] # f
    BY <1>1 DEF IInv, DtcTableMatchesFlags, ReportedFaults
  <2> QED
    BY <2>1, <1>1, <1>2, <1>6, <1>7 DEF IInv, DtcTableMatchesFlags
<1>10. \A i \in Slots : i > active_fault_count' => active_dtcs'[i] = kNoFault
  BY <1>1, <1>2, CapacityAssumption DEF IInv, TypeOK, DtcTableMatchesFlags, Slots
<1> QED
  BY <1>3, <1>4, <1>5, <1>8, <1>9, <1>10
     DEF IInv, DtcTableMatchesFlags, FaultedSet

\* A faulted function has a slot, and compacting it away keeps the agreement.
LEMMA ClearFaultInv ==
  ASSUME IInv, NEW f \in Functions, ClearFault(f)
  PROVE  IInv'
<1> DEFINE n == active_fault_count
<1>1. n \in Nat /\ n <= Capacity /\ Capacity \in Nat
  BY CapacityAssumption DEF IInv, TypeOK
<1>2. PICK i \in 1 .. n : /\ IsFirstSlotOf(i, f)
                          /\ active_dtcs' = WithoutSlot(i)
                          /\ active_fault_count' = n - 1
  BY DEF ClearFault, IInv, DtcTableMatchesFlags, ReportedFaults
<1>3. /\ faulted[f] /\ faulted' = [faulted EXCEPT ![f] = FALSE]
      /\ active_dtcs[i] = f
  BY <1>2 DEF ClearFault, IsFirstSlotOf
<1>4. \A j \in 1 .. (n - 1) :
        active_dtcs'[j] = IF i <= j THEN active_dtcs[j + 1] ELSE active_dtcs[j]
  BY <1>1, <1>2 DEF WithoutSlot, Slots
<1>5. TypeOK'
  BY <1>1, <1>2, <1>3 DEF IInv, TypeOK, WithoutSlot, Slots
<1>6. FaultedSet' = FaultedSet \ {f} /\ f \in FaultedSet
  BY <1>3 DEF FaultedSet, IInv, TypeOK
<1>7. active_fault_count' = Cardinality(FaultedSet')
  <2>1. IsFiniteSet(FaultedSet)
    BY FS_Subset, FunctionsAssumption, FaultedSet \in SUBSET Functions DEF FaultedSet
  <2> QED
    BY <2>1, <1>2, <1>6, FS_RemoveElement DEF IInv
<1>8. ReportedFaults' = ReportedFaults \ {f}
  <2>1. ASSUME NEW g \in ReportedFaults' PROVE g \in ReportedFaults \ {f}
    <3>1. PICK j \in 1 .. (n - 1) : g = active_dtcs'[j]
      BY <1>2, <2>1 DEF ReportedFaults
    <3>2. CASE i <= j
      BY <1>1, <1>3, <1>4, <3>1, <3>2 DEF ReportedFaults, IInv, DtcTableMatchesFlags
    <3>3. CASE ~(i <= j)
      BY <1>1, <1>3, <1>4, <3>1, <3>3 DEF ReportedFaults, IInv, DtcTableMatchesFlags
    <3> QED
      BY <3>2, <3>3
  <2>2. ASSUME NEW g \in ReportedFaults \ {f} PROVE g \in ReportedFaults'
    <3>1. PICK j \in 1 .. n : g = active_dtcs[j]
      BY <2>2 DEF ReportedFaults
    <3>2. j # i
      BY <1>3, <3>1, <2>2
    <3>3. CASE j < i
      <4>1. j \in 1 .. (n - 1) /\ active_dtcs'[j] = g
        BY <1>1, <1>4, <3>1, <3>3
      <4> QED
        BY <4>1, <1>2 DEF ReportedFaults
    <3>4. CASE i < j
      <4>1. j - 1 \in 1 .. (n - 1) /\ active_dtcs'[j - 1] = g
        BY <1>1, <1>4, <3>1, <3>4
      <4> QED
        BY <4>1, <1>2 DEF ReportedFaults
    <3> QED
      BY <3>2, <3>3, <3>4
  <2> QED
    BY <2>1, <2>2
<1>9. \A j, k \in 1 .. active_fault_count' :
        active_dtcs'[j] = active_dtcs'[k] => j = k
  BY <1>1, <1>2, <1>4 DEF IInv, DtcTableMatchesFlags
<1>10. \A j \in Slots : j > active_fault_count' => active_dtcs'[j] = kNoFault
  BY <1>1, <1>2 DEF WithoutSlot, Slots, IInv, DtcTableMatchesFlags, TypeOK
<1> QED
  BY <1>5, <1>6, <1>7, <1>8, <1>9, <1>10
     DEF IInv, DtcTableMatchesFlags, FaultedSet

\* Clearing all faults empties both tables.
LEMMA ClearAllFaultsInv ==
  ASSUME ClearAllFaults
  PROVE  IInv' /\ ReportedFaults' = {}
<1>1. FaultedSet' = {}
  BY DEF ClearAllFaults, FaultedSet
<1>2. 1 .. active_fault_count' = {}
  BY DEF ClearAllFaults
<1>3. TypeOK'
  BY CapacityAssumption DEF ClearAllFaults, TypeOK, Slots
<1>4. ReportedFaults' = {}
  BY <1>2 DEF ReportedFaults
<1> QED
  BY <1>1, <1>2, <1>3, <1>4, FS_EmptySet
     DEF ClearAllFaults, IInv, DtcTableMatchesFlags, FaultedSet, Slots

\* The empty tables satisfy the invariant.
LEMMA InitInv == Init => IInv /\ ReportedFaults = {}
<1> SUFFICES ASSUME Init PROVE IInv /\ ReportedFaults = {}
  OBVIOUS
<1>1. FaultedSet = {} /\ 1 .. active_fault_count = {}
  BY DEF Init, FaultedSet
<1>2. ReportedFaults = {}
  BY <1>1 DEF ReportedFaults
<1>3. TypeOK
  BY CapacityAssumption DEF Init, TypeOK, Slots
<1>4. DtcTableMatchesFlags
  BY <1>1, <1>2 DEF Init, DtcTableMatchesFlags, FaultedSet, Slots
<1>5. active_fault_count = Cardinality(FaultedSet)
  BY <1>1, FS_EmptySet DEF Init
<1> QED
  BY <1>2, <1>3, <1>4, <1>5 DEF IInv

\* Every operation keeps the invariant.
LEMMA NextInv == IInv /\ [Next]_vars => IInv'
<1> SUFFICES ASSUME IInv, [Next]_vars PROVE IInv'
  OBVIOUS
<1>1. CASE \E f \in Functions : InjectFault(f)
  BY <1>1, InjectFaultInv
<1>2. CASE \E f \in Functions : ClearFault(f)
  BY <1>2, ClearFaultInv
<1>3. CASE ClearAllFaults
  BY <1>3, ClearAllFaultsInv
<1>4. CASE UNCHANGED vars
  BY <1>4 DEF vars, IInv, TypeOK, DtcTableMatchesFlags, ReportedFaults, FaultedSet
<1> QED
  BY <1>1, <1>2, <1>3, <1>4 DEF Next

\* The flags, the codes and the count stay within their types.
THEOREM TypeCorrect == Spec => []TypeOK
<1>1. IInv => TypeOK
  BY DEF IInv
<1> QED
  BY <1>1, InitInv, NextInv, PTL DEF Spec

\* At every moment the reported codes are exactly the faulted functions, each
\* once, whatever was injected and cleared and in whatever order.
THEOREM TablesAgree == Spec => []DtcTableMatchesFlags
<1>1. IInv => DtcTableMatchesFlags
  BY DEF IInv
<1> QED
  BY <1>1, InitInv, NextInv, PTL DEF Spec

LEMMA TableStep ==
  ASSUME IInv, IInv', [Next]_vars
  PROVE  [Reported!Next]_ReportedFaults
<1>1. ReportedFaults = FaultedSet /\ ReportedFaults' = FaultedSet'
  BY DEF IInv, DtcTableMatchesFlags, FaultedSet
<1>2. ASSUME NEW f \in Functions, InjectFault(f)
      PROVE  Reported!Raise(f)
  BY <1>1, <1>2 DEF InjectFault, FaultedSet, IInv, TypeOK, Reported!Raise
<1>3. ASSUME NEW f \in Functions, ClearFault(f)
      PROVE  Reported!Clear(f)
  BY <1>1, <1>3 DEF ClearFault, FaultedSet, IInv, TypeOK, Reported!Clear
<1>4. CASE ClearAllFaults
  BY <1>4, ClearAllFaultsInv DEF Reported!ClearAll, Reported!Next
<1>5. CASE UNCHANGED vars
  BY <1>5 DEF vars, ReportedFaults
<1> QED
  BY <1>2, <1>3, <1>4, <1>5 DEF Next, Reported!Next

\* Readers of the codes see a set of faults: every step of the table is a
\* step of FaultSet, or none.
THEOREM Refinement == Spec => ImplementsFaultSet
<1>1. Init => Reported!Init
  BY InitInv DEF Reported!Init
<1>2. IInv /\ IInv' /\ [Next]_vars => [Reported!Next]_ReportedFaults
  BY TableStep
<1> QED
  BY <1>1, <1>2, InitInv, NextInv, PTL DEF Spec, ImplementsFaultSet, Reported!Spec
=============================================================================
