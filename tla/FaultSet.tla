------------------------------ MODULE FaultSet ------------------------------
(***************************************************************************)
(* What the fault table of a lighting node promises to its readers (UDS    *)
(* 0x19, GetFaultStatus, the health publisher): it is a set of faulted     *)
(* lamp functions.  Reporting a fault twice, or clearing one that is not   *)
(* there, changes nothing.                                                 *)
(***************************************************************************)
CONSTANT Functions   \* the lamp functions that can be faulted

VARIABLE faults      \* those that are

Init == faults = {}

Raise(f) == faults' = faults \cup {f}

Clear(f) == faults' = faults \ {f}

ClearAll == faults' = {}

Next == \/ \E f \in Functions : Raise(f) \/ Clear(f)
        \/ ClearAll

Spec == Init /\ [][Next]_faults
=============================================================================
