-------------------------- MODULE TurnSignalPolicy --------------------------
(***************************************************************************)
(* What a lighting node promises about its turn signals, as the road sees  *)
(* them: at most one indicator is on; the hazard lamp, once on, freezes    *)
(* the indicators and remembers the one that was on; when it goes off, the *)
(* only indicator that may come on by itself is that one.  A fault can     *)
(* switch any lamp off at any time.                                        *)
(***************************************************************************)
CONSTANT Indicators

VARIABLES
  hazard,      \* the hazard lamp is on
  lit,         \* the indicators that are on
  remembered   \* the one to restore: empty or a singleton

vars == <<hazard, lit, remembered>>

Init == hazard = FALSE /\ lit = {} /\ remembered = {}

HazardOn ==
  /\ ~hazard /\ remembered = {}
  /\ hazard' = TRUE
  /\ remembered' = lit
  /\ UNCHANGED lit

\* The indicators go off, and the remembered one is still to be restored, ...
HazardOff ==
  /\ hazard
  /\ hazard' = FALSE
  /\ lit' = {}
  /\ UNCHANGED remembered

\* ... or it is restored at once, unless it is faulted.
HazardOffRestore ==
  /\ hazard
  /\ hazard' = FALSE
  /\ lit' \in {remembered, {}}
  /\ remembered' = {}

\* After hazard-off: the remembered indicator comes back, unless it is faulted.
Restore ==
  /\ ~hazard /\ lit = {}
  /\ lit' \in {remembered, {}}
  /\ remembered' = {}
  /\ UNCHANGED hazard

\* The operator's own commands, obeyed only while the hazard lamp is off: the
\* other indicator goes off with the activation or before it.
Activate(f) ==
  /\ ~hazard /\ remembered = {}
  /\ lit' = {f}
  /\ UNCHANGED <<hazard, remembered>>

Deactivate(f) ==
  /\ ~hazard /\ remembered = {}
  /\ lit' = lit \ {f}
  /\ UNCHANGED <<hazard, remembered>>

\* Faults: a forgotten memory goes with the hazard lamp it belonged to.
IndicatorFails(f) ==
  /\ lit' = lit \ {f}
  /\ UNCHANGED <<hazard, remembered>>

HazardFails ==
  /\ hazard
  /\ hazard' = FALSE
  /\ remembered' = {}
  /\ UNCHANGED lit

Next == \/ HazardOn \/ HazardOff \/ HazardOffRestore \/ Restore \/ HazardFails
        \/ \E f \in Indicators : Activate(f) \/ Deactivate(f) \/ IndicatorFails(f)

Spec == Init /\ [][Next]_vars
=============================================================================
