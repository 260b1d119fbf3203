-------------------------- MODULE CommandArbitrator --------------------------
(***************************************************************************)
(* CommandArbitrator::Arbitrate: the stateless policy of the controller.   *)
(* A decision is the sequence of commands to send, in order; the empty     *)
(* sequence is a rejection.  kNoAction and the unknown function are        *)
(* refused before it is called, and here once more.                        *)
(***************************************************************************)
EXTENDS LightingDomain, Sequences

\* The part of ArbitrationContext the rules look at.
Contexts == [{"kLeftIndicator", "kRightIndicator", "kHazardLamp"} -> BOOLEAN]

IsActionKnownAndActive(action) == action \in {"kActivate", "kToggle"}

MakeDerived(command, function, action) ==
  [command EXCEPT !.function = function, !.action = action]

ResolveHazardAction(command, context) ==
  IF command.action # "kToggle" THEN command.action
  ELSE IF context["kHazardLamp"] THEN "kDeactivate" ELSE "kActivate"

IsIndicatorActivationCommand(command) ==
  command.function \in Indicators /\ IsActionKnownAndActive(command.action)

\* Mutation of HazardFanout: the first index is used twice.
HazardFanoutTwice(command, context) ==
  LET resolved == ResolveHazardAction(command, context) IN
  <<MakeDerived(command, "kHazardLamp", resolved),
    MakeDerived(command, "kHazardLamp", resolved),
    MakeDerived(command, "kRightIndicator", resolved)>>

\* Rule 1: a hazard command becomes three with the same resolved action.
HazardFanout(command, context) ==
  LET resolved == ResolveHazardAction(command, context) IN
  <<MakeDerived(command, "kHazardLamp", resolved),
    MakeDerived(command, "kLeftIndicator", resolved),
    MakeDerived(command, "kRightIndicator", resolved)>>

\* Rules 3 and 4: the opposite indicator goes off before this one comes on.
Exchange(command) ==
  <<MakeDerived(command, Opposite(command.function), "kDeactivate"),
    [command EXCEPT !.action = "kActivate"]>>

Arbitrate(command, context) ==
  CASE command.function = "kUnknown" \/ command.action = "kNoAction" -> << >>
    [] command.function = "kHazardLamp" /\ command.action # "kNoAction" ->
         HazardFanout(command, context)
    [] IsIndicatorActivationCommand(command) /\ context["kHazardLamp"] -> << >>
    [] /\ IsIndicatorActivationCommand(command) /\ ~context["kHazardLamp"]
       /\ context[Opposite(command.function)] -> Exchange(command)
    [] OTHER -> <<command>>
=============================================================================
