--------------------------- MODULE MCZonalLighting ---------------------------
EXTENDS ZonalLighting

\* The buttons of the control panel.
Toggles == {[function |-> f, action |-> "kToggle"] :
              f \in {"kLeftIndicator", "kRightIndicator", "kHazardLamp"}}

\* With explicit requests, which the operator service also offers.
TurnRequests == Toggles \cup {[function |-> "kLeftIndicator", action |-> "kActivate"]}
HazardRequests == Toggles \cup {[function |-> "kHazardLamp", action |-> "kDeactivate"]}

\* Nothing fails; the network and the controller do; the node does; a send may.
MCEnvironments ==
  {[requests |-> TurnRequests, presses |-> 4, lossy |-> FALSE, answers |-> {TRUE},
    czc_restarts |-> FALSE, node_restarts |-> 0],
   [requests |-> Toggles, presses |-> 2, lossy |-> TRUE, answers |-> {TRUE, FALSE},
    czc_restarts |-> TRUE, node_restarts |-> 0],
   [requests |-> HazardRequests, presses |-> 3, lossy |-> FALSE, answers |-> {TRUE},
    czc_restarts |-> FALSE, node_restarts |-> 1],
   [requests |-> Toggles, presses |-> 3, lossy |-> FALSE, answers |-> {TRUE, FALSE},
    czc_restarts |-> FALSE, node_restarts |-> 0]}
=============================================================================
