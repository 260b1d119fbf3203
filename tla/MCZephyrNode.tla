---------------------------- MODULE MCZephyrNode ----------------------------
(***************************************************************************)
(* Small instances of the node.  Two sequence counters are enough to tell  *)
(* a companion from a fresh command.                                       *)
(***************************************************************************)
EXTENDS ZephyrNode

Command(f, a, s) == [function |-> f, action |-> a, sequence_counter |-> s]

MCSequenceCounters == {1, 2}

\* Both indicators and the hazard lamp, with fresh and companion counters.
TurnSignalCommands ==
  {Command("kHazardLamp", "kToggle", s) : s \in {1, 2}}
    \cup {Command("kLeftIndicator", a, 1) : a \in {"kActivate", "kDeactivate"}}
    \cup {Command("kLeftIndicator", "kToggle", 2), Command("kRightIndicator", "kToggle", 1),
          Command("kRightIndicator", "kActivate", 2)}

HazardAndLeft == {"kHazardLamp", "kLeftIndicator"}

\* For liveness: a head lamp that can be forced off, and the function that no lamp
\* answers to.
FewCommands == {Command("kHeadLamp", a, 2) : a \in {"kToggle", "kDeactivate"}}
                 \cup {Command("kUnknown", "kActivate", 1)}

HeadOnly == {"kHeadLamp"}
=============================================================================
