----------------------------- MODULE MCStm32Loop -----------------------------
(***************************************************************************)
(* Every command on the turn lamps, indicator commands with the counter of *)
(* the hazard commands or another one; a command on an unknown lamp;       *)
(* faults of an indicator and of hazard; a clock that wraps after five     *)
(* milliseconds.                                                           *)
(***************************************************************************)
EXTENDS Stm32Loop

MCSequenceCounters == {1, 2}
MCTurnCommands == {c \in LampCommand(MCSequenceCounters) :
                     /\ c.function \in TurnLamps
                     /\ c.function = "kHazardLamp" => c.sequence_counter = 2}
MCUnknown == [function |-> "kUnknown", action |-> "kActivate", sequence_counter |-> 1]
MCCommands == MCTurnCommands \cup {MCUnknown}
MCFaultable == {"kLeftIndicator", "kHazardLamp"}
=============================================================================
