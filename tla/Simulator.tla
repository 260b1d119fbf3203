------------------------------ MODULE Simulator ------------------------------
(***************************************************************************)
(* The Linux simulator of the exterior lighting node: one function manager *)
(* and two threads that call it without a lock.                            *)
(*                                                                         *)
(*   dispatch  vsomeip's thread, in ExteriorLightingServiceProvider.  Its  *)
(*             adapter registers SetLampCommand and two reads, so the      *)
(*             fault requests of the provider never reach this build       *)
(*   doip      the thread of DoipServer, in UdsRequestHandler: routines    *)
(*             0xB00x and ClearDiagnosticInformation                       *)
(*                                                                         *)
(* The threads run on different cores, so unlike in ZephyrNode, where      *)
(* priorities order them, either can come between two accesses of the      *)
(* other to what both use: the flags of the fault table and the outputs.   *)
(* The DTC array has one writer and is updated with its flag.  The main    *)
(* thread only reads the outputs to broadcast them.  There is no           *)
(* arbitration: a command is applied to the one lamp that it names.        *)
(***************************************************************************)
EXTENDS FaultManager, LightingDomain

VARIABLES
  lamp_output,  \* output_state of each of lamp_statuses_
  applying,     \* the command that dispatch is about to write, or NoCommand
  forcing_off   \* the lamp that doip is about to switch off, or NoLamp

simulator_vars == <<vars, lamp_output, applying, forcing_off>>

NoCommand == [function |-> "kUnknown", action |-> "kNoAction"]
NoLamp == "kUnknown"
AtRest == applying = NoCommand /\ forcing_off = NoLamp

SimulatorInit ==
  /\ Init
  /\ lamp_output = [f \in Functions |-> "kOff"]
  /\ applying = NoCommand
  /\ forcing_off = NoLamp

-----------------------------------------------------------------------------
(* dispatch: HandleSetLampCommand.  ApplyCommand reads the flag and the    *)
(* output for its guard; a command that is refused, or is kNoAction,       *)
(* changes no output.                                                      *)

SetLampCommand(f, action) ==
  /\ applying = NoCommand
  /\ ApplySucceeds(faulted[f], lamp_output[f], action)
  /\ applying' = [function |-> f, action |-> action]
  /\ UNCHANGED <<vars, lamp_output, forcing_off>>

\* The output is written later, whatever has become of the flag; a toggle
\* reads the output again.
WriteOutput ==
  /\ applying # NoCommand
  /\ lamp_output' = [lamp_output EXCEPT ![applying.function] =
                       OutputAfter(FALSE, @, applying.action)]
  /\ applying' = NoCommand
  /\ UNCHANGED <<vars, forcing_off>>

-----------------------------------------------------------------------------
(* doip: HandleRoutineControl and HandleClearDiagnosticInformation. *)

\* HandleFaultInjection records the fault, if it is a new one, ...
StartRoutine(f) ==
  /\ forcing_off = NoLamp
  /\ IF faulted[f] THEN UNCHANGED vars ELSE InjectFault(f)
  /\ forcing_off' = f
  /\ UNCHANGED <<lamp_output, applying>>

\* ... and then switches the lamp off.
ForceOff ==
  /\ forcing_off # NoLamp
  /\ lamp_output' = [lamp_output EXCEPT ![forcing_off] = "kOff"]
  /\ forcing_off' = NoLamp
  /\ UNCHANGED <<vars, applying>>

StopRoutine(f) ==
  /\ forcing_off = NoLamp /\ ClearFault(f)
  /\ UNCHANGED <<lamp_output, applying, forcing_off>>

ClearDiagnosticInformation ==
  /\ forcing_off = NoLamp /\ ClearAllFaults
  /\ UNCHANGED <<lamp_output, applying, forcing_off>>

SimulatorNext ==
  \/ \E f \in Functions, action \in LampCommandActions : SetLampCommand(f, action)
  \/ WriteOutput
  \/ \E f \in Functions : StartRoutine(f) \/ StopRoutine(f)
  \/ ForceOff
  \/ ClearDiagnosticInformation

SimulatorSpec == SimulatorInit /\ [][SimulatorNext]_simulator_vars

-----------------------------------------------------------------------------
(***************************************************************************)
(* What the repository says of the simulator and the code does not do.     *)
(***************************************************************************)
\* uds_request_handler.hpp calls the race benign, what is read being at worst
\* one cycle old.  Nothing may then be left of it once both threads are done
\* with a request: no faulted lamp is on.
RaceIsBenign ==
  AtRest => \A f \in Functions : faulted[f] => lamp_output[f] = "kOff"
=============================================================================
