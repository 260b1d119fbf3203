----------------------------- MODULE MCSimulator -----------------------------
(***************************************************************************)
(* Two lamps: the threads may work on the same one or on different ones.   *)
(***************************************************************************)
EXTENDS Simulator

MCFunctions == {"kParkLamp", "kHeadLamp"}
=============================================================================
