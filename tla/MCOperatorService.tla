-------------------------- MODULE MCOperatorService --------------------------
EXTENDS OperatorService

MCLampOrder == <<"kLeftIndicator", "kHeadLamp">>
MCReportedStates == {"kOperational"}

Environment(transport, receivers, topics) ==
  [transport |-> transport, receivers |-> receivers, topics |-> topics]

\* The node and its simulator may both be connected.
OneReceiver == {"board"}
TwoReceivers == {"board", "simulator"}

MCEnvironments ==
  {Environment("vsomeip", OneReceiver, Lamps),
   Environment("vsomeip", OneReceiver, {"kHeadLamp", Health}),
   Environment("udp", TwoReceivers, {"kHeadLamp"}),
   Environment("udp", OneReceiver, Lamps)}

DeployedEnvironments == {Environment("vsomeip", OneReceiver, Lamps)}
=============================================================================
