SPECIFICATION LoopSpec
CONSTANTS
  SequenceCounters <- MCSequenceCounters
  Commands <- MCCommands
  Faultable <- MCFaultable
  MsModulus = 5
  Period = 2
  MaxElapsed = 2
INVARIANTS
  OutputsAreSafe
  NoPinWithoutLamp
  BlinkNeverSticks
PROPERTIES
  ImplementsPolicy
  HazardPulsesAreFull
  IndicatorPulsesAreFull
