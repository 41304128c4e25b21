SPECIFICATION WiringSpec
CONSTANTS
  Pin <- AllPins
  RelayPin = "relay"
  GreenPin = "green"
  YellowPin = "yellow"
  RedPin = "red"
  SettablePins <- LowPins
  WritablePins <- AllPins
  IsoStates <- PeerStates
  EnableCmds = {TRUE}
  CpInputs <- NoLevels
  Default <- DefaultLines
  Refusals <- ThreeRefusals
INVARIANT DisabledNeverCharges
INVARIANT PowerIsReported
INVARIANT OnlyAbandonedStayOn
