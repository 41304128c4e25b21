SPECIFICATION Spec
CONSTANTS
  Pin <- AllPins
  RelayPin = "relay"
  GreenPin = "green"
  YellowPin = "yellow"
  RedPin = "red"
  SettablePins <- OnlyRelay
  WritablePins <- AllPins
  IsoStates <- PeerStates
  EnableCmds = {TRUE, FALSE}
  CpInputs <- AllLevels
PROPERTY UnplugResets
