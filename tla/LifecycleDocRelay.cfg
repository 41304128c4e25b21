SPECIFICATION LifeSpec
CONSTANTS
  r1 = r1
  Pin <- AllPins
  RelayPin = "relay"
  GreenPin = "green"
  YellowPin = "yellow"
  RedPin = "red"
  SettablePins <- NoPins
  WritablePins <- AllPins
  IsoStates <- PeerStates
  EnableCmds = {TRUE, FALSE}
  CpInputs <- PinLevels
  Setups <- DualHardware
  Messages <- FewMessages
  Calls <- StartDisable
  Request <- OneRequest
INVARIANT StoppedIsOff
CHECK_DEADLOCK FALSE
