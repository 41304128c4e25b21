SPECIFICATION FairLife
CONSTANTS
  r1 = r1
  Pin <- AllPins
  RelayPin = "relay"
  GreenPin = "green"
  YellowPin = "yellow"
  RedPin = "red"
  SettablePins <- NoPins
  WritablePins <- AllPins
  IsoStates <- PeerStates
  EnableCmds = {TRUE, FALSE}
  CpInputs <- PinLevels
  Setups <- AllSetups
  Messages <- FewMessages
  Calls <- StartDisable
  Request <- OneRequest
INVARIANT LifeTypeOK
INVARIANT UsesWhatLives
INVARIANT DisabledIsDead
INVARIANT EndIsOff
CHECK_DEADLOCK FALSE
PROPERTY EndsOrWaits
