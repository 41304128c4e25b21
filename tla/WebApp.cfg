SPECIFICATION FairWeb
CONSTANTS
  t1 = t1
  own = own
  Timer <- OneTimer
  Pin <- AllPins
  RelayPin = "relay"
  GreenPin = "green"
  YellowPin = "yellow"
  RedPin = "red"
  SettablePins <- NoPins
  WritablePins <- AllPins
  IsoStates <- NoInputs
  EnableCmds = {TRUE}
  CpInputs <- NoInputs
PROPERTY DeedIsSeen
PROPERTY PageCatchesUp
