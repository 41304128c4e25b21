SPECIFICATION FairLink
CONSTANTS
  Pin <- AllPins
  RelayPin = "relay"
  GreenPin = "green"
  YellowPin = "yellow"
  RedPin = "red"
  SettablePins <- NoPins
  WritablePins <- AllPins
  IsoStates <- SimulatorStates
  EnableCmds = {TRUE, FALSE}
  CpInputs <- NoLevels
  UserCalls <- NotStart
  Commands <- SessionCommands
  MaxToBox = 2
  MaxToSim = 1
INVARIANT IdleEndsSession
PROPERTY LocalDisableStands
PROPERTY PeerIsHeard
PROPERTY EdgesTellStatus
