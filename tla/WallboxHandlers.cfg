SPECIFICATION Spec
CONSTANTS
  Pin <- AllPins
  RelayPin = "relay"
  GreenPin = "green"
  YellowPin = "yellow"
  RedPin = "red"
  SettablePins <- OnlyRelay
  WritablePins <- AllPins
  IsoStates <- PeerStates
  EnableCmds = {TRUE, FALSE}
  CpInputs <- AllLevels
INVARIANT TypeOK
INVARIANT DisabledIsDead
INVARIANT RelayFlagIsLevel
INVARIANT LedsTellState
INVARIANT StoppedIsOff
PROPERTY WithdrawnContactorOpens
PROPERTY MessagesNeverResume
PROPERTY AnswersAreCurrent
PROPERTY ImplementsStateMachine
