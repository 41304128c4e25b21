SPECIFICATION FairSpec
CONSTANTS
  Watchdog = 20
  RecvWait = 2
  InputWait = 1
INVARIANT TypeOK
INVARIANT FreshOrOpen
INVARIANT DisabledIsOpen
INVARIANT ReportIsCurrent
PROPERTY QuitEnds
CHECK_DEADLOCK FALSE
