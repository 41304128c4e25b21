SPECIFICATION AtomicSpec
CONSTANTS
  console = console
  udp = udp
  monitor = monitor
  User <- OneUser
  Receiver <- Udp
  Monitor <- Cp
  UserCalls <- Handlers
  Messages <- AllMessages
  Overlap = FALSE
PROPERTY ImplementsController
INVARIANT SerialDisabledRests
