SPECIFICATION Spec
CONSTANTS
  console = console
  request = request
  udp = udp
  User <- Users
  Receiver <- Nobody
  Monitor <- Nobody
  UserCalls <- StartAndDisable
  Messages <- AllMessages
  Overlap = TRUE
INVARIANT DisablingStopsCharging
