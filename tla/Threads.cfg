SPECIFICATION Spec
CONSTANTS
  console = console
  request = request
  udp = udp
  User <- OneUser
  Receiver <- Udp
  Monitor <- Nobody
  UserCalls <- NotEnable
  Messages <- Disabling
  Overlap = TRUE
PROPERTY ImplementsClass
PROPERTY DeadStaysDead
