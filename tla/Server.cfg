SPECIFICATION FairSpec
CONSTANTS
  Fd = {3, 4, 5}
  Conn = {c1, c2, c3, c4}
  Server = Server
  Nobody = Nobody
  ListenSock = 3
  MaxEvents = 2
  MaxFaults = 2
INVARIANTS
  TypeOK
  DispatchLive
  OwnSocket
  DescriptorsAccounted
  RegistrationCoherent
PROPERTIES
  AnswersGoLast
  ImplementsLifecycle
  QueueServed
  BacklogServed
CHECK_DEADLOCK FALSE
