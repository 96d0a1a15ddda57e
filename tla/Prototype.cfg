SPECIFICATION FairSpec
CONSTANTS
  Fd = {3, 4, 5}
  Conn = {c1, c2, c3}
  Server = Server
  Nobody = Nobody
  ListenSock = 3
  MaxEvents = 2
  MaxFaults = 1
INVARIANTS
  TypeOK
  EventsCurrent
  OpenIsLive
PROPERTY
  GoneIsClosed
CHECK_DEADLOCK FALSE
