SPECIFICATION FairSpec
CONSTANTS
  Fd = {3, 4}
  Conn = {c1}
  Server = Server
  Nobody = Nobody
  MaxEvents = 2
INVARIANTS
  TypeOK
  OneRegistration
PROPERTIES
  EventsServed
CHECK_DEADLOCK FALSE
