SPECIFICATION RemovalSpec
CONSTANTS
  Fd = {3, 4}
  Conn = {c1}
  Server = Server
  Nobody = Nobody
  MaxEvents = 2
INVARIANTS
  WaitsForWork
CHECK_DEADLOCK FALSE
