SPECIFICATION FairSpec
CONSTANTS
  Process = {p1, p2, p3}
  Client = {c1}
  Nobody = Nobody
  MaxFaults = 1
INVARIANTS
  TypeOK
  PortServed
PROPERTIES
  RestartServes
  BacklogEnds
CHECK_DEADLOCK FALSE
