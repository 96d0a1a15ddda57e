SPECIFICATION Spec
CONSTANTS
  Byte <- MCByte
  ServerStreams <- MCServerStreams
  DemoStreams <- MCDemoStreams
  BufMax = 8
INVARIANTS
  TypeOK
  SplitIndependent
  FirstRequestExact
CHECK_DEADLOCK FALSE
