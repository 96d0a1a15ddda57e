SPECIFICATION Spec
CONSTANTS
  Byte <- MCByte
  ServerStreams <- MCServerStreams
  DemoStreams <- MCDemoStreams
  BufMax = 8
INVARIANT
  EachRequestExact
CHECK_DEADLOCK FALSE
