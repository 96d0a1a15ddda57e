SPECIFICATION Spec
CONSTANTS
  RecvMax = 2
  RespLen = 3
  SndBuf = 2
  MaxSegs = 2
INVARIANT
  SendErrorReported
CHECK_DEADLOCK FALSE
