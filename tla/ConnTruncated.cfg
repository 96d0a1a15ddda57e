SPECIFICATION Spec
CONSTANTS
  RecvMax = 2
  RespLen = 3
  SndBuf = 2
  MaxSegs = 2
INVARIANT
  SuccessMeansSent
CHECK_DEADLOCK FALSE
