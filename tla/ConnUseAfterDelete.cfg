SPECIFICATION Spec
CONSTANTS
  RecvMax = 2
  RespLen = 3
  SndBuf = 2
  MaxSegs = 2
INVARIANT
  NoUseAfterDelete
CHECK_DEADLOCK FALSE
