SPECIFICATION FairSpec
CONSTANTS
  RecvMax = 2
  RespLen = 4
  SndBuf = 2
  MaxSegs = 5
INVARIANTS
  TypeOK
  OneAnswerOnTheWire
  NoLostEdge
  WriterHasBytes
PROPERTIES
  ImplementsExchange
  ImplementsLifecycle
  AnswerFinishes
  DisconnectFinishes
  OnlyStalledStay
CHECK_DEADLOCK FALSE
