SPECIFICATION StalledSpec
CONSTANTS
  Conn = {c1, c2}
  Session = {s1}
  EventCap = 1
  ClientCap = 1
  PtyCap = 1
  SockCap = 1
  StallLimit = 1
  MaxChunk = 2
  MaxReq = 1
CHECK_DEADLOCK FALSE
PROPERTY SlowClientBlocksNoReader
