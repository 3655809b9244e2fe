\* close() after a remote close discards the backlog.
SPECIFICATION Spec
CONSTANTS
  s1 = s1 s2 = s2 r1 = r1 r2 = r2 NoCall = NoCall
  Sends = {}
  Receives = {r1}
  CloseRequests <- MCCloseRequests
  PeerCodes <- MCOnePeerCode
  MaxMsgs = 1
  Offset <- MCOffset
  Limit = 2
  MaxPings = 0
  Flood = FALSE
  MaxWire = 1
PROPERTIES CloseOfClosedIsNoOp
CHECK_DEADLOCK FALSE
