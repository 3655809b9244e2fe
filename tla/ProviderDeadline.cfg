\* A peer close behind a stalled write is not bounded.
SPECIFICATION FairSpec
CONSTANTS
  s1 = s1 s2 = s2 r1 = r1 r2 = r2 NoCall = NoCall
  Sends = {s1}
  Receives = {}
  CloseRequests <- MCCloseRequests
  PeerCodes <- MCOnePeerCode
  MaxMsgs = 0
  Offset <- MCOffset
  Limit = 2
  MaxPings = 0
  MaxWire = 1
PROPERTIES DeadlineTearsDown
CHECK_DEADLOCK FALSE
