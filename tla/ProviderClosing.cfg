\* A local close against a stalled transport, and the readers it wakes.
SPECIFICATION FairSpec
CONSTANTS
  s1 = s1 s2 = s2 r1 = r1 r2 = r2 NoCall = NoCall
  Sends = {s1}
  Receives = {r1}
  CloseRequests <- MCCloseRequests
  PeerCodes <- MCOnePeerCode
  MaxMsgs = 0
  Offset <- MCOffset
  Limit = 2
  MaxPings = 1
  MaxWire = 1
PROPERTIES LocalCloseIsBounded ReadersWoken
CHECK_DEADLOCK FALSE
