\* Bounded closing, over a transport that may stall forever and one that ends every write; readers are woken.
SPECIFICATION FairSpec
CONSTANTS
  s1 = s1 s2 = s2 r1 = r1 r2 = r2 NoCall = NoCall
  Sends = {s1}
  Receives = {r1}
  CloseRequests <- MCCloseRequests
  PeerCodes <- MCOnePeerCode
  MaxMsgs = 2
  Offset <- MCOffset
  Limit = 1
  MaxPings = 0
  Flood = FALSE
  MaxWire = 1
CONSTRAINT OneKind
PROPERTIES ClosingIsBounded SendsAnswered ReadersWoken
CHECK_DEADLOCK FALSE
