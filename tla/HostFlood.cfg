\* A peer that never stops pinging keeps the deadline from being looked at.
SPECIFICATION FairTransportSpec
CONSTANTS
  s1 = s1 s2 = s2 r1 = r1 r2 = r2 NoCall = NoCall
  Sends = {}
  Receives = {}
  CloseRequests <- MCCloseRequests
  PeerCodes <- MCOnePeerCode
  MaxMsgs = 0
  Offset <- MCOffset
  Limit = 2
  MaxPings = 0
  Flood = TRUE
  MaxWire = 2
PROPERTIES ClosingIsBoundedUnderFlood
CHECK_DEADLOCK FALSE
