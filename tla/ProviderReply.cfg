\* The reply to a ping or to the peer's close is left in the buffer.
SPECIFICATION Spec
CONSTANTS
  s1 = s1 s2 = s2 r1 = r1 r2 = r2 NoCall = NoCall
  Sends = {}
  Receives = {}
  CloseRequests <- MCCloseRequests
  PeerCodes <- MCOnePeerCode
  MaxMsgs = 0
  Offset <- MCOffset
  Limit = 2
  MaxPings = 1
  MaxWire = 1
INVARIANTS RepliesAreFlushed
CHECK_DEADLOCK FALSE
