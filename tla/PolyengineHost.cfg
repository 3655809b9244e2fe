\* One connection over the platform WebSocket: connect, queue, stream, sends, closes.
SPECIFICATION FairSpec
CONSTANTS
  s1 = s1 r1 = r1
  Receives = {r1}
  Sends = {s1}
  MaxItems = 1
  CloseRequests <- MCCloseRequests
  PeerCodes = {1005}
  AbnormalCodes = {0}
  MaxMsgs = 2
  Offset <- MCOffset
  Limit = 2
  MaxBuffered = 0
INVARIANTS TypeOK ReceiveErrorsHonest SentCountExact NoSocketLeaked
PROPERTIES SignalsWin ImplementsContract ClosingIsBounded
CHECK_DEADLOCK FALSE
