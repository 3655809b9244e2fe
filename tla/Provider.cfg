\* The two sides of the connection, one at a time.
SPECIFICATION Spec
CONSTANTS
  s1 = s1 s2 = s2 r1 = r1 r2 = r2 NoCall = NoCall
  Sends = {s1, s2}
  Receives = {r1, r2}
  CloseRequests <- MCCloseRequests
  PeerCodes <- MCOnePeerCode
  MaxMsgs = 3
  Offset <- MCOffset
  Limit = 2
  MaxPings = 2
  MaxWire = 1
CONSTRAINT EitherSide
SYMMETRY CallSymmetry
INVARIANTS TypeOK NoGap BudgetExact ReceiveErrorsHonest WireHonest BufferIsWatched
PROPERTIES SignalsWin ImplementsContract
CHECK_DEADLOCK FALSE
