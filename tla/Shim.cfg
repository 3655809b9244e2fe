\* The class over a connection that may end in every way the contract allows.
SPECIFICATION ShimSpec
CONSTANTS
  Payloads <- MCPayloads
  CloseCalls <- MCCloseCalls
  PeerCodes = {1000}
  MaxSends = 3
  MaxDiscarded = 1
  MaxMsgs = 2
INVARIANTS TypeOK EventsHonest SendsInOrder
PROPERTIES ClosingCompletes
CHECK_DEADLOCK FALSE
