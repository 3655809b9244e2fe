\* What is sent while the socket is open and closed over in the same job.
SPECIFICATION ShimSpec
CONSTANTS
  Payloads <- MCPayloads
  CloseCalls <- MCCloseCalls
  PeerCodes = {1000}
  MaxSends = 2
  MaxDiscarded = 1
  MaxMsgs = 2
INVARIANTS OpenDataIsPassed
CHECK_DEADLOCK FALSE
