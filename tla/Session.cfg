\* Connect and one send-via-stream of either implementation.
SPECIFICATION SessionSpec
CONSTANTS
  Impls = {"host", "provider"}
  Requests <- MCRequests
  Tokens = {"a", "b", "c"}
  Selections = {"", "a", "c"}
  NoProtocol = ""
  MaxAddresses = 2
  Streamed <- OneRequest
  Shapes <- MCShapes
  MaxElements = 2
INVARIANTS TypeOK ConnectHonest SentIsHonest
PROPERTIES ConnectSettles CallEnds
CHECK_DEADLOCK FALSE
