SPECIFICATION FairRelaySpec
CONSTANTS
  Kinds = {"setEncodings", "other", "unknown"}
  MaxMessages = 3
  Ends <- MCEnds
  MaxWaiting = 2
INVARIANTS
  StreamIntact
  RewrittenWhole
PROPERTIES
  MessagesReachTarget
CHECK_DEADLOCK FALSE
