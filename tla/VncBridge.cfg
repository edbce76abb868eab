SPECIFICATION FairBridgeSpec
CONSTANTS
  Clients = {w1, w2}
  QueueSize = 1
  None = None
CHECK_DEADLOCK FALSE
INVARIANT OneTargetConnection
PROPERTY SlotIsFreed
PROPERTY GoroutinesEnd
