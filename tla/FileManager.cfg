SPECIFICATION FairFilesSpec
CONSTANTS
  Dirs = {"home"}
  Home = "home"
  MaxRuns = 2
  MaxRequests = 2
  MaxTransfers = 2
INVARIANTS
  NoSessionLeaked
  LoadingIsAwaited
PROPERTIES
  ListingsInOrder
  QueueDrains
CHECK_DEADLOCK FALSE
