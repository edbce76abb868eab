SPECIFICATION FairSpec
CONSTANTS
  h1 = h1
  h2 = h2
  d1 = d1
  u1 = u1
  Hosts = {h1, h2}
  NoHost = NoHost
  Devices = {d1}
  NoDevice = NoDevice
  Users = {u1}
  Entry <- SavedEntry
  Detected <- ScanFinds
  MaxSessions = 2
  MaxCalls = 1
INVARIANTS
  ActiveIsLive
  OneScan
PROPERTIES
  OthersUntouched
  SubmittedConnects
