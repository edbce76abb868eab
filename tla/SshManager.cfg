SPECIFICATION FairSpec
CONSTANTS
  Sessions = {s1}
  Calls = {c1, c2}
  KeepaliveMaxFailures = 3
  None = None
CHECK_DEADLOCK FALSE
INVARIANT OneShellPerSession
INVARIANT SlotNamesRunningShell
INVARIANT UnregisteredIsEnding
PROPERTY EndedIsTornDown
PROPERTY BrokenIsDropped
