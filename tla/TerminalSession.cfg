SPECIFICATION FairSpec
CONSTANT MaxAttempts = 3
INVARIANTS
  NoSessionLeaked
  StatusIsOfLastAttempt
PROPERTIES
  OldSessionsEnd
  ConnectingEnds
CHECK_DEADLOCK FALSE
