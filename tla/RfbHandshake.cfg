SPECIFICATION FairSpec
CONSTANT Servers <- MCServers
INVARIANTS
  InStep
  NoMutualWait
  SuccessIsMutual
  AuthErrorIsDeserved
PROPERTY HandshakeEnds
CHECK_DEADLOCK FALSE
