SPECIFICATION Spec
CONSTANTS
  Names = {n1, n2}
  Values = {v1, v2}
  None = None
  Uuid = Uuid
  RandomKeys = {k1, k2}
  NoKey = NoKey
  Absent = Absent
  Partial = Partial
INVARIANTS
  SteadyLookupLosesNothing
PROPERTIES
  ImplementsBackend
