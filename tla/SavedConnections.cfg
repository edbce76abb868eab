SPECIFICATION FairSpec
CONSTANTS
  Ids = {i1, i2}
  i1 = i1
  i2 = i2
  m1 = m1
  Metas = {m1}
  Absent = Absent
  NoOne = NoOne
  Nothing = Nothing
  Stored <- OneDevice
  StoredKind <- OneKind
  MaxTasks = 2
  MaxWrites = 1
  MaxOpenings = 2
INVARIANTS
  FormIsOwn
PROPERTIES
  ImplementsMirror
  SubmittingEnds
