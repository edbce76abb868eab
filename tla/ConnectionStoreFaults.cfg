SPECIFICATION Spec
CONSTANTS
  Ids = {i1, i2}
  Metas = {m1, m2}
  Secrets = {s1, s2}
  Switchers = {c1}
  Faults <- WriteFaults
  CanCrash = TRUE
  Absent = Absent
  NoSecret = NoSecret
  Keep = Keep
  Unknown = Unknown
  Nobody = Nobody
SYMMETRY DataSymmetry
INVARIANT AckedSecretHeld
INVARIANT AckedBookmarkDurable
PROPERTY SwitchDelivers
