SPECIFICATION FairSpec
CONSTANTS
  Sessions = {s1}
  Attempts = {a1, a2, a3}
  None = None
CHECK_DEADLOCK FALSE
INVARIANT NeverStacked
INVARIANT NoBridgeForgotten
INVARIANT StatusTellsTheSlot
PROPERTY DisposedBridgeStops
