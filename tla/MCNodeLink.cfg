SPECIFICATION Spec
CONSTANTS
  First = a
  Second = b
  Callers = {c1, c2}
  Getters = {g}
  MaxLinks = 2
  MaxCalls = 1
  Bounds <- MCBounds
  None = None
INVARIANTS
  TableRight
  CastsInOrder
  CallsKnown
PROPERTY LossNoticed
CHECK_DEADLOCK FALSE
