\* See MCBounds; without symmetry, because AllAnswered is about the future of a
\* behaviour.
SPECIFICATION Spec
CONSTANTS
  k1 = k1
  k2 = k2
  Conns = {k1, k2}
  Workers = {w1, w2}
  Bounds <- MCBounds
  MaxSlots = 3
  IdleInit = 1
  IdleMax = 1
  WaitInit = 1
  WaitMax = 1
  None = None
INVARIANTS OwnAnswer WorkerInOnePlace
PROPERTY AllAnswered
CHECK_DEADLOCK FALSE
