\* A supervisor restarts a named child.
SPECIFICATION Spec
CONSTANTS
  p1 = p1
  p2 = p2
  n1 = n1
  n2 = n2
  Pids = {p1, p2}
  Names = {n1}
  None = none
  Anybody = FALSE
  UseRegister = FALSE
SYMMETRY PidNameSymmetry
\* Each pid is used once, so the pids run out.
CHECK_DEADLOCK FALSE
INVARIANT AliveResolvable
