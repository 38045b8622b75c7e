\* Starts under two names by anybody at any time.
SPECIFICATION Spec
CONSTANTS
  p1 = p1
  p2 = p2
  p3 = p3
  n1 = n1
  n2 = n2
  Pids = {p1, p2, p3}
  Names = {n1, n2}
  None = none
  Anybody = TRUE
  UseRegister = FALSE
SYMMETRY PidNameSymmetry
\* Each pid is used once, so the pids run out.
CHECK_DEADLOCK FALSE
INVARIANTS
  ClosedNotResolvable
  NameKnown
