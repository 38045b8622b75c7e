\* The name is started by its supervisor only; running actors, also those that
\* have no name, are registered under it with Register.
SPECIFICATION Spec
CONSTANTS
  p1 = p1
  p2 = p2
  p3 = p3
  n1 = n1
  Pids = {p1, p2, p3}
  Names = {n1}
  None = none
  Anybody = FALSE
  UseRegister = TRUE
SYMMETRY PidNameSymmetry
\* Each pid is used once, so the pids run out.
CHECK_DEADLOCK FALSE
INVARIANT Consistent
