\* One permanent worker is booted; one request starts another or a supervisor,
\* one stops everything, and a parent may do so as well; one crash, and any
\* start may fail.
SPECIFICATION FairSpec
CONSTANTS
  worker = worker
  branch = branch
  Children = {worker, branch}
  Boot <- OneBoot
  Restarted = {worker, branch}
  Subs = {branch}
  Starters = {c1}
  Stoppers = {c2}
  None = none
  InitMayFail = TRUE
  MaxCrash = 1
  MaxPid = 3
\* The supervisor and its children may all be gone.
CHECK_DEADLOCK FALSE
INVARIANTS
  Consistent
  NoOrphan
PROPERTIES
  NewestFirst
  CrashedIsRestarted
  StopStops
