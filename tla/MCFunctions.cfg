\* Rings of 2 slots that grow to 8 and shrink to 4; three routes; messages with
\* values around the limits of their width; a search twice over each map.
SPECIFICATION FunctionsSpec
CONSTANTS
  v1 = v1
  v2 = v2
  Values = {v1, v2}
  Nil = nil
  InitCap = 2
  MaxCap = 4
  MaxLen = 6
  None = None
  MaxRoutes = 3
  Base = 4
  Marks = 8
  MaxSearches = 2
INVARIANTS
  Consistent
  RoutesRight
  CoderCarries
  SearchRight
  HandshakeRight
PROPERTY
  RefinesFifo
\* Each part ends: a message is sent once, the routes and searches are bounded.
CHECK_DEADLOCK FALSE
