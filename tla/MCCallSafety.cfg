\* Two actors make up to two calls of either kind; one slot per channel.
SPECIFICATION Spec
CONSTANTS
  a1 = a1
  a2 = a2
  k1 = k1
  Actors = {a1, a2}
  Clients = {}
  Work = work
  NoCall = none
  Kinds = {"own", "fresh"}
  ChanCap = 1
  MaxCall = 2
  MaxWork = 1
\* The actors may all exit, and the calls are bounded.
CHECK_DEADLOCK FALSE
SYMMETRY ActorSymmetry
INVARIANTS
  Consistent
  OwnResult
