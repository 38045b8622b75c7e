\* Two actors call each other twice with Context.Call.
SPECIFICATION FairSpec
CONSTANTS
  a1 = a1
  a2 = a2
  k1 = k1
  Actors = {a1, a2}
  Clients = {}
  Work = work
  NoCall = none
  Kinds = {"own"}
  ChanCap = 4
  MaxCall = 2
  MaxWork = 1
\* The actors may all exit, and the calls are bounded.
CHECK_DEADLOCK FALSE
PROPERTY ReplyReturns
