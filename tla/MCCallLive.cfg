\* Fresh calls through channels that never fill.
SPECIFICATION FairSpec
CONSTANTS
  a1 = a1
  a2 = a2
  k1 = k1
  Actors = {a1, a2}
  Clients = {k1}
  Work = work
  NoCall = none
  Kinds = {"fresh"}
  ChanCap = 4
  MaxCall = 1
  MaxWork = 1
\* The actors may all exit, and the calls are bounded.
CHECK_DEADLOCK FALSE
PROPERTIES
  CallReturns
  ReplyReturns
