\* Two goroutines and the actor itself send two messages each through a channel
\* of one slot and a selfSender queue of one slot that another actor uses too.
\* The stash starts with two slots and may keep two: two waiting messages make
\* it grow beyond that, and the fifth can meet the panic of Put.  Without
\* symmetry, because Delivered is about the future of a behaviour.
SPECIFICATION FairSpec
CONSTANTS
  s1 = s1
  s2 = s2
  Senders = {s1, s2}
  Self = self
  NoMsg = nomsg
  Foreign = foreign
  InitCap = 2
  MaxCap = 2
  ChanCap = 1
  RelayCap = 1
  MaxSend = 2
\* The actor may exit for good, which stops everything.
CHECK_DEADLOCK FALSE
INVARIANTS
  Consistent
  SenderFifo
PROPERTIES
  RefinesFifo
  Delivered
