\* A timer with seconds of 2 ticks, ten seconds of 4, minutes of 8, hours of 16,
\* intervals for every list and at the limits, up to two ticks missing; three
\* requests for the worker of httpc; three writes on two processes; three starts; four
\* messages to the monitor; streams whose limits are small (see README).
SPECIFICATION ServicesSpec
CONSTANTS
  t1 = t1
  Timers = {t1}
  Sec = 2
  Ten = 4
  Minute = 8
  Hour = 16
  Delays = {1, 3, 4, 6, 9, 18}
  MaxTime = 40
  MaxLost = 2
  None = none
  Callers = {r1, r2, r3}
  Worker = worker
  Keys = {1, 2}
  SyncNum = 2
  Slice = 2
  MaxWrites = 3
  MaxFaults = 1
  Version = "db_version"
  MaxStarts = 3
  Watchers = {a, b}
  Peers = {x, y}
  MaxMessages = 4
  WriterSize = 4
  Capacity = 4
  Lengths = {1, 2, 3, 4, 5}
  MaxWritten = 9
  AppNames = {"a"}
  Starters = {"s1", "s2"}
  MaxPids = 4
  Limits <- MCLimits
  w1 = w1
  w2 = w2
  ReadLimit = 52
  MaxRead = 22
  MaxMessage = 6
  MaxPayload = 2
  Max7 = 2
  Max16 = 4
  HeadSize = 2
  Base = 4
  SmallCap = 2
  FirstCap = 4
INVARIANTS
  OnTime
  PoolRight
  RowsRight
  StopsAll
  SchemaRight
  ToldRight
  WriterFaithful
  Parsed
  Reassembled
  WrittenWhole
  PacketsWhole
\* Time, writes, starts and streams end.
CHECK_DEADLOCK FALSE
