SPECIFICATION FairSpec
CONSTANTS
  Fds = {f1, f2}
  kMaxEvents = 1
  Roots = {r1, r2}
  None = None
  Timeouts = {}
  TicksPerMs = 1
  IntMax = 1
  Faults = {}
  ForeignAwait = FALSE
  MaxToken = 3
  MaxClock = 0
CHECK_DEADLOCK FALSE
PROPERTIES TaskServed
