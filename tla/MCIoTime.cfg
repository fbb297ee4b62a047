SPECIFICATION FairSpec
CONSTANTS
  Fds = {f1}
  kMaxEvents = 1
  Roots = {r1, r2}
  None = None
  Timeouts = {2}
  TicksPerMs = 2
  IntMax = 1
  Faults = {}
  ForeignAwait = FALSE
  MaxToken = 3
  MaxClock = 5
CHECK_DEADLOCK FALSE
INVARIANTS SleepBounded
PROPERTIES NoEarlyTimeout DeadlineServed
