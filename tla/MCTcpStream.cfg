SPECIFICATION FairSpec
CONSTANTS
  Fds = {3, 4}
  Tasks = {"t1", "t2"}
  None = None
  Streams = {a, b}
  Listener = listener
  ListenFd = 3
  Spawned <- MCSpawned
  Timeouts = {1}
  TicksPerMs = 2
  Payload = 2
  MaxOps = 2
  MaxClock = 4
INVARIANTS OneOwner WaitersOwned DeadlineSpans
PROPERTIES OutcomeTrue OpEnds
CHECK_DEADLOCK FALSE
