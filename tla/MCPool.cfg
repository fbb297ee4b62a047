SPECIFICATION FairPool
CONSTANTS
  Workers = {w1, w2}
  Clients = {c1, o}
  Threads = {w1, w2, c1, o}
  Owner = o
  NoThread = NoThread
  Values = {x1, x2, x3}
  Nothing = Nothing
  Capacity = 2
  StaleLoads = FALSE
  MaxPushes = 3
INVARIANTS RunsOnce
PROPERTIES DrainedAtReturn AcceptedRuns ShutdownReturns
CHECK_DEADLOCK FALSE
