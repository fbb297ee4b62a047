SPECIFICATION FairSpec
CONSTANTS
  Fds = {L, a, b}
  Listen = L
  None = None
  kMaxEvents = 2
  MaxConns = 3
  MaxUnits = 2
  MaxInputs = 4
PROPERTIES EveryMessageEchoed
CHECK_DEADLOCK FALSE
