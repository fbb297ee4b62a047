SPECIFICATION FairSpec
CONSTANTS
  Fds = {L, a, b}
  Listen = L
  None = None
  kMaxEvents = 2
  MaxConns = 3
  MaxUnits = 2
  MaxInputs = 4
INVARIANTS TableAgrees NumbersOwned SendOrder NoLostEdge
PROPERTIES HangupIsReal Flushed
CHECK_DEADLOCK FALSE
