SPECIFICATION FairSpec
CONSTANTS
  Frames = {f1, f2, f3, f4}
  Main = Main
  None = None
CHECK_DEADLOCK FALSE
INVARIANTS ChainIntact
PROPERTIES NoExceptionLost RefinesLifecycle DoneReclaimed
