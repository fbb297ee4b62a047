SPECIFICATION Spec
CONSTANTS
  Fds = {f1}
  kMaxEvents = 1
  Roots = {r1, r2}
  None = None
  Timeouts = {0, 1}
  TicksPerMs = 1
  IntMax = 1
  Faults = {"spawn", "add", "mod", "timer", "wait"}
  ForeignAwait = TRUE
  MaxToken = 3
  MaxClock = 1
SYMMETRY Symmetry
CHECK_DEADLOCK FALSE
INVARIANTS OneWakeSource FramesOwned RegistrationAgrees NoWakeSourceIsReal
PROPERTIES WakeCause RefinesLifecycle RefinesWaits
