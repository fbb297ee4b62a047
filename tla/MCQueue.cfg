SPECIFICATION QueueSpec
CONSTANTS
  Threads = {t1, t2, t3}
  Values = {a, b}
  Nothing = Nothing
  Capacity = 2
  StaleLoads = TRUE
  MaxPushes = 3
SYMMETRY Symmetry
INVARIANTS SlotExclusive
PROPERTIES RefinesFifo FailsRightly
