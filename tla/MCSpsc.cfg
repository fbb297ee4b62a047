SPECIFICATION SPSCSpec
CONSTANTS
  Values = {a, b}
  Nothing = Nothing
  Capacity = 4
SYMMETRY Symmetry
INVARIANTS CellExclusive
PROPERTIES RefinesFifo PromiseKept
