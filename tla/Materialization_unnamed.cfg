SPECIFICATION Spec
CONSTANTS
  a = a
  b = b
  c = c
  w1 = w1
  w2 = w2
  Rows <- TwoRows
  Workers <- OneWorker
  NamedDatabase = FALSE
  MaxValue = 2
  MaxCrashes = 0
SYMMETRY RowSymmetry
INVARIANTS NoDuplicateRows
