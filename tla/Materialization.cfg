SPECIFICATION FairSpec
CONSTANTS
  a = a
  b = b
  c = c
  w1 = w1
  w2 = w2
  Rows <- TwoRows
  Workers <- TwoWorkers
  NamedDatabase = TRUE
  MaxValue = 2
  MaxCrashes = 1
INVARIANTS TargetIsExact
PROPERTIES RowsArrive
