SPECIFICATION Spec
CONSTANTS
  t1 = t1
  t2 = t2
  t3 = t3
  d1 = d1
  None = None
  Threads <- TwoThreads
  Databases <- OneDatabase
  Slots = 2
  Forms <- Fields
  MaxHandles = 3
  MaxCuts = 1
SYMMETRY ThreadsAlike
INVARIANTS CloseAllReleases
CHECK_DEADLOCK FALSE
