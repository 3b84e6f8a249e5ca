SPECIFICATION FairSpec
CONSTANTS
  t1 = t1
  t2 = t2
  t3 = t3
  d1 = d1
  None = None
  Threads <- TwoThreads
  Databases <- OneDatabase
  Slots = 2
  Forms <- Dsn
  MaxHandles = 4
  MaxCuts = 3
CHECK_DEADLOCK FALSE
INVARIANTS AllAreHeld QueryFailsOnlyIfDisturbed
PROPERTIES QueryReturns
