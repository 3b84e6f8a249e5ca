SPECIFICATION FairSpec
CONSTANTS
  old = old
  new = new
  NoOne = NoOne
  Instances <- OldAndNew
  Body <- ThreeBodies
  Knows <- OldAndNewKnow
  Text <- WithDevelopment
  SameText <- DevelopmentAccepted
  InitialDbs <- AnyDatabase
  MaxFaults = 1
  MaxLost = 1
INVARIANTS MigratedOnce
PROPERTIES AllServe
