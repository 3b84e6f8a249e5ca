SPECIFICATION Spec
CONSTANTS
  n1 = n1
  n2 = n2
  r1 = r1
  r2 = r2
  u1 = u1
  u2 = u2
  Ghost = Ghost
  NoOwner = NoOwner
  NoSub = NoSub
  Instances <- NodesAB
  Requests <- OneRequest
  Subs <- OneSub
  StableID = FALSE
  LeaderTTL = 2
  MinuteLen = 2
  CronMinutes <- EveryMinute
  MaxClock = 3
  MaxCrashes = 1
INVARIANTS SentAsSwitched
SYMMETRY NodesAlike
