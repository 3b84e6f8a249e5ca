SPECIFICATION FairSpec
CONSTANTS
  n1 = n1
  n2 = n2
  r1 = r1
  s1 = s1
  s2 = s2
  Ghost = Ghost
  NoOwner = NoOwner
  NoJob = NoJob
  Instances <- NodesAB
  Requests <- NoRequests
  RequestHost <- NoRequestHost
  Schedules <- TwoSchedules
  StableID = FALSE
  Skew <- NoSkew
  MaxSkew = 0
  LeaderTTL = 1
  RunTTL = 1
  MaxRun = 1
  ListDelay = 0
  MinuteLen = 1
  CronMinutes <- EveryMinute
  MaxClock = 2
  MaxCrashes = 1
  MaxFaults = 0
INVARIANTS NoDoubleFire
PROPERTIES ImplementsExclusion TickReturns
