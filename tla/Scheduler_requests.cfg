SPECIFICATION Spec
CONSTANTS
  n1 = n1
  n2 = n2
  r1 = r1
  s1 = s1
  s2 = s2
  Ghost = Ghost
  NoOwner = NoOwner
  NoJob = NoJob
  Instances <- NodesAB
  Requests <- OneRequest
  RequestHost <- OnA
  Schedules <- OneSchedule
  StableID = FALSE
  Skew <- AheadB
  MaxSkew = 1
  LeaderTTL = 1
  RunTTL = 2
  MaxRun = 1
  ListDelay = 2
  MinuteLen = 1
  CronMinutes <- EveryMinute
  MaxClock = 2
  MaxCrashes = 1
  MaxFaults = 1
INVARIANTS OverlapOnlyAfterSpill TakenIsReturned
