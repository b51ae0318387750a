SPECIFICATION ControlSpec
CONSTANTS
  c1 = c1
  c2 = c2
  c3 = c3
  Callers <- MCCallers
  FailureThreshold = 2
  HalfOpenMaxCalls = 2
  CountCap = 3
  SinkCap = 3
  MaxRuns = 3
  MaxStops = 2
INVARIANTS
  HalfOpenNeverStarves
  ClosedCountsConsecutiveFailures
  NeverRejects
  ClientCatchesUp
  EntryIsOfLiveRun
PROPERTIES
  OpensOnlyAfterConsecutiveFailures
  OpenClosesOnlyThroughTrials
  PeriodsEnd
  StoppedRunEnds
CHECK_DEADLOCK FALSE
