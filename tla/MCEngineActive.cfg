SPECIFICATION LifecycleSpec
CONSTANTS
  MaxRuns = 2
  MaxStops = 1
INVARIANTS
  RunningSessionIsActive
CHECK_DEADLOCK FALSE
