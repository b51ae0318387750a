SPECIFICATION ConnectionSpec
CONSTANTS
  Bridges = {"channel"}
  WriteCap = 1
  MaxFaults = 0
INVARIANTS
  StartNeverFails
CHECK_DEADLOCK FALSE
