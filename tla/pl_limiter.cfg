SPECIFICATION Spec
CONSTANTS
  position = position
  scanA = scanA
  scanB = scanB
  Calls = {position, scanA, scanB}
  Prio <- MCPrio
  Cost = 3
  Capacity = 6
  MaxSleep = 2
  Lag = 1
  DailyCap = 2
  MaxTries = 2
  MaxTime = 6
  MaxDay = 1
INVARIANTS
  RateKept
  CapKept
  SleepsInTime
PROPERTIES
  PriorityKept
CHECK_DEADLOCK FALSE
