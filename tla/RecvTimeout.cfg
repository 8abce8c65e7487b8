SPECIFICATION Spec
CONSTANTS
  Timeout = 3
  Tick = 4
  MaxTime = 30
INVARIANT WaitsUpToTimeout
CHECK_DEADLOCK FALSE
