SPECIFICATION BootSpec
CHECK_DEADLOCK FALSE
CONSTANTS
  MAX_TASKS = 3
  NoTask = NoTask
INVARIANT BootNeverReturns
