CONSTANTS
  FirstUser = 1
  MaxFd = 3
  Task = {t1}
  First = t1
  MaxKfd = 3
  MaxCalls = 3
  Path <- MCPath
  Probe <- MCProbe
  Mount <- MCMount
SPECIFICATION Spec
CHECK_DEADLOCK FALSE
PROPERTY LowestAvailable
