CONSTANTS
  FirstUser = 1
  MaxFd = 3
  Task = {t1, t2, t3}
  First = t1
  MaxKfd = 3
  MaxCalls = 4
  Path <- MCPath
  Probe <- MCProbe
  Mount <- MCMount
SPECIFICATION Spec
INVARIANTS
  FreeExact
  KernelBacked
  ReachesOwnFile
  SelectExact
  PathsTranslated
CONSTRAINT Explored
CHECK_DEADLOCK FALSE
PROPERTY ActsAsPosix
SYMMETRY Alike
