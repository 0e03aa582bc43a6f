CONSTANTS
  Name = {a, b}
  MaxIno = 3
  MaxLinks = 4
  MaxReset = 0
  Client = {c, d}
  MaxCrash = 2
SPECIFICATION StepSpec
CONSTRAINT Explored
SYMMETRY Symmetry
INVARIANTS
  CrashSafe
  QuietLinks
  OneWinner
CHECK_DEADLOCK FALSE
