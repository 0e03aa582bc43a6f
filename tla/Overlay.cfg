SPECIFICATION Spec
CONSTANTS
  Host <- HostDef
  Mountpoint = 5
  Order <- OrderDef
  Mode <- ModeDef
  Names <- NamesDef
  MaxDepth = 2
  Warm <- WarmDef
  MaxOps = 3
CONSTRAINT Fitting
INVARIANTS ListsTree NumbersAgree StableNumbers
PROPERTIES ActsOnTree CrashKeepsOthers
CHECK_DEADLOCK FALSE
