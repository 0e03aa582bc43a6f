SPECIFICATION Spec
CONSTANTS
  c1 = c1
  c2 = c2
  Conn = {c1, c2}
  Workload <- WorkloadDef
  InitialFs <- InitialFsDef
  NameOrder <- NameOrderDef
  MaxGen = 1
INVARIANTS
  AtMostOnce
  HandlesNeverAlias
  SetIdCleared
  ListingExact
PROPERTIES
  Lawful
CONSTRAINT Bounded
CHECK_DEADLOCK FALSE
