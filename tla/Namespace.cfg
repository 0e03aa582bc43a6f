CONSTANTS
  Name = {a, b}
  MaxIno = 3
  MaxLinks = 5
  MaxReset = 1
SPECIFICATION Spec
CONSTRAINT Explored
SYMMETRY Symmetry
INVARIANTS
  LinksCounted
  
  Tree
  CacheCoherent
  RowsOwned
CHECK_DEADLOCK FALSE
