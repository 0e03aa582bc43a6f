SPECIFICATION Spec
CONSTANTS
  dentry = dentry
  root = root
  Row <- MCRow
  Root = root
  TableIx <- MCTableIx
  Val = {v0}
  Absent = Absent
  Untouched = Untouched
  Session = {s1, s2}
  NoSession = NoSession
  Request = {c1}
  Purger = {d1}
  Label = {m1, m2}
  MaxSnap = 2
  MaxUndo = 2
CONSTRAINT PurgesApart
SYMMETRY Sym
INVARIANTS Recoverable CounterAhead
PROPERTIES RestoreExact
CHECK_DEADLOCK FALSE
