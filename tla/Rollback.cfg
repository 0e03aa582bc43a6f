SPECIFICATION Spec
CONSTANTS
  MaxMsg = 3
  MaxCrash = 2
  MaxFail = 1
  Trajectory = FALSE
  IdleUnmount = TRUE
INVARIANTS
  AtRest
  SnapshotsPaired
  TargetsInChat
PROPERTIES
  Resumes
  KeeperRemounts
