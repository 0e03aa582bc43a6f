CONSTANTS
  Names <- MCNames
  Options <- MCOptions
  Users = {"owner", "root", "other"}
  UserAllowOther = TRUE
  Owner = "owner"
  VolumeRoot = 2
  MaxHandles = 1
  MaxMounts = 1
  MaxChanges = 2
  None = None
SPECIFICATION Spec
INVARIANT KernelViewExact
CHECK_DEADLOCK FALSE
