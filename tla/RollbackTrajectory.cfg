SPECIFICATION Spec
CONSTANTS
  MaxMsg = 3
  MaxCrash = 2
  MaxFail = 1
  Trajectory = TRUE
  IdleUnmount = TRUE
PROPERTIES
  Resumes
