CONSTANTS
  Tasks = {t1, t2, t3}
  Idle = idle
SPECIFICATION Spec
INVARIANT UserModeInUser
