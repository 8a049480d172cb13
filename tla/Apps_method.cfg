SPECIFICATION Spec
CONSTANTS
  NoRecord = NoRecord
  MaxTasks = 2
  MaxDowns = 0
  MaxErrs = 0
INVARIANTS UninstallFollowsRecord
CHECK_DEADLOCK FALSE
