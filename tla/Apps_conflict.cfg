SPECIFICATION Spec
CONSTANTS
  NoRecord = NoRecord
  MaxTasks = 1
  MaxDowns = 0
  MaxErrs = 0
INVARIANTS ConflictCanBeUninstalled
CHECK_DEADLOCK FALSE
