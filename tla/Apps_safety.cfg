SPECIFICATION Spec
CONSTANTS
  NoRecord = NoRecord
  MaxTasks = 3
  MaxDowns = 1
  MaxErrs = 1
INVARIANTS TypeOK InstalledHasRecord RecordNotContended RecordHasArtefact UninstalledIsGone
CHECK_DEADLOCK FALSE
