SPECIFICATION Spec
CONSTANTS
  Cap = 4
  MaxExecs = 1
  MaxLines = 1
  MaxFaults = 0
INVARIANTS WriteAllIsStored
CHECK_DEADLOCK FALSE
