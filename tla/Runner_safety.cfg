SPECIFICATION Spec
CONSTANTS
  w1 = w1
  w2 = w2
  w3 = w3
  Workers = {w1, w2}
  Free = Free
  LockKeys = {0, 1}
  NoNode = 0
  Kinds = {"app", "unknown"}
  Handled = {"app"}
  Reconcilable = {"app"}
  PanelRestart = "panel_restart"
  MaxTasks = 2
  MaxDowns = 1
  MaxFaults = 1
SYMMETRY WorkerSymmetry
INVARIANTS TypeOK NodeSerial RunningIsOwned NoLostWakeup RestartConfirmed
PROPERTIES TerminalNeverReopens
