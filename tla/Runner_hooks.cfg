SPECIFICATION Spec
CONSTANTS
  w1 = w1
  w2 = w2
  w3 = w3
  Workers = {w1, w2}
  Free = Free
  LockKeys = {0, 1}
  NoNode = 0
  Kinds = {"app"}
  Handled = {"app"}
  Reconcilable = {"app"}
  PanelRestart = "panel_restart"
  MaxTasks = 1
  MaxDowns = 0
  MaxFaults = 0
SYMMETRY WorkerSymmetry
INVARIANTS HooksCalledOnce
