SPECIFICATION FairSpec
CONSTANTS
  w1 = w1
  w2 = w2
  w3 = w3
  Workers = {w1, w2}
  Free = Free
  LockKeys = {0, 1}
  NoNode = 0
  Kinds = {"app"}
  Handled = {"app"}
  Reconcilable = {"app"}
  PanelRestart = "panel_restart"
  MaxTasks = 2
  MaxDowns = 1
  MaxFaults = 0
PROPERTIES EveryTaskSettles RunnerImplementsQueue
