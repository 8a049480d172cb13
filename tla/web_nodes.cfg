CONSTANTS
  None = None
  Nodes = {n1, n2}
  Remote = {n1}
  Usb = {n1, n2}
  Panes = {"storage"}
  Hosts = {a, b}
  HostKeys = {a, b}
  MaxCalls = 2
  MaxRounds = 2
  MaxForms = 2
  MaxDialogs = 2
  MaxSockets = 3
  Agents = {a, b}
  MaxUses = 2
  MaxTokens = 4
  Updaters = {a, b}
  MaxFiles = 3
  MaxFaults = 4
  MaxEnds = 1
SPECIFICATION Spec
SYMMETRY Sym
INVARIANTS
  NodesTypeOK UpgradeNewsTrue SpinnersCanEnd ScreenOfOneNode WriteGoesWhereListed
  PinBelongsToHost ShellVouched KeysGoToTheTitle TokensMatch NeverOverused ProgramSurvives
CHECK_DEADLOCK FALSE
