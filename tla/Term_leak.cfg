CONSTANTS
  None = None
  Nodes = {n1}
  HostKeys = {k1}
  MaxCalls = 1
  MaxDialogs = 1
  MaxSockets = 2
SPECIFICATION TermSpec
INVARIANT UnmountReleases
CHECK_DEADLOCK FALSE
