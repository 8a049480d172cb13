CONSTANTS
  Logins = {a, b}
  MaxAsks = 2
SPECIFICATION GuardSpec
INVARIANT AdminRemains
CHECK_DEADLOCK FALSE
