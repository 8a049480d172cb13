SPECIFICATION FairSpec
CONSTANTS
  Cap = 4
  MaxExecs = 2
  MaxLines = 3
  MaxFaults = 1
INVARIANTS TypeOK NoneTwice WriterStopped CompleteUnlessOverlapping
PROPERTIES ExecutionEnds
CHECK_DEADLOCK FALSE
