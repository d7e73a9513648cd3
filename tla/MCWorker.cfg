SPECIFICATION FairSpec
CONSTANTS
  Processes = {p1, p2}
  Pids = {1, 2}
  Inodes = {1, 2}
  Requests = {r1}
  MaxStarts = 3
INVARIANT ElectionGuardsLock
PROPERTIES IsOneLedger WriterReturns
CHECK_DEADLOCK FALSE
