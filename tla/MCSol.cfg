SPECIFICATION FairSpec
CONSTANTS
  Versions = {TRUE, FALSE}
  Leftovers = {0, 1}
  LeftoversEarlier = {0}
  MaxTx = 7
  MaxLapses = 4
  MaxFails = 1
  MaxLags = 1
  MaxTxEarlier = 3
  MaxLapsesEarlier = 1
INVARIANTS SwappedOnce LeftoverKept
PROPERTY SolSettles
CHECK_DEADLOCK FALSE
