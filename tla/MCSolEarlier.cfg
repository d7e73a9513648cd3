SPECIFICATION FairSpec
CONSTANTS
  Versions = {FALSE}
  Leftovers = {0}
  LeftoversEarlier = {0}
  MaxTx = 3
  MaxTxEarlier = 3
  MaxLapses = 0
  MaxLapsesEarlier = 0
  MaxFails = 0
  MaxLags = 2
PROPERTY EarlierEnds
CHECK_DEADLOCK FALSE
