SPECIFICATION FairSpec
CONSTANTS
  Versions = {TRUE}
  Leftovers = {0}
  LeftoversEarlier = {0}
  MaxTx = 3
  MaxTxEarlier = 0
  MaxLapses = 1
  MaxLapsesEarlier = 0
  MaxFails = 1
  MaxLags = 0
PROPERTY RetryResumes
CHECK_DEADLOCK FALSE
