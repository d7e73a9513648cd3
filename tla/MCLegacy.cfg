SPECIFICATION LegacyFairSpec
CONSTANTS
  Deposits <- Left
  Advance = 5
  BufferPct = 20
  RateBps = 100
  Transfer = 4
  Reserve = 10
  MaxTx = 13
  MaxFaults = 2
INVARIANT SpentOnce
PROPERTIES KeepsTransfer Settles
CHECK_DEADLOCK FALSE
