SPECIFICATION FairSpec
CONSTANTS
  Addresses = {a1}
  Credentials = {k1, k2}
  None = None
  Lag = FALSE
  MaxFaults = 4
INVARIANTS KeyKept GovernedByPasskey ActiveIsLive
PROPERTY Heals
CHECK_DEADLOCK FALSE
