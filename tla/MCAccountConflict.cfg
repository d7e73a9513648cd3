SPECIFICATION Spec
CONSTANTS
  Addresses = {a1}
  Credentials = {k1, k2}
  None = None
  Lag = TRUE
  MaxFaults = 2
INVARIANT ConflictIsReal
CHECK_DEADLOCK FALSE
