SPECIFICATION PageSpec
CONSTANTS
  a1 = a1
  a2 = a2
  None = None
  Accounts <- Wallets
  Assets = {"eth", "usdc"}
  MaxAmount = 2
  LeaveAnyTime = TRUE
  MaxCalls = 2
  MaxInputs = 3
  MaxVersion = 1
  MaxEvents = 0
INVARIANT NothingOfAnother

CHECK_DEADLOCK FALSE
