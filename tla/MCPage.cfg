SPECIFICATION PageSpec
CONSTANTS
  a1 = a1
  a2 = a2
  None = None
  Accounts <- Wallets
  Assets = {"eth", "usdc"}
  MaxAmount = 2
  LeaveAnyTime = FALSE
  MaxCalls = 2
  MaxInputs = 3
  MaxVersion = 1
  MaxEvents = 1
INVARIANTS PricesTheBox ReviewIsShown NeverStuck
PROPERTY OnlyForward
CHECK_DEADLOCK FALSE
