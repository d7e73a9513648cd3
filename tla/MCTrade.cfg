SPECIFICATION MCSpec
CONSTANTS
  Kinds = {"B", "C", "withdraw"}
  GasBudget = 7
  MaxTrades = 1
  MaxReverts = 1
  MaxOther = 1
  MaxRefresh = 1
  MaxOpen = 1
INVARIANTS OneUserOfWallet MovesOnce GasBookedOnce
PROPERTY TradeSettles
