SPECIFICATION FairSpec
CONSTANTS
  Kinds = {"B"}
  GasBudget = 2
  MaxTrades = 1
  MaxReverts = 1
  MaxOther = 1
  MaxRefresh = 0
  MaxOpen = 1
PROPERTY SaleCanBeFinished
