SPECIFICATION Spec
CONSTANTS
  a1 = a1
  a2 = a2
  Accounts <- OneAccount
  Sponsor = sponsor
  Plans <- AllRoutes
  Cfg <- Ample
  SponsorStart = 12
  TornConfirm = FALSE
  Reorgs = TRUE
  Parked <- Nowhere
  MaxJobs = 1
  MaxReverts = 1
  RequoteGas <- ThreeUnits
  MaxRevisions = 1
INVARIANTS WriteAhead SpendOnce LedgerMatchesChain TailAfterRepayment LandingHasDeposit WithinPlan
PROPERTY NothingForgotten
