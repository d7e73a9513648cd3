SPECIFICATION Spec
CONSTANTS
  a1 = a1
  a2 = a2
  Accounts <- OneAccount
  Sponsor = sponsor
  Plans <- OnlyPoorUsdt
  Cfg <- Ample
  SponsorStart = 12
  TornConfirm = TRUE
  Reorgs = FALSE
  Parked <- Nowhere
  MaxJobs = 1
  MaxReverts = 1
  RequoteGas <- ThreeUnits
  MaxRevisions = 0
INVARIANTS TailAfterRepayment
