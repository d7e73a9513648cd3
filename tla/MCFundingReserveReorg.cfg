SPECIFICATION Spec
CONSTANTS
  a1 = a1
  a2 = a2
  Accounts <- TwoAccounts
  Sponsor = sponsor
  Plans <- OnlyShortUsdt
  Cfg <- Tight
  SponsorStart = 4
  TornConfirm = FALSE
  Reorgs = TRUE
  Parked <- AfterSettlement
  MaxJobs = 2
  MaxReverts = 0
  RequoteGas <- OneUnit
  MaxRevisions = 1
SYMMETRY Either
INVARIANTS FloorRespected
