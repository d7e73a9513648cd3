SPECIFICATION FairSpec
CONSTANTS
  a1 = a1
  a2 = a2
  Accounts <- TwoAccounts
  Sponsor = sponsor
  Plans <- Sponsored
  Cfg <- Narrow
  SponsorStart = 4
  TornConfirm = FALSE
  Reorgs = FALSE
  Parked <- AfterSettlement
  MaxJobs = 2
  MaxReverts = 0
  RequoteGas <- OneUnit
  MaxRevisions = 0
INVARIANTS NonceUnique FloorRespected
PROPERTY JournalSettles
