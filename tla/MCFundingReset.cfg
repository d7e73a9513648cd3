SPECIFICATION Spec
CONSTANTS
  a1 = a1
  a2 = a2
  Accounts <- OneAccount
  Sponsor = sponsor
  Plans <- OnlyFreeUsdc
  Cfg <- Ample
  SponsorStart = 12
  TornConfirm = FALSE
  Reorgs = FALSE
  Parked <- Nowhere
  MaxJobs = 1
  MaxReverts = 0
  RequoteGas <- ThreeUnits
  MaxRevisions = 1
PROPERTIES ResetIsFinal
