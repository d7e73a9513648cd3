SPECIFICATION FairSpec
CONSTANTS
  Routes <- OnlyB
  Kinds <- Relayed
  MaxJobs = 1
PROPERTIES Lands
