SPECIFICATION Spec
CONSTANTS
  Routes <- OnlyC
  Kinds <- Refused
  MaxJobs = 2
INVARIANTS SaidLandedHasLanded
