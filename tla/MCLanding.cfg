SPECIFICATION MCSpec
CONSTANTS
  Routes <- BothRoutes
  Kinds <- AnyKind
  MaxJobs = 2
INVARIANT SaidLandedHasLanded
PROPERTY LandsUnattended
