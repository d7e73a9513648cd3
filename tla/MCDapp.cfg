SPECIFICATION MCSpec
CONSTANTS
  Sessions = {s1, s2}
  Accounts = {a1, a2}
  None = None
  Calls = {c1, c2}
  Requests = {r1, r2}
  AccountLimit = 1
  MaxOwn = 1
  MaxFaults = 1
SYMMETRY Symmetric
INVARIANTS OneAtATime HandledOnce SponsoredWithinBudget SponsoredOnStandard
CHECK_DEADLOCK FALSE
