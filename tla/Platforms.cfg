SPECIFICATION Spec
CONSTANTS
  lower = lower
  upper = upper
  Cidrs = {lower, upper}
  Plans <- MCPlans
INVARIANTS
  UndoCovers
  DnsNeedsRoutes
