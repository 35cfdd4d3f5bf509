SPECIFICATION Spec
CONSTANTS
  lower = lower
  upper = upper
  Cidrs = {lower, upper}
  Plans <- MCPlans
INVARIANTS
  TypeOK
  UndoCovers
  RevertLeavesNothing
  LossHasCause
  DnsNeedsRoutes
