\* RateLimits(general=0, order=2): a limit of no requests at all.
SPECIFICATION MCSpec
CONSTANTS
  General = 0
  Order = 2
  Period = 3
  Unlimited = Unlimited
  MaxTime = 4
  MaxGrants = 3
INVARIANT DocumentedBudget
CHECK_DEADLOCK FALSE
