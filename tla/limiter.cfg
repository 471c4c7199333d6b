\* Three requests per three ticks, two of them orders; time enough for the
\* windows to fill, drain and refill out of step with each other.
SPECIFICATION MCSpec
CONSTANTS
  General = 3
  Order = 2
  Period = 3
  Unlimited = Unlimited
  MaxTime = 9
  MaxGrants = 7
INVARIANTS
  TypeOK
  DequesMatchLog
  WithinBudget
  WaitIsExact
PROPERTY ImplementsBudget
\* The limiter is passive: past MaxTime and MaxGrants nobody calls it.
CHECK_DEADLOCK FALSE
