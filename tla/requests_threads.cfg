\* Two threads that opted in to retrying writes, one slot of budget per tick
\* shared by both, three attempts of which the last delay overflows, and every
\* kind of Retry-After: each call must end, and give up only where it may.
SPECIFICATION MCFairSpec
CONSTANTS
  Calls = {c1, c2}
  Requested = {"getticker", "me/withdraw"}
  KeyChoices = {TRUE}
  CounterTexts = {None}
  RetryAfterTexts = {HttpDate, 3, NaN, Infinity}
  OwnsHttp = TRUE
  SleepsForever = FALSE
  None = None
  NaN = NaN
  Infinity = Infinity
  MaxIdle = 0
  General = 1
  Order = Unlimited
  Period = 1
  Unlimited = Unlimited
  Attempts = 3
  Backoff = 1
  MaxBackoff = 1
  RetryStatuses = {"503"}
  RetryUnsafe = TRUE
  MaxExponent = 0
INVARIANTS
  TypeOK
  EveryRequestPaid
  GivesUpOnlyAtTheEnd
  SleepsAreBounded
  WithdrawalSentOnce
PROPERTY EveryCallEnds
