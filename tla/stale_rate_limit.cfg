\* Two threads, answers with and without X-RateLimit-* headers.
SPECIFICATION MCSpec
CONSTANTS
  Calls = {c1, c2}
  Requested = {"getticker"}
  KeyChoices = {FALSE}
  CounterTexts = {None, 3}
  RetryAfterTexts = {None}
  OwnsHttp = FALSE
  SleepsForever = FALSE
  None = None
  NaN = NaN
  Infinity = Infinity
  MaxIdle = 0
  General = 2
  Order = 1
  Period = 2
  Unlimited = Unlimited
  Attempts = 2
  Backoff = 0
  MaxBackoff = 0
  RetryStatuses = {"503"}
  RetryUnsafe = FALSE
  MaxExponent = 1023
INVARIANT RateLimitIsCurrent
