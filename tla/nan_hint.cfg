\* One call, answered 429 with "Retry-After: nan".
SPECIFICATION MCSpec
CONSTANTS
  Calls = {c1}
  Requested = {"me/sendchildorder"}
  KeyChoices = {TRUE}
  CounterTexts = {None}
  RetryAfterTexts = {NaN}
  OwnsHttp = FALSE
  SleepsForever = FALSE
  None = None
  NaN = NaN
  Infinity = Infinity
  MaxIdle = 0
  General = 2
  Order = 1
  Period = 2
  Unlimited = Unlimited
  Attempts = 3
  Backoff = 1
  MaxBackoff = 2
  RetryStatuses = {"503"}
  RetryUnsafe = FALSE
  MaxExponent = 1023
PROPERTY RateLimitedIsRetried
