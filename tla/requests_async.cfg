\* Two tasks that may be cancelled at any await, under the default policy but
\* for a ceiling of infinity: a server may put them to sleep for good.
SPECIFICATION MCAsyncSpec
CONSTANTS
  Calls = {c1, c2}
  Requested = {"me/sendparentorder", "me/getbalance"}
  KeyChoices = {TRUE, FALSE}
  CounterTexts = {None}
  RetryAfterTexts = {0, Infinity}
  OwnsHttp = TRUE
  SleepsForever = TRUE
  None = None
  NaN = NaN
  Infinity = Infinity
  MaxIdle = 1
  General = 2
  Order = 1
  Period = 1
  Unlimited = Unlimited
  Attempts = 2
  Backoff = 1
  MaxBackoff = Infinity
  RetryStatuses = {"503"}
  RetryUnsafe = FALSE
  MaxExponent = 1023
INVARIANTS EveryRequestPaid OverrunIsBounded CallersWithinBudget
PROPERTY WritesAreSubmissions
\* The callers are interchangeable and the properties are safety properties.
SYMMETRY Callers
