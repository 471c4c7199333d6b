------------------------------ MODULE Responses ------------------------------
(***************************************************************************)
(* What src/src/pylightningfx/_transport.py reads off a response's headers *)
(* and the engine acts on.  A header is None when it is missing, a number  *)
(* when it parses as one, and any other value when it is some other text,  *)
(* such as the HTTP-date form of Retry-After.                              *)
(***************************************************************************)
EXTENDS Integers

CONSTANTS None, NaN, Infinity   \* as in RetryPolicy

\* _header_int: int() refuses what is not a whole number.
HeaderInt(text) == IF text \in Int THEN text ELSE None

\* RateLimitState.from_response returns a state: one header is enough.
HasCounters(headers) ==
  \E name \in {"remaining", "period", "reset"} : HeaderInt(headers[name]) # None

\* retry_after: float() takes nan and inf too; what it refuses falls through
\* to what is left of the rate limit window.
RetryAfter(headers) ==
  IF headers.retryAfter \in Int \cup {NaN, Infinity} THEN headers.retryAfter
  ELSE HeaderInt(headers.period)

\* build_error and _delay_for: only a RateLimitError, an HTTP 429, carries a
\* hint; the Retry-After of a 503 is not looked at.
DelayHint(status, headers) == IF status = "429" THEN RetryAfter(headers) ELSE None
=============================================================================
