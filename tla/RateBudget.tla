----------------------------- MODULE RateBudget -----------------------------
(***************************************************************************)
(* What the client-side limiter promises, without how it keeps track: a    *)
(* request is granted only when every metered budget it draws on has room  *)
(* in the rolling window that ends now.  The only state is the history of  *)
(* the grants themselves.  RateLimiter implements this specification with  *)
(* two deques of timestamps (src/src/pylightningfx/_ratelimit.py).         *)
(***************************************************************************)
EXTENDS Integers, Sequences

CONSTANTS
  General,    \* RateLimits.general: requests per period over all endpoints
  Order,      \* RateLimits.order: requests per period over order endpoints
  Period,     \* RateLimits.period, in clock ticks
  Unlimited   \* stands for Python's None, "no client-side limit"

VARIABLES
  now,   \* time.monotonic(), in ticks
  log    \* log[w]: the times of all requests granted against budget w, in order

Windows == {"general", "order"}

Limit == [w \in Windows |-> IF w = "general" THEN General ELSE Order]

\* The budgets a request counts against: the order endpoints use both.
Drawn(isOrder) == IF isOrder THEN Windows ELSE {"general"}

\* A budget of None or 0 builds no window (`if limits.general`): no limit.
Metered(w) == Limit[w] \notin {Unlimited, 0}

\* Budget w has room for one more request at time t: fewer than Limit[w]
\* requests so far, or the one Limit[w] places back is a whole period old.
FitsAt(w, t) ==
  LET n == Len(log[w])
  IN  n < Limit[w] \/ log[w][n + 1 - Limit[w]] + Period <= t

Init ==
  /\ now \in Nat
  /\ log = [w \in Windows |-> <<>>]

Grant(isOrder) ==
  /\ \A w \in Drawn(isOrder) : Metered(w) => FitsAt(w, now)
  /\ log' = [w \in Windows |->
               IF w \in Drawn(isOrder) THEN Append(log[w], now) ELSE log[w]]
  /\ now' = now

Elapse ==
  /\ now' = now + 1
  /\ log' = log

Next == Elapse \/ \E isOrder \in BOOLEAN : Grant(isOrder)

Spec == Init /\ [][Next]_<<now, log>>

-----------------------------------------------------------------------------
\* No window of one period ever holds more grants than budget w allows: the
\* grant Limit places after another comes at least a whole period later.
SpacedBy(w, limit) ==
  \A i \in 1 .. Len(log[w]) - limit : log[w][i] + Period <= log[w][i + limit]

\* Neither budget the limiter enforces (_Window in _ratelimit.py) is ever
\* exceeded in any rolling window of Period ticks, whatever the mix of order
\* and other requests.
WithinBudget == \A w \in Windows : Metered(w) => SpacedBy(w, Limit[w])

\* config.py on RateLimits.general: "Requests allowed per period across all
\* endpoints, or None for no client-side limit" - any number is a limit,
\* only None is none.
DocumentedBudget ==
  \A w \in Windows : Limit[w] # Unlimited => SpacedBy(w, Limit[w])
=============================================================================
