----------------------------- MODULE RetryPolicy -----------------------------
(***************************************************************************)
(* RetryPolicy of src/src/pylightningfx/config.py: which failures are      *)
(* worth another attempt and how long to wait first.  Delays are whole     *)
(* clock ticks; the random jitter is any tick of its interval.  A delay is *)
(* a float: not a number (NaN), or too long for sleep() (Infinity), or a   *)
(* number; what is said of numbers below 0 holds of -inf too.              *)
(***************************************************************************)
EXTENDS Integers

CONSTANTS
  Attempts,      \* RetryPolicy.attempts, the first attempt included
  Backoff,       \* RetryPolicy.backoff
  MaxBackoff,    \* RetryPolicy.max_backoff
  RetryStatuses, \* RetryPolicy.retry_statuses
  RetryUnsafe,   \* RetryPolicy.retry_unsafe_methods
  MaxExponent,   \* 2.0 ** MaxExponent is the largest such float (1023)
  None,          \* Python's None
  NaN, Infinity  \* the floats nan and inf

Float == Int \cup {NaN, Infinity}

FloatAssumption == None \notin Float /\ NaN \notin Int /\ Infinity \notin Int \cup {NaN}

\* Comparison of floats: false whenever one of them is not a number.
Less(a, b) == /\ NaN \notin {a, b}
              /\ a # Infinity
              /\ b = Infinity \/ a < b

\* Python's min(a, b) and max(a, b), which prefer a.
Smaller(a, b) == IF Less(b, a) THEN b ELSE a
Larger(a, b) == IF Less(a, b) THEN b ELSE a

\* The answers told apart; 503 stands for every 5xx, 400 for every other 4xx.
Status == {"200", "400", "429", "503"}

\* Status of a failure without a response (httpx.TransportError).
NoStatus == "none"

\* What __post_init__ lets through: `< 0` is false of nan and of inf.
PolicyAssumption ==
  /\ Attempts \in Nat \ {0}
  /\ Backoff \in Float /\ ~ Less(Backoff, 0)
  /\ MaxBackoff \in Float /\ ~ Less(MaxBackoff, 0)
  /\ RetryStatuses \subseteq Status
  /\ RetryUnsafe \in BOOLEAN
  /\ MaxExponent \in Nat

SafeMethods == {"GET", "HEAD", "OPTIONS"}

\* 429 is always retried, whatever retry_statuses says.
ShouldRetry(method, status) ==
  \/ status = "429"
  \/ /\ status \in RetryStatuses \cup {NoStatus}
     /\ method \in SafeMethods \/ RetryUnsafe

\* The exponential backoff, before the ceiling; nan and inf stay what they are.
Scaled(attempt) == IF Backoff \in Int THEN Backoff * 2 ^ (attempt - 1) ELSE Backoff

\* base * (0.5 + random.random() / 2.0)
Jittered(base) == IF base \in Int THEN {d \in 0 .. base : 2 * d >= base} ELSE {base}

\* MUTANT of Delays: the server's hint is jittered after it was clamped.
DelaysJittered(attempt, hint) ==
  IF hint # None
  THEN LET clamped == Smaller(Larger(hint, 0), MaxBackoff)
       IN  {clamped} \cup (IF clamped \in Int THEN {clamped + 1} ELSE {})
  ELSE Jittered(Smaller(Scaled(attempt), MaxBackoff))

\* delay(): the server's hint wins, clamped to 0..MaxBackoff unless it is not a
\* number; otherwise capped exponential backoff, jittered over its upper half.
\* A ceiling that is not a number caps nothing.
Delays(attempt, hint) ==
  IF hint # None THEN {Smaller(Larger(hint, 0), MaxBackoff)}
  ELSE Jittered(Smaller(Scaled(attempt), MaxBackoff))

\* delay() raises OverflowError: 2.0 ** (attempt - 1) is out of a float's range,
\* whatever the ceiling.
Overflows(attempt, hint) == hint = None /\ attempt - 1 > MaxExponent
=============================================================================
