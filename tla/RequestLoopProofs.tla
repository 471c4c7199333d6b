-------------------------- MODULE RequestLoopProofs --------------------------
(***************************************************************************)
(* Machine-checked facts about RequestLoop, for every set of callers, every *)
(* budget and every retry policy.                                          *)
(***************************************************************************)
EXTENDS RequestLoop, OperatorLemmas

LimiterFacts == INSTANCE RateLimiterProofs

-----------------------------------------------------------------------------
(* The limiter under its callers *)

\* The theorems about the limiter are about the limiter of this module: two
\* instances of one module with the same constants and variables.
LEMMA SameLimiter ==
  /\ Limiter!Init <=> LimiterFacts!Init
  /\ \A o, t : Limiter!Take(o, t) <=> LimiterFacts!Take(o, t)
  /\ \A o, t : Limiter!Refuse(o, t) <=> LimiterFacts!Refuse(o, t)
  /\ LimiterFacts!WithinBudget <=> Limiter!WithinBudget
  /\ LimiterFacts!TypeOK <=> Limiter!TypeOK
  /\ \A o, t : Limiter!Wait(o, t) = LimiterFacts!Wait(o, t)
  /\ \A q, t : Limiter!Live(q, t) = LimiterFacts!Live(q, t)
  /\ Limiter!Windows = LimiterFacts!Windows /\ Limiter!Limit = LimiterFacts!Limit
  /\ \A w : Limiter!Budget!Metered(w) <=> LimiterFacts!Budget!Metered(w)
  /\ \A o : Limiter!Budget!Drawn(o) = LimiterFacts!Budget!Drawn(o)
<1> USE DEF Limiter!Windows, LimiterFacts!Windows,
            Limiter!Budget!Windows, LimiterFacts!Budget!Windows,
            Limiter!Limit, LimiterFacts!Limit,
            Limiter!Budget!Limit, LimiterFacts!Budget!Limit,
            Limiter!Budget!Drawn, LimiterFacts!Budget!Drawn,
            Limiter!Budget!Metered, LimiterFacts!Budget!Metered
<1>1. \A o : Limiter!Consulted(o) = LimiterFacts!Consulted(o)
  BY DEF Limiter!Consulted, LimiterFacts!Consulted
<1>2. \A q, t : Limiter!Live(q, t) = LimiterFacts!Live(q, t)
  BY DEF Limiter!Live, LimiterFacts!Live, Limiter!Stale, LimiterFacts!Stale
<1>3. \A w, t : Limiter!WaitFor(w, t) = LimiterFacts!WaitFor(w, t)
  BY <1>2 DEF Limiter!WaitFor, LimiterFacts!WaitFor
<1>4. \A o, t : Limiter!Wait(o, t) = LimiterFacts!Wait(o, t)
  <2> TAKE o, t
  <2>1. {Limiter!WaitFor(w, t) : w \in Limiter!Consulted(o)}
          = {LimiterFacts!WaitFor(w, t) : w \in LimiterFacts!Consulted(o)}
    BY <1>1, <1>3
  <2>2. \A S : Limiter!Max(S) = LimiterFacts!Max(S)
    BY DEF Limiter!Max, LimiterFacts!Max
  <2> QED
    BY <2>1, <2>2 DEF Limiter!Wait, LimiterFacts!Wait
<1>5. ASSUME NEW o, NEW t
      PROVE  /\ Limiter!Take(o, t) <=> LimiterFacts!Take(o, t)
             /\ Limiter!Refuse(o, t) <=> LimiterFacts!Refuse(o, t)
  <2>1. Limiter!Pruned(o, t) = LimiterFacts!Pruned(o, t)
    BY <1>1, <1>2 DEF Limiter!Pruned, LimiterFacts!Pruned
  <2> QED
    BY <1>1, <1>4, <2>1
       DEF Limiter!Take, LimiterFacts!Take, Limiter!Refuse, LimiterFacts!Refuse
<1>7. Limiter!Init <=> LimiterFacts!Init
  BY DEF Limiter!Init, LimiterFacts!Init
<1>8. LimiterFacts!WithinBudget <=> Limiter!WithinBudget
  BY DEF Limiter!WithinBudget, LimiterFacts!WithinBudget,
         Limiter!Budget!WithinBudget, LimiterFacts!Budget!WithinBudget,
         Limiter!Budget!SpacedBy, LimiterFacts!Budget!SpacedBy
<1>9. LimiterFacts!TypeOK <=> Limiter!TypeOK
  BY DEF Limiter!TypeOK, LimiterFacts!TypeOK
<1> QED
  BY <1>2, <1>4, <1>5, <1>7, <1>8, <1>9

\* The caller that holds the lock read the clock after every grant there is:
\* as of that reading, too, the deques match the history.
Holds(c) ==
  /\ reading[c] \in Nat /\ reading[c] <= now
  /\ LimiterFacts!IInvAt(reading[c])

\* One caller at most is between reading the clock and giving the lock back.
LockInv ==
  /\ pc = [c \in Calls |-> pc[c]] /\ reading \in [Calls -> Nat \cup {None}]
  /\ LimiterFacts!IInvAt(now)
  /\ \A c, d \in Calls : pc[c] = "reserving" /\ pc[d] = "reserving" => c = d
  /\ \A c \in Calls : pc[c] = "reserving" => Holds(c)

\* The clock has been read by nobody at the start.
LEMMA InitLock == Init => LockInv
<1> SUFFICES ASSUME Init PROVE LockInv
  OBVIOUS
<1>1. LimiterFacts!IInvAt(now)
  BY LimiterAssumption, LimiterFacts!InitInv, SameLimiter DEF Init, LimiterFacts!IInv
<1> QED
  BY <1>1 DEF Init, LockInv

\* Where the deques stay as they are and nobody takes the lock, time may pass.
LEMMA IdleLimiter ==
  ASSUME LockInv, hits' = hits, log' = log, now' \in {now, now + 1},
         reading' = reading, pc' = [c \in Calls |-> pc'[c]],
         \A c \in Calls : pc'[c] = "reserving" => pc[c] = "reserving"
  PROVE  LockInv'
<1>1. ASSUME NEW CONSTANT r \in Nat, r <= now, LimiterFacts!IInvAt(r)
      PROVE  LimiterFacts!IInvAt(r)' /\ r <= now'
  <2>1. LimiterFacts!IInvAt(r)'
    BY <1>1, LimiterAssumption, LimiterFacts!SameDequesInv
  <2>2. now \in Nat
    BY DEF LockInv, LimiterFacts!IInvAt
  <2> QED
    BY <1>1, <2>1, <2>2
<1>2. LimiterFacts!IInvAt(now)'
  <2> SUFFICES ASSUME NEW CONSTANT r \in Nat, r = now, LimiterFacts!IInvAt(r)
               PROVE  LimiterFacts!IInvAt(now)'
    BY DEF LockInv, LimiterFacts!IInvAt
  <2>1. r + 1 \in Nat /\ LimiterFacts!IInvAt(r + 1)
    BY LimiterAssumption, LimiterFacts!LaterInv
  <2>2. LimiterFacts!IInvAt(r)' /\ LimiterFacts!IInvAt(r + 1)'
    BY <2>1, LimiterAssumption, LimiterFacts!SameDequesInv
  <2>3. CASE now' = r
    BY <2>2, <2>3 DEF LimiterFacts!IInvAt
  <2>4. CASE now' = r + 1
    BY <2>2, <2>4 DEF LimiterFacts!IInvAt
  <2> QED
    BY <2>3, <2>4
<1>3. ASSUME NEW c \in Calls, pc'[c] = "reserving"
      PROVE  Holds(c)'
  <2> SUFFICES ASSUME NEW CONSTANT r \in Nat, r = reading[c], r <= now,
                      LimiterFacts!IInvAt(r)
               PROVE  Holds(c)'
    BY <1>3 DEF LockInv, Holds, LimiterFacts!IInvAt
  <2>1. LimiterFacts!IInvAt(r)' /\ r <= now' /\ reading'[c] = r
    BY <1>1
  <2> QED
    BY <2>1 DEF Holds, LimiterFacts!IInvAt
<1> QED
  BY <1>2, <1>3 DEF LockInv

\* reserve() keeps the invariant as of the time it is given, and so as of now:
\* nobody else holds a reading that it could make invalid.
LEMMA ReservesUnderTheLock ==
  ASSUME LockInv, NEW c \in Calls, Reserve(c)
  PROVE  LockInv'
<1> SUFFICES ASSUME NEW CONSTANT r \in Nat, r = reading[c],
                    NEW CONSTANT u \in Nat, u = now, r <= u, LimiterFacts!IInvAt(r)
             PROVE  LockInv'
  BY DEF Reserve, LockInv, Holds, LimiterFacts!IInvAt
<1>1. IsOrder(c) \in BOOLEAN
  BY DEF IsOrder
<1>2. LimiterFacts!Take(IsOrder(c), r) \/ LimiterFacts!Refuse(IsOrder(c), r)
  BY SameLimiter DEF Reserve
<1>3. LimiterFacts!IInvAt(r)'
  BY <1>1, <1>2, LimiterAssumption, LimiterFacts!TakeInv, LimiterFacts!RefuseInv
<1>4. LimiterFacts!IInvAt(u)'
  BY <1>3, LimiterAssumption, LimiterFacts!LaterInv, PTL
<1>5. now' = u
  BY DEF Reserve, Limiter!Take, Limiter!Refuse
<1>6. LimiterFacts!IInvAt(now)'
  BY <1>4, <1>5 DEF LimiterFacts!IInvAt
<1>7. /\ \A d \in Calls : pc'[d] # "reserving"
      /\ pc' = [d \in Calls |-> pc'[d]] /\ reading' \in [Calls -> Nat \cup {None}]
  BY DEF Reserve, LockInv
<1> QED
  BY <1>6, <1>7 DEF LockInv

\* Every step keeps what is known of the lock and of the limiter under it.
LEMMA LockStep == LockInv /\ [Next]_vars => LockInv'
<1> SUFFICES ASSUME LockInv, [Next]_vars PROVE LockInv'
  OBVIOUS
<1> USE DEF limiterVars, callVars
<1>1. ASSUME NEW c \in Calls, Enter(c)
      PROVE  LockInv'
  <2> SUFFICES ASSUME NEW CONSTANT r \in Nat, r = now, LimiterFacts!IInvAt(r)
               PROVE  LockInv'
    BY DEF LockInv, LimiterFacts!IInvAt
  <2>1. /\ now' = r /\ hits' = hits /\ log' = log
        /\ \A d \in Calls : pc[d] # "reserving"
        /\ pc' = [pc EXCEPT ![c] = "reserving"] /\ reading' = [reading EXCEPT ![c] = r]
    BY <1>1 DEF Enter
  <2>2. LimiterFacts!IInvAt(r)'
    BY <2>1, LimiterAssumption, LimiterFacts!SameDequesInv
  <2>3. LimiterFacts!IInvAt(now)'
    BY <2>1, <2>2 DEF LimiterFacts!IInvAt
  <2>4. /\ pc' = [d \in Calls |-> pc'[d]] /\ reading' \in [Calls -> Nat \cup {None}]
        /\ reading'[c] = r
        /\ \A d \in Calls : pc'[d] = "reserving" => d = c
    BY <2>1 DEF LockInv
  <2>5. Holds(c)'
    BY <2>1, <2>2, <2>4 DEF Holds, LimiterFacts!IInvAt
  <2> QED
    BY <2>3, <2>4, <2>5 DEF LockInv
<1>2. ASSUME NEW c \in Calls, Reserve(c)
      PROVE  LockInv'
  BY <1>2, ReservesUnderTheLock
<1>3. ASSUME NEW c \in Calls, NEW place \in {"throttle", "flight", "asleep", "returned",
                                             "raised"},
             pc' = [pc EXCEPT ![c] = place], UNCHANGED <<limiterVars, reading>>
      PROVE  LockInv'
  BY <1>3, IdleLimiter DEF LockInv
<1>4. UNCHANGED <<limiterVars, pc, reading>> => LockInv'
  BY IdleLimiter DEF LockInv
<1>5. ASSUME NEW c \in Calls, Call(c) \/ RefuseToSign(c) \/ FindClosed(c) \/ Send(c)
      PROVE  LockInv'
  BY <1>3, <1>5 DEF Call, RefuseToSign, FindClosed, Send, Escape
<1>6. ASSUME NEW c \in Calls, Receive(c) \/ TransportError(c)
      PROVE  LockInv'
  BY <1>3, <1>6 DEF Receive, TransportError, Succeed, Fail, Pause, Escape
<1>7. ASSUME NEW c \in Calls, Exchange(c)
      PROVE  LockInv'
  BY <1>4, <1>7 DEF Exchange, Accept, Reject, Break, Reply, StrayEnds
<1>8. CASE Tick
  <2>1. now' = now + 1 /\ UNCHANGED <<hits, log, pc, reading>>
    BY <1>8 DEF Tick, Limiter!Tick
  <2> QED
    BY <2>1, IdleLimiter DEF LockInv
<1>9. CASE Close \/ Finished \/ UNCHANGED vars
  BY <1>4, <1>9 DEF Close, Finished, vars
<1> QED
  BY <1>1, <1>2, <1>5, <1>6, <1>7, <1>8, <1>9 DEF Next, Client, Run

\* Who holds the lock: the invariant that makes the limiter's own hold under
\* callers that read the clock and reserve later.
THEOREM LockIsHeld == Spec => []LockInv
BY InitLock, LockStep, PTL DEF Spec

\* The limiter's invariant implies that it is within budget.
LEMMA LockedWithinBudget == LockInv => CallersWithinBudget
BY SameLimiter DEF LockInv, LimiterFacts!IInvAt, CallersWithinBudget

\* CallersWithinBudget: however many callers share an engine, and however long
\* each takes between reading the clock and reserve(), no window of one period
\* is granted more than its limit, because both happen under the lock
\* (_engine.py:137-143).
THEOREM CallersStayInBudget == Spec => []CallersWithinBudget
BY LockedWithinBudget, LockIsHeld, PTL

-----------------------------------------------------------------------------
(* What the wire and the callers hold *)

Failures == (Policy!Status \ {"200"}) \cup {Policy!NoStatus}

\* How a call can end that is not worth retrying, whatever the policy.
Final == {"ok", "malformed", "credentials", "closed", "overflow", "nan delay",
          "endless delay", "cancelled"}

Places == {"idle", "throttle", "reserving", "granted", "flight", "asleep", "returned",
           "raised"}

\* What a response may ask a caller to wait: nan only if a server says so.
Hints == {h \in Policy!Float \cup {None} : h = NaN => NaN \in RetryAfterTexts}

WireTyped ==
  /\ wire = [c \in Calls |-> wire[c]]
  /\ \A c \in Calls : \/ wire[c] \in {Nothing, Travelling}
                      \/ wire[c].status \in Policy!Status /\ wire[c].hint \in Hints

CallsTyped ==
  /\ pc \in [Calls -> Places]
  /\ attempt \in [Calls -> Nat]
  /\ sends \in [Calls -> Nat]
  /\ outcome \in [Calls -> {"pending"} \cup Final \cup Failures]

\* The headers of an answer, whatever they say, give such a hint.
LEMMA HintTyped ==
  ASSUME NEW status, NEW headers \in Headers
  PROVE  Response!DelayHint(status, headers) \in Hints
<1>1. headers.retryAfter \in RetryAfterTexts
  BY DEF Headers
<1>2. NaN \notin Int /\ None # NaN
  BY LoopAssumption DEF Policy!FloatAssumption, Policy!Float
<1> QED
  BY <1>1, <1>2 DEF Response!DelayHint, Response!RetryAfter, Response!HeaderInt, Hints,
                    Policy!Float

\* Nothing is on the wire at the start.
LEMMA InitWireTyped == Init => WireTyped
BY DEF Init, WireTyped

\* Requests and answers are all that is ever put on the wire.
LEMMA NextWireTyped == WireTyped /\ [Next]_vars => WireTyped'
<1> SUFFICES ASSUME WireTyped, [Next]_vars
             PROVE  WireTyped'
  OBVIOUS
<1> USE DEF serverVars
<1>1. ASSUME wire' = wire
      PROVE  WireTyped'
  BY <1>1 DEF WireTyped
<1>2. ASSUME NEW c \in Calls, NEW value,
             \/ value \in {Nothing, Travelling}
             \/ value.status \in Policy!Status /\ value.hint \in Hints,
             wire' = [wire EXCEPT ![c] = value]
      PROVE  WireTyped'
  BY <1>2 DEF WireTyped
<1>3. ASSUME NEW c \in Calls, Client(c)
      PROVE  WireTyped'
  BY <1>1, <1>2, <1>3 DEF Client, Run, Call, Enter, Reserve, RefuseToSign, FindClosed,
                         Send, Receive, TransportError, Abandon
<1>4. ASSUME NEW c \in Calls, NEW status \in Policy!Status, NEW usable,
             Reply(c, status, usable)
      PROVE  WireTyped'
  <2>1. PICK hint \in Hints : \E number :
          wire' = [wire EXCEPT ![c] = Answer(status, usable, hint, number)]
    BY <1>4, HintTyped DEF Reply
  <2> PICK number :
        wire' = [wire EXCEPT ![c] = Answer(status, usable, hint, number)]
    BY <2>1
  <2>2. /\ Answer(status, usable, hint, number).status \in Policy!Status
        /\ Answer(status, usable, hint, number).hint \in Hints
    BY DEF Answer
  <2> QED
    BY <1>2, <2>2
<1>5. ASSUME NEW c \in Calls, Exchange(c)
      PROVE  WireTyped'
  BY <1>1, <1>4, <1>5 DEF Exchange, Accept, Reject, Break, StrayEnds, Policy!Status
<1>6. CASE Close \/ Tick \/ Finished \/ UNCHANGED vars
  BY <1>1, <1>6 DEF Close, Tick, Finished, vars
<1> QED
  BY <1>3, <1>5, <1>6 DEF Next

-----------------------------------------------------------------------------
(* Attempts *)

\* The call has failed with something another attempt might have cured.
Worthwhile(c) ==
  pc[c] = "raised" /\ Policy!ShouldRetry(Method(endpoint[c]), outcome[c])

\* What there is to say for giving up on such a failure before the last attempt.
Excuse(c, exception) ==
  /\ exception = "overflow" => MaxExponent + 1 < sends[c] /\ sends[c] < AttemptsOf(c)
  /\ exception = "nan delay" => NaN \in RetryAfterTexts \cup {Backoff}
  /\ exception = "endless delay" => MaxBackoff \notin Int

\* Every attempt but the one that is being prepared has put one request on the
\* wire; a failure worth retrying has used up all of them.
Counted(c) ==
  /\ 1 <= attempt[c] /\ attempt[c] <= AttemptsOf(c)
  /\ pc[c] \in {"idle", "throttle", "reserving", "granted"} => sends[c] = attempt[c] - 1
  /\ pc[c] \in {"flight", "asleep"} => sends[c] = attempt[c]
  /\ Ended(c) => sends[c] <= attempt[c]
  /\ Worthwhile(c) => sends[c] = AttemptsOf(c)
  /\ pc[c] = "raised" => Excuse(c, outcome[c])

AttemptsCounted == WireTyped /\ CallsTyped /\ \A c \in Calls : Counted(c)

\* Every call may make an attempt.
LEMMA AttemptsPositive ==
  ASSUME NEW c \in Calls
  PROVE  AttemptsOf(c) \in Nat \ {0}
BY LoopAssumption DEF AttemptsOf, Policy!PolicyAssumption

\* Nobody has made an attempt at the start.
LEMMA InitCounts == Init => AttemptsCounted
<1> SUFFICES ASSUME Init PROVE AttemptsCounted
  OBVIOUS
<1>1. CallsTyped
  BY DEF Init, CallsTyped, Places
<1>2. ASSUME NEW c \in Calls
      PROVE  Counted(c)
  BY AttemptsPositive DEF Init, Counted, Ended, Worthwhile
<1> QED
  BY <1>1, <1>2, InitWireTyped DEF AttemptsCounted

\* A step of caller c leaves what is counted of the others alone.
LEMMA OthersCounted ==
  ASSUME AttemptsCounted, NEW c \in Calls, CallsTyped', WireTyped', Counted(c)',
         endpoint' = endpoint,
         \A d \in Calls \ {c} : /\ pc'[d] = pc[d] /\ attempt'[d] = attempt[d]
                                /\ sends'[d] = sends[d] /\ outcome'[d] = outcome[d]
  PROVE  AttemptsCounted'
<1> SUFFICES ASSUME NEW d \in Calls, d # c
             PROVE  Counted(d)'
  BY DEF AttemptsCounted
<1> QED
  BY DEF AttemptsCounted, Counted, Worthwhile, Excuse, Ended, AttemptsOf

\* An exception that leaves the loop, with a request of this attempt or none.
LEMMA EscapeCounts ==
  ASSUME AttemptsCounted, WireTyped', NEW c \in Calls,
         pc[c] \in {"throttle", "granted", "flight", "asleep"},
         NEW exception \in Final \cup Failures, Escape(c, exception),
         Excuse(c, exception), UNCHANGED <<sends, endpoint>>,
         exception \in Final \/
           (pc[c] = "flight" /\ ~ Retries(c, exception))
  PROVE  AttemptsCounted'
<1>1. CallsTyped'
  BY DEF AttemptsCounted, CallsTyped, Escape, Places
<1>2. /\ pc'[c] = "raised" /\ outcome'[c] = exception
      /\ UNCHANGED <<attempt, sends, endpoint>>
      /\ \A d \in Calls \ {c} : pc'[d] = pc[d] /\ outcome'[d] = outcome[d]
  BY DEF AttemptsCounted, CallsTyped, Escape
<1>3. Worthwhile(c)' => sends[c] = AttemptsOf(c)
  <2>1. ASSUME exception \in Final
        PROVE  ~ Worthwhile(c)'
    BY <1>2, <2>1, LoopAssumption
       DEF Worthwhile, Final, Policy!ShouldRetry, Policy!PolicyAssumption,
           Policy!Status, Policy!NoStatus
  <2>2. ASSUME pc[c] = "flight", ~ Retries(c, exception), Worthwhile(c)'
        PROVE  sends[c] = AttemptsOf(c)
    <3>1. Policy!ShouldRetry(Method(endpoint[c]), exception)
      BY <1>2, <2>2 DEF Worthwhile, Policy!ShouldRetry
    <3>2. ~ (attempt[c] < AttemptsOf(c))
      BY <2>2, <3>1 DEF Retries
    <3> QED
      BY <2>2, <3>2, AttemptsPositive DEF AttemptsCounted, CallsTyped, Counted
  <2> QED
    BY <2>1, <2>2
<1>4. Counted(c)'
  <2>1. Excuse(c, exception)'
    BY <1>2 DEF Excuse, AttemptsOf
  <2>2. pc'[c] = "raised" => Excuse(c, outcome[c])'
    BY <1>2, <2>1 DEF Excuse
  <2> QED
    BY <1>2, <1>3, <2>2 DEF AttemptsCounted, CallsTyped, Counted, Ended, AttemptsOf
<1> QED
  BY <1>1, <1>2, <1>4, OthersCounted

\* Doubling any number of times.
LEMMA PowersOfTwo ==
  ASSUME NEW n \in Nat \ {0}
  PROVE  2 ^ (n - 1) \in Nat
<1>1. IsFiniteSet(1 .. n - 1) /\ Cardinality(1 .. n - 1) = n - 1
  BY FS_Interval
<1>2. /\ IsFiniteSet(SUBSET (1 .. n - 1))
      /\ Cardinality(SUBSET (1 .. n - 1)) = 2 ^ (n - 1)
  BY <1>1, FS_SUBSET
<1> QED
  BY <1>2, FS_CardinalityType

\* A delay is not a number only if it was asked for or configured as such, and
\* too long to sleep only if nothing caps it (config.py:60-70).
LEMMA OddDelays ==
  ASSUME NEW n \in Nat \ {0}, NEW hint \in Hints, NEW d \in Policy!Delays(n, hint)
  PROVE  /\ d = NaN => NaN \in RetryAfterTexts \cup {Backoff}
         /\ d = Infinity => MaxBackoff \notin Int
<1> USE DEF Policy!Smaller, Policy!Larger, Policy!Less
<1>0. /\ NaN \notin Int /\ Infinity \notin Int \cup {NaN} /\ 0 # NaN
      /\ MaxBackoff \in Policy!Float
  BY LoopAssumption DEF Policy!FloatAssumption, Policy!PolicyAssumption
<1>1. CASE hint # None
  <2>1. d = Policy!Smaller(Policy!Larger(hint, 0), MaxBackoff)
    BY <1>1 DEF Policy!Delays
  <2> QED
    BY <1>0, <2>1 DEF Hints
<1>2. CASE hint = None
  <2> DEFINE base == Policy!Smaller(Policy!Scaled(n), MaxBackoff)
  <2>1. d \in Policy!Jittered(base)
    BY <1>2 DEF Policy!Delays
  <2>2. d \in {NaN, Infinity} => d = base
    BY <1>0, <2>1 DEF Policy!Jittered
  <2>3. base = NaN => Policy!Scaled(n) = NaN
    BY <1>0
  <2>4. base = Infinity => MaxBackoff \notin Int
    BY <1>0
  <2>5. Policy!Scaled(n) = NaN => Backoff \notin Int \/ NaN \in Int
    <3>1. Backoff \in Int => Backoff * 2 ^ (n - 1) # NaN
      BY <1>0, PowersOfTwo
    <3> QED
      BY <3>1 DEF Policy!Scaled
  <2> QED
    BY <1>0, <2>2, <2>3, <2>4, <2>5 DEF Policy!Scaled
<1> QED
  BY <1>1, <1>2

\* How a failed attempt ends: with another one, with a sleep that never ends,
\* or with an exception.
LEMMA FailCounts ==
  ASSUME AttemptsCounted, WireTyped', NEW c \in Calls, pc[c] = "flight",
         NEW status \in Failures, NEW hint \in Hints, Fail(c, status, hint),
         UNCHANGED <<sends, endpoint>>
  PROVE  AttemptsCounted'
<1>1. CASE /\ Retries(c, status)
           /\ pc' = [pc EXCEPT ![c] = "throttle"]
           /\ attempt' = [attempt EXCEPT ![c] = @ + 1]
           /\ outcome' = outcome
  <2>1. CallsTyped'
    BY <1>1 DEF AttemptsCounted, CallsTyped, Places
  <2>2. /\ pc'[c] = "throttle" /\ attempt'[c] = attempt[c] + 1
        /\ UNCHANGED <<sends, endpoint, outcome>>
        /\ \A d \in Calls \ {c} : pc'[d] = pc[d] /\ attempt'[d] = attempt[d]
    BY <1>1 DEF AttemptsCounted, CallsTyped
  <2>3. attempt[c] < AttemptsOf(c)
    BY <1>1 DEF Retries
  <2>4. Counted(c)'
    BY <2>2, <2>3, AttemptsPositive
       DEF AttemptsCounted, CallsTyped, Counted, Ended, Worthwhile, AttemptsOf
  <2> QED
    BY <2>1, <2>2, <2>4, OthersCounted
<1>2. CASE pc' = [pc EXCEPT ![c] = "asleep"] /\ UNCHANGED <<attempt, outcome>>
  <2>1. CallsTyped'
    BY <1>2 DEF AttemptsCounted, CallsTyped, Places
  <2>2. /\ pc'[c] = "asleep" /\ UNCHANGED <<attempt, sends, endpoint, outcome>>
        /\ \A d \in Calls \ {c} : pc'[d] = pc[d]
    BY <1>2 DEF AttemptsCounted, CallsTyped
  <2>3. Counted(c)'
    BY <2>2 DEF AttemptsCounted, CallsTyped, Counted, Ended, Worthwhile, AttemptsOf
  <2> QED
    BY <2>1, <2>2, <2>3, OthersCounted
<1>3. ASSUME NEW d \in Policy!Delays(attempt[c], hint), Pause(c, d), Retries(c, status)
      PROVE  AttemptsCounted'
  <2>0. attempt[c] \in Nat \ {0}
    BY DEF AttemptsCounted, CallsTyped, Counted
  <2>1. /\ d = NaN => NaN \in RetryAfterTexts \cup {Backoff}
        /\ d = Infinity => MaxBackoff \notin Int
    BY <2>0, OddDelays
  <2>2. CASE d = NaN /\ Escape(c, "nan delay")
    BY <2>1, <2>2, EscapeCounts DEF Final, Excuse
  <2>3. CASE d = Infinity /\ Escape(c, "endless delay")
    BY <2>1, <2>3, EscapeCounts DEF Final, Excuse
  <2> QED
    BY <1>1, <1>2, <1>3, <2>2, <2>3 DEF Pause
<1>4. CASE /\ Retries(c, status) /\ Policy!Overflows(attempt[c], hint)
           /\ Escape(c, "overflow")
  <2>1. attempt[c] < AttemptsOf(c) /\ attempt[c] - 1 > MaxExponent
    BY <1>4 DEF Retries, Policy!Overflows
  <2>2. sends[c] = attempt[c] /\ attempt[c] \in Nat /\ MaxExponent \in Nat
    BY LoopAssumption DEF AttemptsCounted, Counted, CallsTyped, Policy!PolicyAssumption
  <2>3. Excuse(c, "overflow")
    BY <2>1, <2>2 DEF Excuse
  <2> QED
    BY <1>4, <2>3, EscapeCounts DEF Final
<1>5. CASE ~ Retries(c, status) /\ Escape(c, status)
  <2>1. Excuse(c, status)
    BY DEF Excuse, Failures, Policy!Status, Policy!NoStatus
  <2> QED
    BY <1>5, <2>1, EscapeCounts
<1> QED
  BY <1>3, <1>4, <1>5 DEF Fail

\* One case per action: every step keeps attempts and requests in step.
LEMMA NextCounts == AttemptsCounted /\ [Next]_vars => AttemptsCounted'
<1> SUFFICES ASSUME AttemptsCounted, [Next]_vars
             PROVE  AttemptsCounted'
  OBVIOUS
<1> USE DEF given, callVars, sendVars
<1>0. WireTyped'
  BY NextWireTyped DEF AttemptsCounted
<1>1. ASSUME UNCHANGED <<pc, attempt, outcome, sends, endpoint>>
      PROVE  AttemptsCounted'
  BY <1>0, <1>1
     DEF AttemptsCounted, CallsTyped, Counted, Excuse, Ended, Worthwhile, AttemptsOf
<1>2. ASSUME NEW c \in Calls, NEW place \in {"throttle", "reserving", "granted"},
             pc[c] \in {"idle", "throttle", "reserving"},
             pc' = [pc EXCEPT ![c] = place],
             UNCHANGED <<attempt, outcome, sends, endpoint>>
      PROVE  AttemptsCounted'
  <2>1. CallsTyped'
    BY <1>2 DEF AttemptsCounted, CallsTyped, Places
  <2>2. Counted(c)'
    BY <1>2 DEF AttemptsCounted, CallsTyped, Counted, Ended, Worthwhile, AttemptsOf
  <2> QED
    BY <1>0, <1>2, <2>1, <2>2, OthersCounted DEF AttemptsCounted, CallsTyped
<1>3. ASSUME NEW c \in Calls, Call(c)
      PROVE  AttemptsCounted'
  BY <1>2, <1>3 DEF Call
<1>4. ASSUME NEW c \in Calls, Enter(c) \/ Reserve(c)
      PROVE  AttemptsCounted'
  BY <1>2, <1>4 DEF Enter, Reserve
<1>5. ASSUME NEW c \in Calls, RefuseToSign(c) \/ FindClosed(c)
      PROVE  AttemptsCounted'
  <2>1. pc[c] = "granted" /\ UNCHANGED <<sends, endpoint>>
    BY <1>5 DEF RefuseToSign, FindClosed
  <2>2. Escape(c, "credentials") \/ Escape(c, "closed")
    BY <1>5 DEF RefuseToSign, FindClosed
  <2> QED
    BY <1>0, <2>1, <2>2, EscapeCounts DEF Final, Excuse
<1>6. ASSUME NEW c \in Calls, Send(c)
      PROVE  AttemptsCounted'
  <2>1. /\ pc[c] = "granted"
        /\ pc' = [pc EXCEPT ![c] = "flight"]
        /\ sends' = [sends EXCEPT ![c] = @ + 1]
        /\ UNCHANGED <<attempt, outcome, endpoint>>
    BY <1>6 DEF Send
  <2>2. CallsTyped'
    BY <2>1 DEF AttemptsCounted, CallsTyped, Places
  <2>3. Counted(c)'
    BY <2>1 DEF AttemptsCounted, CallsTyped, Counted, Ended, Worthwhile, AttemptsOf
  <2> QED
    BY <1>0, <2>1, <2>2, <2>3, OthersCounted DEF AttemptsCounted, CallsTyped
<1>7. ASSUME NEW c \in Calls, Receive(c)
      PROVE  AttemptsCounted'
  <2>1. pc[c] = "flight" /\ UNCHANGED <<sends, endpoint>>
    BY <1>7 DEF Receive
  <2>2. CASE Succeed(c)
    <3>1. /\ UNCHANGED <<attempt, sends, endpoint>>
          /\ \/ /\ pc' = [pc EXCEPT ![c] = "returned"]
                /\ outcome' = [outcome EXCEPT ![c] = "ok"]
             \/ /\ pc' = [pc EXCEPT ![c] = "raised"]
                /\ outcome' = [outcome EXCEPT ![c] = "malformed"]
      BY <2>1, <2>2 DEF Succeed
    <3>2. CallsTyped'
      BY <3>1 DEF AttemptsCounted, CallsTyped, Places, Final
    <3>3. ~ Worthwhile(c)' /\ (pc'[c] = "raised" => Excuse(c, outcome[c])')
      <4>1. \/ pc'[c] = "returned" /\ outcome'[c] = "ok"
            \/ pc'[c] = "raised" /\ outcome'[c] = "malformed"
        BY <3>1 DEF AttemptsCounted, CallsTyped
      <4>2. ~ Worthwhile(c)'
        BY <4>1, LoopAssumption
           DEF Worthwhile, Policy!ShouldRetry, Policy!PolicyAssumption, Policy!Status,
               Policy!NoStatus
      <4> QED
        BY <4>1, <4>2 DEF Excuse
    <3>4. Counted(c)'
      BY <2>1, <3>1, <3>3 DEF AttemptsCounted, CallsTyped, Counted, Ended, AttemptsOf
    <3> QED
      BY <1>0, <3>1, <3>2, <3>4, OthersCounted DEF AttemptsCounted, CallsTyped
  <2>3. CASE wire[c].status # "200" /\ Fail(c, wire[c].status, wire[c].hint)
    <3>1. wire[c].status \in Failures /\ wire[c].hint \in Hints
      BY <1>7, <2>3 DEF Receive, AttemptsCounted, WireTyped, Failures
    <3> QED
      BY <1>0, <2>1, <2>3, <3>1, FailCounts
  <2> QED
    BY <1>7, <2>2, <2>3 DEF Receive
<1>8. ASSUME NEW c \in Calls, TransportError(c)
      PROVE  AttemptsCounted'
  <2>1. /\ pc[c] = "flight" /\ Fail(c, Policy!NoStatus, None)
        /\ UNCHANGED <<sends, endpoint>>
    BY <1>8 DEF TransportError
  <2>2. Policy!NoStatus \in Failures /\ None \in Hints
    BY LoopAssumption DEF Failures, Hints, Policy!FloatAssumption, Policy!Float
  <2> QED
    BY <1>0, <2>1, <2>2, FailCounts
<1>9. ASSUME NEW c \in Calls, Exchange(c)
      PROVE  AttemptsCounted'
  BY <1>1, <1>9 DEF Exchange, Accept, Reject, Break, Reply, StrayEnds
<1>10. CASE Close \/ Tick \/ Finished \/ UNCHANGED vars
  BY <1>1, <1>10 DEF Close, Tick, Finished, vars
<1> QED
  BY <1>3, <1>4, <1>5, <1>6, <1>7, <1>8, <1>9, <1>10 DEF Next, Client, Run

\* Each attempt sends at most one request, and no attempt is skipped or added.
THEOREM AttemptsAreCounted == Spec => []AttemptsCounted
BY InitCounts, NextCounts, PTL DEF Spec

\* A withdrawal has one attempt, and so one request.
LEMMA CountedWithdrawals == AttemptsCounted => WithdrawalSentOnce
<1> SUFFICES ASSUME AttemptsCounted, NEW c \in Calls, endpoint[c] \in Withdrawals
             PROVE  sends[c] <= 1
  BY DEF WithdrawalSentOnce
<1>1. AttemptsOf(c) = 1
  BY DEF AttemptsOf, Withdrawals, NeverRetryPaths
<1> QED
  BY <1>1 DEF AttemptsCounted, CallsTyped, Counted, Ended, Places

\* WithdrawalSentOnce: the money leaves at most once, under every retry policy
\* (_engine.py:155).
THEOREM WithdrawalsAreSentOnce == Spec => []WithdrawalSentOnce
BY CountedWithdrawals, AttemptsAreCounted, PTL

\* A call that gave up has used its attempts or has an excuse.
LEMMA CountedGivesUp == AttemptsCounted => GivesUpOnlyAtTheEnd
BY DEF AttemptsCounted, Counted, Worthwhile, Excuse, GivesUpOnlyAtTheEnd

\* GivesUpOnlyAtTheEnd: under every policy __post_init__ accepts, a failure
\* worth retrying ends a call before its last attempt only in the three ways
\* delay() and sleep() have of raising, each only where the policy or a server
\* makes it possible (_engine.py:156-183, config.py:43-70).
THEOREM GivesUpAtTheEnd == Spec => []GivesUpOnlyAtTheEnd
BY CountedGivesUp, AttemptsAreCounted, PTL

-----------------------------------------------------------------------------
(* Writes under the default policy *)

WritesTyped ==
  /\ executed \in [Calls -> Nat]
  /\ stray \in [Calls -> Nat]

\* What is known of the exchange from where a write is and what was answered:
\* until the caller is told something, all it has done was asked for by the
\* request that is in flight; afterwards one copy at most may be acted on.
Settled(c) ==
  /\ Ended(c) <=> outcome[c] # "pending"
  /\ pc[c] \in {"idle", "throttle", "reserving", "granted", "asleep"} =>
       executed[c] = 0 /\ stray[c] = 0
  /\ pc[c] = "flight" => stray[c] = 0
  /\ pc[c] # "flight" => wire[c] = Nothing
  /\ pc[c] = "flight" =>
       \/ wire[c] = Travelling /\ executed[c] = 0
       \/ wire[c].status = "200" /\ executed[c] = 1
       \/ wire[c].status \in {"400", "429"} /\ executed[c] = 0
       \/ wire[c].status = "503" /\ executed[c] \in {0, 1}
  /\ Verdict(c) = "accepted" => executed[c] = 1 /\ stray[c] = 0
  /\ Verdict(c) = "rejected" => executed[c] = 0 /\ stray[c] = 0
  /\ Verdict(c) = "unknown" => executed[c] + stray[c] <= 1

WritesSettled ==
  /\ WireTyped /\ CallsTyped /\ WritesTyped
  /\ \A c \in Calls : IsWrite(c) => Settled(c)

\* What Submission lets happen to one write, or nothing.
Submits(c) ==
  \/ executed'[c] = executed[c] /\ Verdict(c)' = Verdict(c)
  \/ /\ executed[c] = 0 /\ executed'[c] = 1
     /\ Verdict(c) \in {"pending", "unknown"} /\ Verdict(c)' = Verdict(c)
  \/ /\ executed'[c] = executed[c] /\ Verdict(c) = "pending"
     /\ \/ Verdict(c)' = "accepted" /\ executed[c] = 1
        \/ Verdict(c)' = "rejected" /\ executed[c] = 0
        \/ Verdict(c)' = "unknown"

Verdicts == [c \in Calls |-> Verdict(c)]

OthersKept(c) ==
  \A d \in Calls \ {c} : /\ pc'[d] = pc[d] /\ outcome'[d] = outcome[d]
                         /\ wire'[d] = wire[d] /\ stray'[d] = stray[d]
                         /\ executed'[d] = executed[d]

\* A step of one write is a step of Submission, and settles it.
LEMMA OneWriteSubmits ==
  ASSUME WritesSettled, WireTyped', CallsTyped', WritesTyped', endpoint' = endpoint,
         NEW c \in Calls, OthersKept(c), IsWrite(c) => Settled(c)', Submits(c)
  PROVE  WritesSettled' /\ [Writing!Next]_<<executed, Verdicts>>
<1>1. \A d \in Calls : IsWrite(d)' = IsWrite(d)
  BY DEF IsWrite
<1>2. \A d \in Calls \ {c} : Verdict(d)' = Verdict(d)
  BY <1>1 DEF Verdict, OthersKept
<1>3. ASSUME NEW d \in Calls, d # c, IsWrite(d)
      PROVE  Settled(d)'
  BY <1>2, <1>3 DEF WritesSettled, Settled, OthersKept, Ended
<1>4. WritesSettled'
  BY <1>1, <1>3 DEF WritesSettled
<1>5. Verdicts' = [Verdicts EXCEPT ![c] = Verdict(c)']
  BY <1>2 DEF Verdicts
<1>6. executed' = [executed EXCEPT ![c] = executed'[c]]
  BY DEF WritesSettled, WritesTyped, OthersKept
<1>7. [Writing!Next]_<<executed, Verdicts>>
  <2>1. CASE executed'[c] = executed[c] /\ Verdict(c)' = Verdict(c)
    BY <1>5, <1>6, <2>1 DEF WritesSettled, WritesTyped, Verdicts
  <2>2. CASE /\ executed[c] = 0 /\ executed'[c] = 1
             /\ Verdict(c) \in {"pending", "unknown"} /\ Verdict(c)' = Verdict(c)
    <3>1. Verdicts' = Verdicts
      BY <1>5, <2>2 DEF Verdicts
    <3>2. Writing!Execute(c)
      BY <1>6, <2>2, <3>1 DEF Writing!Execute, Verdicts
    <3> QED
      BY <3>2 DEF Writing!Next
  <2>3. CASE /\ executed'[c] = executed[c] /\ Verdict(c) = "pending"
             /\ \/ Verdict(c)' = "accepted" /\ executed[c] = 1
                \/ Verdict(c)' = "rejected" /\ executed[c] = 0
                \/ Verdict(c)' = "unknown"
    <3>1. executed' = executed
      BY <1>6, <2>3 DEF WritesSettled, WritesTyped
    <3>2. Writing!Accept(c) \/ Writing!Reject(c) \/ Writing!GiveUp(c)
      BY <1>5, <2>3, <3>1
         DEF Writing!Accept, Writing!Reject, Writing!GiveUp, Writing!Tell, Verdicts
    <3> QED
      BY <3>2 DEF Writing!Next
  <2> QED
    BY <2>1, <2>2, <2>3 DEF Submits
<1> QED
  BY <1>4, <1>7

\* A caller that is not told anything yet believes nothing yet.
LEMMA PendingUntilEnded ==
  ASSUME WritesSettled, NEW c \in Calls, ~ Ended(c)
  PROVE  Verdict(c) = "pending"
BY DEF WritesSettled, Settled, Verdict

\* Telling the caller of a read submits nothing.
LEMMA ReadsSubmitNothing ==
  ASSUME NEW c \in Calls, ~ IsWrite(c), endpoint' = endpoint, executed'[c] = executed[c]
  PROVE  Submits(c)
<1>1. Verdict(c) = "pending" /\ Verdict(c)' = "pending"
  BY DEF Verdict, IsWrite
<1> QED
  BY <1>1 DEF Submits

\* How delay() and sleep() can fail.
BadDelays == {"overflow", "nan delay", "endless delay"}

\* A failed write under the default policy: a 429 alone may be followed by
\* another attempt, by a sleep that never ends, or by a failure to sleep.
LEMMA FailTells ==
  ASSUME ~ RetryUnsafe, CallsTyped, NEW c \in Calls, pc[c] = "flight",
         NEW status \in Failures, NEW hint, Fail(c, status, hint)
  PROVE  /\ \A d \in Calls \ {c} : pc'[d] = pc[d] /\ outcome'[d] = outcome[d]
         /\ IsWrite(c) =>
              \/ status = "429" /\ pc'[c] \in {"throttle", "asleep"} /\ outcome'[c] = outcome[c]
              \/ pc'[c] = "raised" /\ outcome'[c] = status
              \/ status = "429" /\ pc'[c] = "raised" /\ outcome'[c] \in BadDelays
<1>1. IsWrite(c) /\ Retries(c, status) => status = "429"
  BY DEF IsWrite, Retries, Policy!ShouldRetry, Policy!SafeMethods
<1>2. ASSUME NEW place \in {"throttle", "asleep"}, Retries(c, status),
             pc' = [pc EXCEPT ![c] = place], outcome' = outcome
      PROVE  /\ \A d \in Calls \ {c} : pc'[d] = pc[d] /\ outcome'[d] = outcome[d]
             /\ IsWrite(c) => status = "429" /\ pc'[c] = place /\ outcome'[c] = outcome[c]
  BY <1>1, <1>2 DEF CallsTyped
<1>3. ASSUME NEW exception, Escape(c, exception)
      PROVE  /\ \A d \in Calls \ {c} : pc'[d] = pc[d] /\ outcome'[d] = outcome[d]
             /\ pc'[c] = "raised" /\ outcome'[c] = exception
  BY <1>3 DEF Escape, CallsTyped
<1>4. ASSUME NEW exception \in BadDelays, Retries(c, status), Escape(c, exception)
      PROVE  /\ \A d \in Calls \ {c} : pc'[d] = pc[d] /\ outcome'[d] = outcome[d]
             /\ IsWrite(c) => status = "429" /\ pc'[c] = "raised" /\ outcome'[c] \in BadDelays
  BY <1>1, <1>3, <1>4
<1>5. ASSUME NEW d, Pause(c, d), Retries(c, status)
      PROVE  /\ \A e \in Calls \ {c} : pc'[e] = pc[e] /\ outcome'[e] = outcome[e]
             /\ IsWrite(c) =>
                  \/ status = "429" /\ pc'[c] \in {"throttle", "asleep"} /\ outcome'[c] = outcome[c]
                  \/ status = "429" /\ pc'[c] = "raised" /\ outcome'[c] \in BadDelays
  BY <1>2, <1>4, <1>5 DEF Pause, BadDelays
<1>6. CASE Retries(c, status) /\ Escape(c, "overflow")
  BY <1>4, <1>6 DEF BadDelays
<1>7. CASE Escape(c, status)
  BY <1>3, <1>7
<1> QED
  BY <1>5, <1>6, <1>7 DEF Fail

\* No write has been executed at the start, and nothing is claimed of one.
LEMMA InitSettles == Init => WritesSettled /\ Writing!Init
<1> SUFFICES ASSUME Init PROVE WritesSettled /\ Writing!Init
  OBVIOUS
<1>1. WireTyped /\ CallsTyped
  BY InitWireTyped, InitCounts DEF AttemptsCounted
<1>2. WritesTyped /\ \A c \in Calls : Settled(c) /\ Verdict(c) = "pending"
  BY DEF Init, WritesTyped, Settled, Verdict, Ended
<1> QED
  BY <1>1, <1>2 DEF WritesSettled, Writing!Init, Init

\* One case per action: every step keeps what is known of each write, and is a
\* step of Submission or a stutter.
LEMMA NextSubmits ==
  ASSUME ~ RetryUnsafe, WritesSettled, CallsTyped', [Next]_vars
  PROVE  WritesSettled' /\ [Writing!Next]_<<executed, Verdicts>>
<1> USE DEF given, callVars, serverVars
<1>0. WireTyped'
  BY NextWireTyped DEF WritesSettled
<1>1. ASSUME UNCHANGED <<pc, outcome, wire, stray, executed, endpoint>>
      PROVE  WritesSettled' /\ [Writing!Next]_<<executed, Verdicts>>
  <2>1. \A c \in Calls : Verdict(c)' = Verdict(c) /\ IsWrite(c)' = IsWrite(c)
    BY <1>1 DEF Verdict, IsWrite
  <2>2. WritesTyped' /\ Verdicts' = Verdicts
    BY <1>1, <2>1 DEF WritesSettled, WritesTyped, Verdicts
  <2>3. ASSUME NEW c \in Calls, IsWrite(c)
        PROVE  Settled(c)'
    BY <1>1, <2>1, <2>3 DEF WritesSettled, Settled, Ended
  <2> QED
    BY <1>0, <1>1, <2>1, <2>2, <2>3 DEF WritesSettled
\* Steps of the caller before its request is on the wire.
<1>2. ASSUME NEW c \in Calls, NEW place \in {"throttle", "reserving", "granted"},
             pc[c] \in {"idle", "throttle", "reserving"},
             pc' = [pc EXCEPT ![c] = place],
             UNCHANGED <<outcome, wire, stray, executed, endpoint>>
      PROVE  WritesSettled' /\ [Writing!Next]_<<executed, Verdicts>>
  <2>1. OthersKept(c) /\ WritesTyped'
    BY <1>2 DEF OthersKept, WritesSettled, WritesTyped, CallsTyped
  <2>2. IsWrite(c) => Settled(c)'
    BY <1>2 DEF WritesSettled, CallsTyped, Settled, Verdict, IsWrite, Ended
  <2>3. Submits(c)
    BY <1>2 DEF Submits, Verdict, IsWrite
  <2> QED
    BY <1>0, <1>2, <2>1, <2>2, <2>3, OneWriteSubmits
<1>3. ASSUME NEW c \in Calls, Call(c) \/ Enter(c) \/ Reserve(c)
      PROVE  WritesSettled' /\ [Writing!Next]_<<executed, Verdicts>>
  BY <1>2, <1>3 DEF Call, Enter, Reserve
<1>4. ASSUME NEW c \in Calls, RefuseToSign(c) \/ FindClosed(c)
      PROVE  WritesSettled' /\ [Writing!Next]_<<executed, Verdicts>>
  <2>1. /\ pc[c] = "granted" /\ (Escape(c, "credentials") \/ Escape(c, "closed"))
        /\ UNCHANGED <<wire, stray, executed, endpoint>>
    BY <1>4 DEF RefuseToSign, FindClosed
  <2>2. OthersKept(c) /\ WritesTyped'
    BY <2>1 DEF OthersKept, WritesSettled, WritesTyped, CallsTyped, Escape
  <2>3. pc'[c] = "raised" /\ outcome'[c] \in {"credentials", "closed"}
    BY <2>1 DEF WritesSettled, CallsTyped, Escape
  <2>4. IsWrite(c) => Settled(c)'
    BY <2>1, <2>3 DEF WritesSettled, Settled, Verdict, IsWrite, Ended
  <2>5. Submits(c)
    <3>1. Verdict(c) = "pending" /\ (IsWrite(c) => executed[c] = 0)
      BY <2>1, PendingUntilEnded DEF WritesSettled, Settled, Ended
    <3>2. IsWrite(c) => Verdict(c)' = "rejected"
      BY <2>1, <2>3 DEF Verdict, IsWrite
    <3> QED
      BY <2>1, <3>1, <3>2, ReadsSubmitNothing DEF Submits
  <2> QED
    BY <1>0, <2>1, <2>2, <2>4, <2>5, OneWriteSubmits
<1>5. ASSUME NEW c \in Calls, Send(c)
      PROVE  WritesSettled' /\ [Writing!Next]_<<executed, Verdicts>>
  <2>1. /\ pc[c] = "granted"
        /\ pc' = [pc EXCEPT ![c] = "flight"] /\ wire' = [wire EXCEPT ![c] = Travelling]
        /\ UNCHANGED <<outcome, stray, executed, endpoint>>
    BY <1>5 DEF Send
  <2>2. OthersKept(c) /\ WritesTyped'
    BY <2>1 DEF OthersKept, WritesSettled, WritesTyped, CallsTyped, WireTyped
  <2>3. pc'[c] = "flight" /\ wire'[c] = Travelling
    BY <2>1 DEF WritesSettled, CallsTyped, WireTyped
  <2>4. IsWrite(c) => Settled(c)'
    BY <2>1, <2>3 DEF WritesSettled, Settled, Verdict, IsWrite, Ended
  <2>5. Submits(c)
    BY <2>1 DEF Submits, Verdict, IsWrite
  <2> QED
    BY <1>0, <2>1, <2>2, <2>4, <2>5, OneWriteSubmits
\* The two ways a request ends.
<1>6. ASSUME NEW c \in Calls, Receive(c)
      PROVE  WritesSettled' /\ [Writing!Next]_<<executed, Verdicts>>
  <2>1. /\ pc[c] = "flight" /\ wire[c] \notin {Nothing, Travelling}
        /\ wire' = [wire EXCEPT ![c] = Nothing]
        /\ UNCHANGED <<stray, executed, endpoint>>
    BY <1>6 DEF Receive
  <2>2. WritesTyped' /\ wire'[c] = Nothing
    BY <2>1 DEF WritesSettled, WritesTyped, WireTyped
  <2>3. CASE wire[c].status = "200" /\ Succeed(c)
    <3>1. \/ pc'[c] = "returned" /\ outcome'[c] = "ok"
          \/ pc'[c] = "raised" /\ outcome'[c] = "malformed"
      BY <2>3 DEF Succeed, WritesSettled, CallsTyped
    <3>2. OthersKept(c)
      BY <2>1, <2>3 DEF Succeed, OthersKept, WritesSettled, WireTyped, CallsTyped
    <3>3. IsWrite(c) => executed[c] = 1 /\ stray[c] = 0
      BY <2>1, <2>3 DEF WritesSettled, Settled
    <3>4. IsWrite(c) => /\ outcome'[c] = "ok" => Verdict(c)' = "accepted"
                        /\ outcome'[c] = "malformed" => Verdict(c)' = "unknown"
      BY <2>1 DEF Verdict, IsWrite
    <3>5. IsWrite(c) => Settled(c)'
      BY <2>1, <2>2, <3>1, <3>3, <3>4 DEF Settled, Ended
    <3>6. Submits(c)
      <4>1. Verdict(c) = "pending"
        BY <2>1, PendingUntilEnded DEF Ended
      <4> QED
        BY <2>1, <3>1, <3>3, <3>4, <4>1, ReadsSubmitNothing DEF Submits
    <3> QED
      BY <1>0, <2>1, <2>2, <3>2, <3>5, <3>6, OneWriteSubmits
  <2>4. CASE wire[c].status # "200" /\ Fail(c, wire[c].status, wire[c].hint)
    <3>1. wire[c].status \in Failures
      BY <2>1, <2>4 DEF WritesSettled, WireTyped, Failures
    <3>2. OthersKept(c)
      BY <2>1, <2>4, <3>1, FailTells DEF OthersKept, WritesSettled, WireTyped
    <3>3. IsWrite(c) =>
            \/ /\ wire[c].status = "429"
               /\ pc'[c] \in {"throttle", "asleep"} /\ outcome'[c] = outcome[c]
            \/ pc'[c] = "raised" /\ outcome'[c] = wire[c].status
            \/ /\ wire[c].status = "429"
               /\ pc'[c] = "raised" /\ outcome'[c] \in BadDelays
      BY <2>1, <2>4, <3>1, FailTells DEF WritesSettled
    <3>4. IsWrite(c) => /\ stray[c] = 0
                        /\ wire[c].status \in {"400", "429"} => executed[c] = 0
                        /\ wire[c].status = "503" => executed[c] \in {0, 1}
                        /\ wire[c].status \in {"400", "429", "503"}
      BY <2>1, <2>4 DEF WritesSettled, Settled
    <3>5. outcome[c] = "pending" \/ ~ IsWrite(c)
      BY <2>1 DEF WritesSettled, Settled, Ended
    <3>6. IsWrite(c) =>
            /\ outcome'[c] \in {"400", "429"} \cup BadDelays => Verdict(c)' = "rejected"
            /\ outcome'[c] = "503" => Verdict(c)' = "unknown"
            /\ outcome'[c] = "pending" => Verdict(c)' = "pending"
      BY <2>1 DEF Verdict, IsWrite, BadDelays
    <3>7. IsWrite(c) => Settled(c)'
      <4>1. CASE /\ wire[c].status = "429"
                 /\ pc'[c] \in {"throttle", "asleep"} /\ outcome'[c] = outcome[c]
        BY <2>1, <2>2, <3>4, <3>5, <3>6, <4>1 DEF Settled, Ended
      <4>2. CASE pc'[c] = "raised" /\ outcome'[c] = wire[c].status
        <5>1. CASE wire[c].status \in {"400", "429"}
          BY <2>1, <2>2, <3>4, <3>6, <4>2, <5>1 DEF Settled, Ended
        <5>2. CASE wire[c].status = "503"
          BY <2>1, <2>2, <3>4, <3>6, <4>2, <5>2 DEF Settled, Ended
        <5> QED
          BY <3>4, <5>1, <5>2
      <4>3. CASE /\ wire[c].status = "429"
                 /\ pc'[c] = "raised" /\ outcome'[c] \in BadDelays
        BY <2>1, <2>2, <3>4, <3>6, <4>3 DEF Settled, Ended, BadDelays
      <4> QED
        BY <3>3, <4>1, <4>2, <4>3
    <3>8. Submits(c)
      <4>1. Verdict(c) = "pending"
        BY <2>1, PendingUntilEnded DEF Ended
      <4> QED
        BY <2>1, <3>3, <3>4, <3>5, <3>6, <4>1, ReadsSubmitNothing DEF Submits
    <3> QED
      BY <1>0, <2>1, <2>2, <3>2, <3>7, <3>8, OneWriteSubmits
  <2> QED
    BY <1>6, <2>3, <2>4 DEF Receive
<1>7. ASSUME NEW c \in Calls, TransportError(c)
      PROVE  WritesSettled' /\ [Writing!Next]_<<executed, Verdicts>>
  <2>1. /\ pc[c] = "flight" /\ Fail(c, Policy!NoStatus, None)
        /\ wire' = [wire EXCEPT ![c] = Nothing]
        /\ \/ stray' = stray
           \/ /\ wire[c] = Travelling /\ IsWrite(c)
              /\ stray' = [stray EXCEPT ![c] = @ + 1]
        /\ UNCHANGED <<executed, endpoint>>
    BY <1>7 DEF TransportError, Abandon
  <2>2. WritesTyped' /\ wire'[c] = Nothing
    BY <2>1 DEF WritesSettled, WritesTyped, WireTyped
  <2>3. Policy!NoStatus \in Failures /\ Policy!NoStatus = "none"
    BY DEF Failures, Policy!NoStatus
  <2>4. OthersKept(c)
    BY <2>1, <2>3, FailTells DEF OthersKept, WritesSettled, WireTyped, WritesTyped
  <2>5. IsWrite(c) => pc'[c] = "raised" /\ outcome'[c] = "none"
    BY <2>1, <2>3, FailTells DEF WritesSettled
  <2>6. IsWrite(c) => executed[c] + stray'[c] <= 1
    BY <2>1 DEF WritesSettled, Settled, WritesTyped, Travelling
  <2>7. IsWrite(c) => Settled(c)'
    BY <2>1, <2>2, <2>5, <2>6 DEF WritesSettled, Settled, Verdict, IsWrite, Ended
  <2>8. Submits(c)
    <3>1. Verdict(c) = "pending"
      BY <2>1, PendingUntilEnded DEF Ended
    <3>2. IsWrite(c) => Verdict(c)' = "unknown"
      BY <2>1, <2>5 DEF Verdict, IsWrite
    <3> QED
      BY <2>1, <3>1, <3>2, ReadsSubmitNothing DEF Submits
  <2> QED
    BY <1>0, <2>1, <2>2, <2>4, <2>7, <2>8, OneWriteSubmits
\* The exchange, before its answer and after the client has gone.
<1>8. ASSUME NEW c \in Calls, Accept(c) \/ Reject(c) \/ Break(c)
      PROVE  WritesSettled' /\ [Writing!Next]_<<executed, Verdicts>>
  <2>1. PICK answer :
          /\ wire[c] = Travelling /\ wire' = [wire EXCEPT ![c] = answer]
          /\ \/ answer.status = "200" /\ Act(c)
             \/ answer.status \in {"400", "429"} /\ executed' = executed
             \/ answer.status = "503" /\ (Act(c) \/ executed' = executed)
          /\ UNCHANGED <<pc, outcome, stray, endpoint>>
    BY <1>8 DEF Accept, Reject, Break, Reply, Answer
  <2>2. OthersKept(c) /\ WritesTyped' /\ wire'[c] = answer
    BY <2>1 DEF OthersKept, WritesSettled, WireTyped, WritesTyped, Act
  <2>3. IsWrite(c) => /\ pc[c] = "flight" /\ executed[c] = 0 /\ stray[c] = 0
                      /\ outcome[c] = "pending" /\ Verdict(c) = "pending"
    BY <2>1, PendingUntilEnded DEF WritesSettled, Settled, Ended, Travelling, Nothing
  <2>4. IsWrite(c) =>
          \/ answer.status = "200" /\ executed'[c] = 1
          \/ answer.status \in {"400", "429"} /\ executed'[c] = 0
          \/ answer.status = "503" /\ executed'[c] \in {0, 1}
    BY <2>1, <2>3 DEF Act, WritesSettled, WritesTyped
  <2>5. Verdict(c)' = Verdict(c)
    BY <2>1 DEF Verdict, IsWrite
  <2>6. IsWrite(c) => Settled(c)'
    BY <2>1, <2>2, <2>3, <2>4, <2>5 DEF Settled, Ended
  <2>7. Submits(c)
    <3>1. ~ IsWrite(c) => executed' = executed
      BY <2>1 DEF Act
    <3> QED
      BY <2>3, <2>4, <2>5, <3>1 DEF Submits
  <2> QED
    BY <1>0, <2>1, <2>2, <2>6, <2>7, OneWriteSubmits
<1>9. ASSUME NEW c \in Calls, StrayEnds(c)
      PROVE  WritesSettled' /\ [Writing!Next]_<<executed, Verdicts>>
  <2>1. /\ stray[c] > 0 /\ stray' = [stray EXCEPT ![c] = @ - 1]
        /\ Act(c) \/ executed' = executed
        /\ UNCHANGED <<pc, outcome, wire, endpoint>>
    BY <1>9 DEF StrayEnds
  <2>2. stray[c] \in Nat \ {0} /\ stray'[c] = stray[c] - 1
    BY <2>1 DEF WritesSettled, WritesTyped
  <2>3. OthersKept(c) /\ WritesTyped'
    BY <2>1, <2>2 DEF OthersKept, WritesSettled, WritesTyped, Act
  <2>4. IsWrite(c) => /\ pc[c] \in {"returned", "raised"} /\ outcome[c] # "pending"
                      /\ Verdict(c) = "unknown" /\ executed[c] = 0 /\ stray[c] = 1
                      /\ wire[c] = Nothing
    <3>1. IsWrite(c) => Ended(c) /\ Verdict(c) \notin {"accepted", "rejected"}
      BY <2>2 DEF WritesSettled, Settled, CallsTyped, Places, Ended
    <3>2. IsWrite(c) => Verdict(c) = "unknown"
      BY <3>1 DEF Verdict, WritesSettled, Settled
    <3> QED
      BY <2>2, <3>1, <3>2 DEF WritesSettled, WritesTyped, Settled, Ended
  <2>5. executed'[c] = executed[c] \/ (IsWrite(c) /\ executed'[c] = executed[c] + 1)
    BY <2>1 DEF Act, WritesSettled, WritesTyped
  <2>6. Verdict(c)' = Verdict(c)
    BY <2>1 DEF Verdict, IsWrite
  <2>7. IsWrite(c) => Settled(c)'
    BY <2>1, <2>2, <2>4, <2>5, <2>6 DEF Settled, Ended
  <2>8. Submits(c)
    BY <2>4, <2>5, <2>6 DEF Submits
  <2> QED
    BY <1>0, <2>1, <2>3, <2>7, <2>8, OneWriteSubmits
<1>10. CASE Close \/ Tick \/ Finished \/ UNCHANGED vars
  BY <1>1, <1>10 DEF Close, Tick, Finished, vars
<1> QED
  BY <1>3, <1>4, <1>5, <1>6, <1>7, <1>8, <1>9, <1>10 DEF Next, Client, Run, Exchange

\* WritesAreSubmissions: under the default policy the exchange acts on a write
\* at most once, and a caller who is told that it was accepted or rejected is
\* told the truth, for good (_engine.py:154-183).
THEOREM WritesAreOnlySubmitted ==
  ASSUME ~ RetryUnsafe
  PROVE  Spec => WritesAreSubmissions
<1>1. Init => AttemptsCounted /\ WritesSettled /\ Writing!Init
  BY InitCounts, InitSettles
<1>2. AttemptsCounted /\ WritesSettled /\ [Next]_vars
        => /\ AttemptsCounted' /\ WritesSettled'
           /\ [Writing!Next]_<<executed, [c \in Calls |-> Verdict(c)]>>
  <2> SUFFICES ASSUME AttemptsCounted, WritesSettled, [Next]_vars
               PROVE  /\ AttemptsCounted' /\ WritesSettled'
                      /\ [Writing!Next]_<<executed, [c \in Calls |-> Verdict(c)]>>
    OBVIOUS
  <2>1. AttemptsCounted'
    BY NextCounts
  <2> QED
    BY <2>1, NextSubmits DEF AttemptsCounted, Verdicts
<1> QED
  BY <1>1, <1>2, PTL DEF Spec, WritesAreSubmissions, Writing!Spec

\* What Submission means for the caller of a write, state by state.
HonestVerdicts ==
  /\ executed \in [Calls -> {0, 1}]
  /\ \A c \in Calls : /\ Verdict(c) = "accepted" => executed[c] = 1
                     /\ Verdict(c) = "rejected" => executed[c] = 0

\* Every step of Submission keeps that.
LEMMA SubmissionIsHonest ==
  /\ Writing!Init => HonestVerdicts
  /\ HonestVerdicts /\ [Writing!Next]_<<executed, [c \in Calls |-> Verdict(c)]>>
       => HonestVerdicts'
<1> DEFINE V == [c \in Calls |-> Verdict(c)]
           Honest == /\ executed \in [Calls -> {0, 1}]
                     /\ \A c \in Calls : /\ V[c] = "accepted" => executed[c] = 1
                                        /\ V[c] = "rejected" => executed[c] = 0
<1>1. (HonestVerdicts <=> Honest) /\ (HonestVerdicts' <=> Honest')
  BY DEF HonestVerdicts
<1>2. Writing!Init => Honest
  BY DEF Writing!Init
<1>3. V = [c \in Calls |-> V[c]]
  OBVIOUS
<1>4. ASSUME Honest, [Writing!Next]_<<executed, V>>
      PROVE  Honest'
  <2>1. CASE UNCHANGED <<executed, V>>
    <3> HIDE DEF V
    <3> QED
      BY <1>4, <2>1
  <2>2. ASSUME NEW d \in Calls, Writing!Execute(d)
        PROVE  Honest'
    <3>1. /\ executed' = [executed EXCEPT ![d] = 1] /\ V' = V
          /\ V[d] \in {"pending", "unknown"}
      BY <2>2 DEF Writing!Execute
    <3> HIDE DEF V
    <3> QED
      BY <1>4, <3>1
  <2>3. ASSUME NEW d \in Calls,
               Writing!Accept(d) \/ Writing!Reject(d) \/ Writing!GiveUp(d)
        PROVE  Honest'
    <3>1. PICK told : /\ V' = [V EXCEPT ![d] = told] /\ executed' = executed
                      /\ told = "accepted" => executed[d] = 1
                      /\ told = "rejected" => executed[d] = 0
      BY <2>3 DEF Writing!Accept, Writing!Reject, Writing!GiveUp, Writing!Tell
    <3> HIDE DEF V
    <3> QED
      BY <1>3, <1>4, <3>1
  <2> QED
    BY <1>4, <2>1, <2>2, <2>3 DEF Writing!Next
<1> QED
  BY <1>1, <1>2, <1>4

\* Under the default policy the exchange acts on a write at most once, whatever is
\* lost or late on the way; it has acted on a write reported as accepted and
\* not on one reported as rejected (_engine.py:154-183).
THEOREM WritesActOnce ==
  ASSUME ~ RetryUnsafe
  PROVE  Spec => []HonestVerdicts
<1>1. Spec => Writing!Spec
  BY WritesAreOnlySubmitted DEF WritesAreSubmissions
<1> QED
  BY <1>1, SubmissionIsHonest, PTL DEF Writing!Spec

-----------------------------------------------------------------------------
(* Types, and how long a caller sleeps *)

\* What the limiter holds while its callers use it.
LEMMA LockedLimiter ==
  LockInv => LimiterFacts!IInv /\ Limiter!TypeOK /\ now \in Nat /\ Period \in Nat
<1>1. LockInv => LimiterFacts!IInv
  BY DEF LockInv, LimiterFacts!IInv
<1>2. LimiterFacts!IInv => LimiterFacts!TypeOK
  BY LimiterAssumption, LimiterFacts!InvariantMeans
<1>3. LimiterFacts!IInv => now \in Nat /\ Period \in Nat
  BY LimiterAssumption DEF LimiterFacts!IInv, LimiterFacts!IInvAt, Limiter!BudgetAssumption
<1> QED
  BY <1>1, <1>2, <1>3, SameLimiter

\* What the holder of the lock is told to wait for a slot.
LEMMA WaitsBounded ==
  ASSUME LockInv, NEW c \in Calls, pc[c] = "reserving"
  PROVE  Limiter!Wait(IsOrder(c), reading[c]) \in Nat
         /\ Limiter!Wait(IsOrder(c), reading[c]) <= Period
<1>1. IsOrder(c) \in BOOLEAN /\ reading[c] \in Nat /\ LimiterFacts!IInvAt(reading[c])
  BY DEF IsOrder, LockInv, Holds
<1> QED
  BY <1>1, LimiterAssumption, LimiterFacts!WaitsAtMostAPeriod, SameLimiter

\* The hint of the server and the backoff, where they are numbers, are not
\* negative, and a numeric max_backoff caps both.
LEMMA DelaysBounded ==
  ASSUME NEW n \in Nat \ {0}, NEW hint \in Hints, NEW d \in Policy!Delays(n, hint),
         d \in Int
  PROVE  d \in Nat /\ (MaxBackoff \in Int => d <= MaxBackoff)
<1> USE DEF Policy!Smaller, Policy!Larger, Policy!Less
<1>0. /\ NaN \notin Int /\ Infinity \notin Int \cup {NaN} /\ None \notin Policy!Float
      /\ MaxBackoff \in Policy!Float /\ ~ Policy!Less(MaxBackoff, 0)
      /\ Backoff \in Policy!Float /\ ~ Policy!Less(Backoff, 0)
  BY LoopAssumption DEF Policy!FloatAssumption, Policy!PolicyAssumption
<1>1. MaxBackoff \in Nat \cup {NaN, Infinity} /\ Backoff \in Nat \cup {NaN, Infinity}
  <2>1. \A x \in Int : ~ Policy!Less(x, 0) => x \in Nat
    BY <1>0
  <2> QED
    BY <1>0, <2>1 DEF Policy!Float
<1>2. CASE hint # None
  <2> DEFINE asked == Policy!Larger(hint, 0)
  <2>1. d = Policy!Smaller(asked, MaxBackoff)
    BY <1>2 DEF Policy!Delays
  <2>2. asked \in Nat \cup {NaN, Infinity}
    BY <1>0, <1>2 DEF Hints, Policy!Float
  <2> HIDE DEF asked
  <2> QED
    BY <1>0, <1>1, <2>1, <2>2
<1>3. CASE hint = None
  <2> DEFINE scaled == Policy!Scaled(n)
             base == Policy!Smaller(scaled, MaxBackoff)
  <2>1. scaled \in Nat \cup {NaN, Infinity}
    <3>1. Backoff \in Nat => Backoff * 2 ^ (n - 1) \in Nat
      BY PowersOfTwo
    <3> QED
      BY <1>0, <1>1, <3>1 DEF Policy!Scaled
  <2>2. d \in Policy!Jittered(base)
    BY <1>3 DEF Policy!Delays
  <2> HIDE DEF scaled
  <2>3. base \in Nat \cup {NaN, Infinity} /\ (base \in Int /\ MaxBackoff \in Int => base <= MaxBackoff)
    BY <1>0, <1>1, <2>1
  <2> HIDE DEF base
  <2>4. base \in Nat /\ d \in 0 .. base
    BY <1>0, <2>2, <2>3 DEF Policy!Jittered
  <2> QED
    BY <1>1, <2>3, <2>4
<1> QED
  BY <1>2, <1>3

SettingsTyped ==
  /\ keyed \in BOOLEAN
  /\ http \in {"open", "closed"} /\ (http = "closed" => OwnsHttp)
  /\ endpoint \in [Calls -> Endpoint]

\* A request or an answer on the wire belongs to a caller that waits on it,
\* and the numbers of answers are those given out so far.
AnswersTyped ==
  /\ answered \in Nat /\ rateLimit \in 0 .. answered /\ newest \in 0 .. answered
  /\ \A c \in Calls :
       /\ wire[c] # Nothing => pc[c] = "flight"
       /\ wire[c] \notin {Nothing, Travelling} =>
            wire[c].number \in 0 .. answered

\* max_backoff or one period of the limiter, whichever is longer.
Longest == IF Policy!Less(MaxBackoff, Period) THEN Period ELSE MaxBackoff

\* Where max_backoff is a number it bounds every sleep between attempts.
SleepsTyped ==
  /\ wake \in [Calls -> Nat]
  /\ MaxBackoff \in Int =>
       \A c \in Calls : /\ pc[c] # "asleep"
                        /\ pc[c] = "throttle" => wake[c] <= now + Longest

Typed ==
  /\ LockInv /\ AttemptsCounted
  /\ SettingsTyped /\ AnswersTyped /\ SleepsTyped /\ WritesTyped

\* Longest is then a number of ticks that bounds both kinds of sleep.
LEMMA LongestIsLongest ==
  ASSUME MaxBackoff \in Int
  PROVE  Longest \in Nat /\ MaxBackoff <= Longest /\ Period <= Longest
<1>1. /\ MaxBackoff \in Int /\ ~ Policy!Less(MaxBackoff, 0) /\ Period \in Nat
      /\ NaN \notin Int /\ Infinity \notin Int
  BY LoopAssumption, LimiterAssumption
     DEF Policy!PolicyAssumption, Policy!FloatAssumption, Limiter!BudgetAssumption
<1> QED
  BY <1>1 DEF Longest, Policy!Less

\* The initial states satisfy Typed.
LEMMA InitTyped == Init => Typed
<1> SUFFICES ASSUME Init PROVE Typed
  OBVIOUS
<1>1. LockInv /\ AttemptsCounted /\ now \in Nat
  BY InitLock, InitCounts, LockedLimiter
<1>2. SettingsTyped /\ WritesTyped
  BY LoopAssumption DEF Init, SettingsTyped, WritesTyped
<1>3. AnswersTyped
  BY DEF Init, AnswersTyped
<1>4. SleepsTyped
  BY <1>1, LongestIsLongest DEF Init, SleepsTyped
<1> QED
  BY <1>1, <1>2, <1>3, <1>4 DEF Typed

\* What the client was given stays, and only close() touches the pool.
LEMMA SettingsStep == SettingsTyped /\ [Next]_vars => SettingsTyped'
<1> SUFFICES ASSUME SettingsTyped, [Next]_vars PROVE SettingsTyped'
  OBVIOUS
<1> USE DEF given
<1>1. UNCHANGED <<given, http>> => SettingsTyped'
  BY DEF SettingsTyped
<1>2. CASE Close
  BY <1>2, LoopAssumption DEF Close, SettingsTyped
<1>3. ASSUME NEW c \in Calls, Client(c) \/ Exchange(c)
      PROVE  UNCHANGED <<given, http>>
  BY <1>3 DEF Client, Run, Exchange, Call, Enter, Reserve, RefuseToSign, FindClosed, Send,
              Receive, TransportError, Accept, Reject, Break, Reply, StrayEnds
<1>4. CASE Tick \/ Finished \/ UNCHANGED vars
  BY <1>1, <1>4 DEF Tick, Finished, vars
<1> QED
  BY <1>1, <1>2, <1>3, <1>4 DEF Next

\* Executions and copies under way are counted in whole numbers.
LEMMA WritesTypedStep == WritesTyped /\ [Next]_vars => WritesTyped'
<1> SUFFICES ASSUME WritesTyped, [Next]_vars PROVE WritesTyped'
  OBVIOUS
<1> USE DEF serverVars
<1>1. UNCHANGED <<executed, stray>> => WritesTyped'
  BY DEF WritesTyped
<1>2. ASSUME NEW c \in Calls, Act(c) \/ executed' = executed, stray' = stray
      PROVE  WritesTyped'
  BY <1>2 DEF Act, WritesTyped
<1>3. ASSUME NEW c \in Calls, StrayEnds(c)
      PROVE  WritesTyped'
  <2>1. stray[c] \in Nat \ {0} /\ stray' = [stray EXCEPT ![c] = @ - 1]
        /\ (Act(c) \/ executed' = executed)
    BY <1>3 DEF StrayEnds, WritesTyped
  <2> QED
    BY <2>1 DEF Act, WritesTyped
<1>4. ASSUME NEW c \in Calls, Accept(c) \/ Reject(c) \/ Break(c)
      PROVE  WritesTyped'
  <2>1. stray' = stray /\ (Act(c) \/ executed' = executed)
    BY <1>4 DEF Accept, Reject, Break, Reply
  <2> QED
    BY <1>2, <2>1
<1>5. ASSUME NEW c \in Calls, TransportError(c)
      PROVE  WritesTyped'
  BY <1>5 DEF TransportError, Abandon, WritesTyped
<1>6. ASSUME NEW c \in Calls, Client(c), ~ TransportError(c)
      PROVE  UNCHANGED <<executed, stray>>
  BY <1>6 DEF Client, Run, Call, Enter, Reserve, RefuseToSign, FindClosed, Send, Receive
<1>7. CASE Close \/ Tick \/ Finished \/ UNCHANGED vars
  BY <1>1, <1>7 DEF Close, Tick, Finished, vars
<1> QED
  BY <1>1, <1>3, <1>4, <1>5, <1>6, <1>7 DEF Next, Exchange

\* What is on the wire, and the numbers of answers.
LEMMA AnswersStep ==
  ASSUME AnswersTyped, WireTyped, CallsTyped, [Next]_vars
  PROVE  AnswersTyped'
<1> USE DEF observed, serverVars, callVars
<1>1. ASSUME UNCHANGED <<answered, observed, wire>>,
             \A c \in Calls : pc[c] = "flight" => pc'[c] = "flight"
      PROVE  AnswersTyped'
  BY <1>1 DEF AnswersTyped
<1>2. ASSUME NEW c \in Calls,
             Call(c) \/ Enter(c) \/ Reserve(c) \/ RefuseToSign(c) \/ FindClosed(c)
      PROVE  AnswersTyped'
  <2>1. pc[c] # "flight" /\ UNCHANGED <<answered, observed, wire>>
    BY <1>2 DEF Call, Enter, Reserve, RefuseToSign, FindClosed
  <2>2. \A d \in Calls \ {c} : pc'[d] = pc[d]
    BY <1>2 DEF Call, Enter, Reserve, RefuseToSign, FindClosed, Escape, CallsTyped
  <2> QED
    BY <1>1, <2>1, <2>2
<1>3. ASSUME NEW c \in Calls, Send(c)
      PROVE  AnswersTyped'
  <2>1. /\ pc'[c] = "flight" /\ wire'[c] = Travelling
        /\ \A d \in Calls \ {c} : pc'[d] = pc[d] /\ wire'[d] = wire[d]
        /\ UNCHANGED <<answered, observed>>
    BY <1>3 DEF Send, CallsTyped, WireTyped
  <2> QED
    BY <2>1 DEF AnswersTyped
\* The two ways a request ends leave the wire of this caller empty.
<1>4. ASSUME NEW c \in Calls, Receive(c) \/ TransportError(c)
      PROVE  AnswersTyped'
  <2>1. wire' = [wire EXCEPT ![c] = Nothing] /\ answered' = answered
    BY <1>4 DEF Receive, TransportError, Abandon
  <2>2. \A d \in Calls \ {c} : pc'[d] = pc[d]
    BY <1>4 DEF Receive, TransportError, Fail, Pause, Escape, Succeed, CallsTyped
  <2>3. rateLimit' \in 0 .. answered /\ newest' \in 0 .. answered
    <3>1. CASE Receive(c)
      <4>1. wire[c].number \in 0 .. answered /\ Observe(wire[c].number)
        BY <3>1 DEF Receive, AnswersTyped
      <4> QED
        BY <4>1 DEF Observe, AnswersTyped
    <3>2. CASE TransportError(c)
      BY <3>2 DEF TransportError, AnswersTyped
    <3> QED
      BY <1>4, <3>1, <3>2
  <2>4. wire'[c] = Nothing /\ \A d \in Calls \ {c} : wire'[d] = wire[d]
    BY <2>1 DEF WireTyped
  <2> QED
    BY <2>1, <2>2, <2>3, <2>4 DEF AnswersTyped
\* An answer arrives, and may be given the next number.
<1>5. ASSUME NEW c \in Calls, NEW status, NEW usable, Reply(c, status, usable)
      PROVE  AnswersTyped'
  <2>1. PICK headers \in Headers :
          LET number == IF Response!HasCounters(headers) THEN answered + 1 ELSE 0
          IN  /\ wire' = [wire EXCEPT ![c] =
                   Answer(status, usable, Response!DelayHint(status, headers), number)]
              /\ answered' = IF number = 0 THEN answered ELSE number
    BY <1>5 DEF Reply
  <2> DEFINE number == IF Response!HasCounters(headers) THEN answered + 1 ELSE 0
             answer == Answer(status, usable, Response!DelayHint(status, headers), number)
  <2>2. /\ answered \in Nat /\ answered' \in Nat /\ answered <= answered'
        /\ number \in 0 .. answered'
    BY <2>1 DEF AnswersTyped
  <2>3. answer.number = number
    BY DEF Answer
  <2>4. wire' = [wire EXCEPT ![c] = answer]
    BY <2>1
  <2> HIDE DEF number, answer
  <2>5. wire'[c] = answer /\ \A d \in Calls \ {c} : wire'[d] = wire[d]
    BY <2>4 DEF WireTyped
  <2>6. wire[c] # Nothing /\ UNCHANGED <<pc, observed>>
    BY <1>5 DEF Reply, Travelling, Nothing
  <2> QED
    BY <2>2, <2>3, <2>5, <2>6 DEF AnswersTyped
<1>6. ASSUME NEW c \in Calls, Accept(c) \/ Reject(c) \/ Break(c)
      PROVE  AnswersTyped'
  BY <1>5, <1>6 DEF Accept, Reject, Break
<1>7. ASSUME NEW c \in Calls, StrayEnds(c)
      PROVE  AnswersTyped'
  BY <1>1, <1>7 DEF StrayEnds
<1>8. CASE Close \/ Tick \/ Finished \/ UNCHANGED vars
  BY <1>1, <1>8 DEF Close, Tick, Finished, vars
<1> QED
  BY <1>2, <1>3, <1>4, <1>6, <1>7, <1>8 DEF Next, Client, Run, Exchange

\* Every sleep is one that the limiter or the policy asked for.
LEMMA SleepsStep ==
  ASSUME Typed, [Next]_vars
  PROVE  SleepsTyped'
<1> USE DEF callVars, limiterVars, Typed
<1>0. /\ now \in Nat /\ Period \in Nat
      /\ MaxBackoff \in Int =>
           Longest \in Nat /\ MaxBackoff <= Longest /\ Period <= Longest
  BY LongestIsLongest, LockedLimiter
<1>1. ASSUME NEW c \in Calls, NEW delay \in Nat, MaxBackoff \in Int => delay <= Longest,
             now' = now, wake' = [wake EXCEPT ![c] = now + delay],
             \A e \in Calls \ {c} : pc'[e] = pc[e], pc'[c] = "throttle"
      PROVE  SleepsTyped'
  <2>1. now + delay \in Nat /\ (MaxBackoff \in Int => now + delay <= now + Longest)
    BY <1>0, <1>1
  <2> QED
    BY <1>1, <2>1 DEF SleepsTyped
<1>2. ASSUME wake' = wake, now' = now,
             \A c \in Calls : pc'[c] \in {"throttle", "asleep"} => pc'[c] = pc[c]
      PROVE  SleepsTyped'
  BY <1>2 DEF SleepsTyped
<1>3. ASSUME NEW c \in Calls, Call(c)
      PROVE  SleepsTyped'
  <2>1. /\ wake' = [wake EXCEPT ![c] = now + 0] /\ now' = now
        /\ \A e \in Calls \ {c} : pc'[e] = pc[e]
        /\ pc'[c] = "throttle"
    BY <1>0, <1>3 DEF Call, AttemptsCounted, CallsTyped
  <2>2. 0 \in Nat /\ (MaxBackoff \in Int => 0 <= Longest)
    BY <1>0
  <2> QED
    BY <1>1, <2>1, <2>2
<1>4. ASSUME NEW c \in Calls, Enter(c)
      PROVE  SleepsTyped'
  BY <1>2, <1>4 DEF Enter, AttemptsCounted, CallsTyped
<1>5. ASSUME NEW c \in Calls, Reserve(c)
      PROVE  SleepsTyped'
  <2>1. now' = now /\ pc[c] = "reserving"
    BY <1>5 DEF Reserve, Limiter!Take, Limiter!Refuse
  <2>2. CASE wake' = wake /\ pc' = [pc EXCEPT ![c] = "granted"]
    BY <1>2, <2>1, <2>2 DEF AttemptsCounted, CallsTyped
  <2>3. CASE /\ wake' = [wake EXCEPT ![c] = now + Limiter!Wait(IsOrder(c), reading[c])]
             /\ pc' = [pc EXCEPT ![c] = "throttle"]
    <3>1. /\ Limiter!Wait(IsOrder(c), reading[c]) \in Nat
          /\ MaxBackoff \in Int => Limiter!Wait(IsOrder(c), reading[c]) <= Longest
      BY <1>0, <2>1, WaitsBounded
    <3>2. pc'[c] = "throttle" /\ \A e \in Calls \ {c} : pc'[e] = pc[e]
      BY <2>3 DEF AttemptsCounted, CallsTyped
    <3> QED
      BY <1>1, <2>1, <2>3, <3>1, <3>2
  <2> QED
    BY <1>5, <2>2, <2>3 DEF Reserve
<1>6. ASSUME NEW c \in Calls, NEW exception, Escape(c, exception), now' = now
      PROVE  SleepsTyped'
  BY <1>2, <1>6 DEF Escape, AttemptsCounted, CallsTyped
<1>7. ASSUME NEW c \in Calls, RefuseToSign(c) \/ FindClosed(c)
      PROVE  SleepsTyped'
  BY <1>6, <1>7 DEF RefuseToSign, FindClosed
<1>8. ASSUME NEW c \in Calls, Send(c)
      PROVE  SleepsTyped'
  BY <1>2, <1>8 DEF Send, AttemptsCounted, CallsTyped
<1>9. ASSUME NEW c \in Calls, NEW status, NEW hint \in Hints, Fail(c, status, hint),
             now' = now
      PROVE  SleepsTyped'
  <2>1. ASSUME NEW d \in Policy!Delays(attempt[c], hint), Pause(c, d)
        PROVE  SleepsTyped'
    <3>0. attempt[c] \in Nat \ {0}
      BY DEF AttemptsCounted, CallsTyped, Counted
    <3>1. CASE /\ d \in Int /\ wake' = [wake EXCEPT ![c] = now + d]
               /\ pc' = [pc EXCEPT ![c] = "throttle"]
      <4>1. d \in Nat /\ (MaxBackoff \in Int => d <= MaxBackoff)
        BY <3>0, <3>1, DelaysBounded
      <4>2. MaxBackoff \in Int => d <= Longest
        BY <1>0, <4>1
      <4>3. pc'[c] = "throttle" /\ \A e \in Calls \ {c} : pc'[e] = pc[e]
        BY <3>1 DEF AttemptsCounted, CallsTyped
      <4> QED
        BY <1>1, <1>9, <3>1, <4>1, <4>2, <4>3
    <3>2. CASE d = Infinity /\ pc' = [pc EXCEPT ![c] = "asleep"] /\ wake' = wake
      <4>1. MaxBackoff \notin Int
        BY <3>0, <3>2, OddDelays
      <4> QED
        BY <3>2, <4>1 DEF SleepsTyped
    <3> QED
      BY <1>6, <1>9, <2>1, <3>1, <3>2 DEF Pause
  <2> QED
    BY <1>6, <1>9, <2>1 DEF Fail
<1>10. ASSUME NEW c \in Calls, Receive(c)
       PROVE  SleepsTyped'
  <2>1. now' = now
    BY <1>10 DEF Receive
  <2>2. CASE Succeed(c)
    <3>1. wake' = wake /\ pc' = [pc EXCEPT ![c] = IF wire[c].usable THEN "returned" ELSE "raised"]
      BY <2>2 DEF Succeed
    <3> QED
      BY <1>2, <2>1, <3>1 DEF AttemptsCounted, CallsTyped
  <2>3. CASE Fail(c, wire[c].status, wire[c].hint)
    <3>1. wire[c].hint \in Hints
      BY <1>10 DEF Receive, AttemptsCounted, WireTyped
    <3> QED
      BY <1>9, <2>1, <2>3, <3>1
  <2> QED
    BY <1>10, <2>2, <2>3 DEF Receive
<1>11. ASSUME NEW c \in Calls, TransportError(c)
       PROVE  SleepsTyped'
  <2>1. None \in Hints
    BY LoopAssumption DEF Hints, Policy!FloatAssumption, Policy!Float
  <2> QED
    BY <1>9, <1>11, <2>1 DEF TransportError
<1>12. ASSUME NEW c \in Calls, Exchange(c)
       PROVE  SleepsTyped'
  BY <1>2, <1>12 DEF Exchange, Accept, Reject, Break, Reply, StrayEnds
<1>13. CASE Tick
  <2>1. now' = now + 1 /\ UNCHANGED <<pc, wake>>
    BY <1>13 DEF Tick, Limiter!Tick
  <2> QED
    BY <1>0, <2>1 DEF SleepsTyped
<1>14. CASE Close \/ Finished \/ UNCHANGED vars
  BY <1>2, <1>14 DEF Close, Finished, vars
<1> QED
  BY <1>3, <1>4, <1>5, <1>7, <1>8, <1>10, <1>11, <1>12, <1>13, <1>14
     DEF Next, Client, Run

\* Every step keeps Typed.
LEMMA TypedStep == Typed /\ [Next]_vars => Typed'
<1> SUFFICES ASSUME Typed, [Next]_vars PROVE Typed'
  OBVIOUS
<1>1. LockInv' /\ AttemptsCounted'
  BY LockStep, NextCounts DEF Typed
<1>2. SettingsTyped' /\ WritesTyped' /\ SleepsTyped'
  BY SettingsStep, WritesTypedStep, SleepsStep DEF Typed
<1>3. AnswersTyped'
  BY AnswersStep DEF Typed, AttemptsCounted
<1> QED
  BY <1>1, <1>2, <1>3 DEF Typed

-----------------------------------------------------------------------------
(* Slots and requests *)

\* A call that has not ended has no outcome yet.
Undecided == \A c \in Calls : ~ Ended(c) => outcome[c] = "pending"

\* The callers whose requests count against budget w.
Users(w) == {c \in Calls : w \in Limiter!Budget!Drawn(IsOrder(c))}

\* The three kinds of steps that matter to slots and requests, and the rest.
Granted(c) ==
  /\ pc[c] = "reserving" /\ Limiter!Take(IsOrder(c), reading[c])
  /\ pc' = [pc EXCEPT ![c] = "granted"]
  /\ UNCHANGED <<sends, recent, outcome, endpoint>>

Quiet ==
  /\ UNCHANGED <<now, log, sends, recent, endpoint>>
  /\ \A c \in Calls : /\ Slots(c)' = Slots(c)
                      /\ pc'[c] = "granted" => pc[c] = "granted"
                      /\ pc'[c] = "reserving" =>
                           \/ pc[c] = "reserving" /\ reading'[c] = reading[c]
                           \/ reading'[c] = now

KindOfStep == Quiet \/ Tick \/ \E c \in Calls : Granted(c) \/ Send(c)

\* An outcome is only ever set by the step that ends the call.
LEMMA UndecidedStep ==
  ASSUME Undecided, WireTyped, CallsTyped, [Next]_vars
  PROVE  Undecided'
<1> USE DEF callVars
<1>1. ASSUME NEW c \in Calls, ~ Ended(c)' => outcome'[c] = "pending",
             \A d \in Calls \ {c} : pc'[d] = pc[d] /\ outcome'[d] = outcome[d]
      PROVE  Undecided'
  BY <1>1 DEF Undecided, Ended
<1>2. UNCHANGED <<pc, outcome>> => Undecided'
  BY DEF Undecided, Ended
<1>3. ASSUME NEW c \in Calls, Call(c) \/ Enter(c) \/ Reserve(c) \/ Send(c)
      PROVE  Undecided'
  <2>1. /\ outcome' = outcome /\ ~ Ended(c)
        /\ \A d \in Calls \ {c} : pc'[d] = pc[d] /\ outcome'[d] = outcome[d]
    BY <1>3 DEF Call, Enter, Reserve, Send, CallsTyped, Ended
  <2>2. outcome'[c] = "pending"
    BY <2>1 DEF Undecided
  <2> QED
    BY <1>1, <2>1, <2>2
<1>4. ASSUME NEW c \in Calls, NEW exception, Escape(c, exception)
      PROVE  Undecided'
  <2>1. /\ pc'[c] = "raised"
        /\ \A d \in Calls \ {c} : pc'[d] = pc[d] /\ outcome'[d] = outcome[d]
    BY <1>4 DEF Escape, CallsTyped
  <2> QED
    BY <1>1, <2>1 DEF Ended
<1>5. ASSUME NEW c \in Calls, RefuseToSign(c) \/ FindClosed(c)
      PROVE  Undecided'
  BY <1>4, <1>5 DEF RefuseToSign, FindClosed
<1>6. ASSUME NEW c \in Calls, NEW status, NEW hint, pc[c] = "flight", Fail(c, status, hint)
      PROVE  Undecided'
  <2>1. ASSUME NEW place \in {"throttle", "asleep"}, outcome' = outcome,
               pc' = [pc EXCEPT ![c] = place]
        PROVE  Undecided'
    <3>1. ~ Ended(c) /\ \A d \in Calls \ {c} : pc'[d] = pc[d] /\ outcome'[d] = outcome[d]
      BY <1>6, <2>1 DEF CallsTyped, Ended
    <3>2. outcome'[c] = "pending"
      BY <2>1, <3>1 DEF Undecided
    <3> QED
      BY <1>1, <3>1, <3>2
  <2> QED
    BY <1>4, <1>6, <2>1 DEF Fail, Pause
<1>7. ASSUME NEW c \in Calls, Receive(c) \/ TransportError(c)
      PROVE  Undecided'
  <2>1. CASE Succeed(c)
    <3>1. /\ Ended(c)'
          /\ \A d \in Calls \ {c} : pc'[d] = pc[d] /\ outcome'[d] = outcome[d]
      BY <2>1 DEF Succeed, CallsTyped, Ended
    <3> QED
      BY <1>1, <3>1
  <2> QED
    BY <1>6, <1>7, <2>1 DEF Receive, TransportError
<1>8. ASSUME NEW c \in Calls, Exchange(c)
      PROVE  Undecided'
  BY <1>2, <1>8 DEF Exchange, Accept, Reject, Break, Reply, StrayEnds
<1>9. CASE Close \/ Tick \/ Finished \/ UNCHANGED vars
  BY <1>2, <1>9 DEF Close, Tick, Finished, vars
<1> QED
  BY <1>3, <1>5, <1>7, <1>8, <1>9 DEF Next, Client, Run

\* An exception out of the loop, or the end of an attempt, moves no slot.
LEMMA QuietEnd ==
  ASSUME CallsTyped, Undecided, NEW c \in Calls,
         UNCHANGED <<now, log, sends, recent, endpoint>>,
         pc[c] \notin {"returned", "raised"}, pc'[c] # "granted",
         pc'[c] = "reserving" => reading'[c] = now,
         \A d \in Calls \ {c} : reading'[d] = reading[d],
         \A d \in Calls \ {c} : pc'[d] = pc[d] /\ outcome'[d] = outcome[d],
         (pc[c] = "granted") <=> (outcome'[c] \in {"credentials", "closed"})
  PROVE  Quiet
<1>1. outcome[c] = "pending"
  BY DEF Undecided, Ended
<1>2. Slots(c)' = Slots(c)
  BY <1>1 DEF Slots
<1>3. \A d \in Calls \ {c} : Slots(d)' = Slots(d)
  BY DEF Slots
<1> QED
  BY <1>2, <1>3 DEF Quiet

\* Every step of the loop is of one of these kinds.
LEMMA KindsOfSteps ==
  ASSUME WireTyped, CallsTyped, Undecided, LockInv, [Next]_vars
  PROVE  KindOfStep
<1> USE DEF limiterVars, given, callVars, sendVars
<1>1. UNCHANGED <<now, log, sends, recent, endpoint, pc, reading, outcome>> => Quiet
  BY DEF Quiet, Slots
<1>2. ASSUME NEW c \in Calls, Call(c) \/ Enter(c)
      PROVE  Quiet
  <2>1. /\ pc[c] \in {"idle", "throttle"} /\ pc'[c] \in {"throttle", "reserving"}
        /\ outcome' = outcome
        /\ UNCHANGED <<now, log, sends, recent, endpoint>>
        /\ \A d \in Calls \ {c} : pc'[d] = pc[d] /\ reading'[d] = reading[d]
        /\ pc'[c] = "reserving" => reading'[c] = now
    BY <1>2 DEF Call, Enter, CallsTyped, LockInv
  <2>2. outcome[c] = "pending"
    BY <2>1 DEF Undecided, Ended
  <2> QED
    BY <2>1, <2>2, QuietEnd
<1>3. ASSUME NEW c \in Calls, Reserve(c)
      PROVE  Quiet \/ Granted(c)
  <2>1. /\ pc[c] = "reserving" /\ UNCHANGED <<sends, recent, outcome, endpoint>>
        /\ \A d \in Calls \ {c} : reading'[d] = reading[d]
    BY <1>3 DEF Reserve, LockInv
  <2>2. CASE Limiter!Take(IsOrder(c), reading[c]) /\ pc' = [pc EXCEPT ![c] = "granted"]
    BY <2>1, <2>2 DEF Granted
  <2>3. CASE /\ Limiter!Refuse(IsOrder(c), reading[c])
             /\ pc' = [pc EXCEPT ![c] = "throttle"]
    <3>1. /\ pc'[c] = "throttle" /\ \A d \in Calls \ {c} : pc'[d] = pc[d]
          /\ UNCHANGED <<now, log>> /\ outcome[c] = "pending"
      BY <2>1, <2>3 DEF Limiter!Refuse, CallsTyped, Undecided, Ended
    <3> QED
      BY <2>1, <3>1, QuietEnd
  <2> QED
    BY <1>3, <2>2, <2>3 DEF Reserve
<1>4. ASSUME NEW c \in Calls, RefuseToSign(c) \/ FindClosed(c)
      PROVE  Quiet
  <2>1. /\ pc[c] = "granted" /\ UNCHANGED <<now, log, sends, recent, endpoint, reading>>
        /\ Escape(c, "credentials") \/ Escape(c, "closed")
    BY <1>4 DEF RefuseToSign, FindClosed, Escape
  <2>2. /\ pc'[c] = "raised" /\ outcome'[c] \in {"credentials", "closed"}
        /\ \A d \in Calls \ {c} : pc'[d] = pc[d] /\ outcome'[d] = outcome[d]
    BY <2>1 DEF Escape, CallsTyped
  <2> QED
    BY <2>1, <2>2, QuietEnd
<1>5. ASSUME NEW c \in Calls, NEW status \in Failures, NEW hint, pc[c] = "flight",
             Fail(c, status, hint), UNCHANGED <<now, log, sends, recent, endpoint>>
      PROVE  Quiet
  <2>1. /\ pc'[c] \in {"throttle", "asleep", "raised"} /\ reading' = reading
        /\ \A d \in Calls \ {c} : pc'[d] = pc[d] /\ outcome'[d] = outcome[d]
    BY <1>5 DEF Fail, Pause, Escape, CallsTyped
  <2>2. outcome'[c] \in {outcome[c], status} \cup BadDelays
    BY <1>5 DEF Fail, Pause, Escape, CallsTyped, BadDelays
  <2>3. outcome'[c] \notin {"credentials", "closed"}
    BY <1>5, <2>2
       DEF Undecided, Ended, Failures, BadDelays, Policy!Status, Policy!NoStatus
  <2> QED
    BY <1>5, <2>1, <2>3, QuietEnd
<1>6. ASSUME NEW c \in Calls, Receive(c)
      PROVE  Quiet
  <2>1. pc[c] = "flight" /\ UNCHANGED <<now, log, sends, recent, endpoint>>
    BY <1>6 DEF Receive
  <2>2. CASE Succeed(c)
    <3>1. /\ pc'[c] \in {"returned", "raised"} /\ outcome'[c] \in {"ok", "malformed"}
          /\ reading' = reading
          /\ \A d \in Calls \ {c} : pc'[d] = pc[d] /\ outcome'[d] = outcome[d]
      BY <2>2 DEF Succeed, CallsTyped
    <3> QED
      BY <2>1, <3>1, QuietEnd
  <2>3. CASE wire[c].status # "200" /\ Fail(c, wire[c].status, wire[c].hint)
    <3>1. wire[c].status \in Failures
      BY <1>6, <2>3 DEF Receive, WireTyped, Failures
    <3> QED
      BY <1>5, <2>1, <2>3, <3>1
  <2> QED
    BY <1>6, <2>2, <2>3 DEF Receive
<1>7. ASSUME NEW c \in Calls, TransportError(c)
      PROVE  Quiet
  <2>1. /\ pc[c] = "flight" /\ Fail(c, Policy!NoStatus, None)
        /\ UNCHANGED <<now, log, sends, recent, endpoint>>
    BY <1>7 DEF TransportError
  <2> QED
    BY <1>5, <2>1 DEF Failures
<1>8. ASSUME NEW c \in Calls, Exchange(c)
      PROVE  Quiet
  BY <1>1, <1>8 DEF Exchange, Accept, Reject, Break, Reply, StrayEnds
<1>9. ASSUME Close \/ Finished \/ UNCHANGED vars
      PROVE  Quiet
  BY <1>1, <1>9 DEF Close, Finished, vars
<1>10. Quiet \/ Tick \/ \E c \in Calls : Granted(c) \/ Send(c)
  BY <1>2, <1>3, <1>4, <1>6, <1>7, <1>8, <1>9 DEF Next, Client, Run
<1> QED
  BY <1>10 DEF KindOfStep

\* Nobody changes what it calls, and so which budgets it uses.
LEMMA KindsKeepTheUsers ==
  ASSUME KindOfStep
  PROVE  endpoint' = endpoint /\ \A w : Users(w)' = Users(w)
<1>1. endpoint' = endpoint
  BY DEF KindOfStep, Quiet, Granted, Send, Tick, given
<1> QED
  BY <1>1 DEF Users, IsOrder

\* Every grant of a budget is a slot of one of its users, and the other way
\* round.
SlotsPaid == \A w \in Limiter!Windows : Len(log[w]) = Paid(Users(w))

\* Every call uses the general budget, an order the order budget as well.
LEMMA BudgetsOfTheWindows ==
  /\ Limiter!Windows = {"general", "order"}
  /\ Limiter!Budget!Windows = Limiter!Windows
  /\ Users("general") = Calls
  /\ Users("order") = {c \in Calls : IsOrder(c)}
BY DEF Limiter!Windows, Limiter!Budget!Windows, Limiter!Budget!Drawn, Users

\* EveryRequestPaid, stated budget by budget.
LEMMA SlotsPaidMeans == SlotsPaid <=> EveryRequestPaid
BY BudgetsOfTheWindows DEF SlotsPaid, EveryRequestPaid

\* What a grant records.
LEMMA GrantsRecorded ==
  ASSUME NEW c \in Calls, Granted(c), LockInv, NEW w \in Limiter!Windows
  PROVE  /\ log[w] \in Seq(Nat) /\ reading[c] \in Nat /\ now' = now
         /\ c \in Users(w) => log'[w] = Append(log[w], reading[c])
         /\ c \notin Users(w) => log'[w] = log[w]
<1>1. /\ now' = now
      /\ log' = [v \in Limiter!Windows |->
                   IF v \in Limiter!Budget!Drawn(IsOrder(c)) THEN Append(log[v], reading[c])
                   ELSE log[v]]
  BY DEF Granted, Limiter!Take
<1>2. log[w] \in Seq(Nat) /\ reading[c] \in Nat
  BY LockedLimiter DEF Limiter!TypeOK, Granted, LockInv, Holds
<1> QED
  BY <1>1, <1>2 DEF Users

\* No slot is taken and no request sent at the start.
LEMMA InitPays == Init => SlotsPaid
<1> SUFFICES ASSUME Init, NEW w \in Limiter!Windows
             PROVE  Len(log[w]) = Paid(Users(w))
  BY DEF SlotsPaid
<1> DEFINE f == [c \in Calls |-> Slots(c)]
           z == [c \in Calls |-> 0]
           t == Users(w)
<1>1. f = z
  BY DEF Init, Slots
<1>2. z \in [Calls -> Nat] /\ t \in SUBSET Calls /\ IsFiniteSet(Calls)
  BY LoopAssumption DEF Users
<1>3. log[w] = <<>>
  BY DEF Init, Limiter!Init
<1>4. Paid(t) = SumFunctionOnSet(z, t)
  BY <1>1 DEF Paid
<1> HIDE DEF f, t
<1>5. \A x \in t : z[x] = 0
  BY <1>2
<1> HIDE DEF z
<1>6. SumFunctionOnSet(z, t) = 0
  BY <1>2, <1>5, SumOfZeros
<1> QED
  BY <1>3, <1>4, <1>6 DEF t

\* A grant is one slot more on both sides, for the budgets the caller uses; no
\* other step moves a slot.
LEMMA SlotsPaidStep ==
  ASSUME SlotsPaid, LockInv, CallsTyped, CallsTyped', Undecided, KindOfStep
  PROVE  SlotsPaid'
<1> SUFFICES ASSUME NEW w \in Limiter!Windows
             PROVE  Len(log'[w]) = Paid(Users(w))'
  BY DEF SlotsPaid, Limiter!Windows, Limiter!Budget!Windows
<1> DEFINE f == [c \in Calls |-> Slots(c)]
           h == [c \in Calls |-> Slots(c)']
           t == Users(w)
<1>1. /\ f \in [Calls -> Nat] /\ h \in [Calls -> Nat] /\ IsFiniteSet(Calls)
      /\ t \in SUBSET Calls
  BY LoopAssumption DEF CallsTyped, Slots, Users
<1>2. Paid(t) = SumFunctionOnSet(f, t) /\ Len(log[w]) = Paid(t)
  BY DEF Paid, SlotsPaid
<1>4. Users(w)' = t
  BY KindsKeepTheUsers
<1>5. Paid(Users(w))' = SumFunctionOnSet(h, t)
  BY <1>4 DEF Paid
<1>6. \A c \in Calls : f[c] = Slots(c) /\ h[c] = Slots(c)'
  OBVIOUS
<1> HIDE DEF f, h, t
<1>7. ASSUME \A c \in Calls : Slots(c)' = Slots(c), log' = log
      PROVE  Len(log'[w]) = Paid(Users(w))'
  <2>1. \A c \in t : f[c] = h[c]
    BY <1>1, <1>6, <1>7
  <2>2. SumFunctionOnSet(f, t) = SumFunctionOnSet(h, t)
    BY <1>1, <2>1, SumSame
  <2> QED
    BY <1>2, <1>5, <1>7, <2>2
<1>8. CASE Quiet
  BY <1>7, <1>8 DEF Quiet
<1>9. CASE Tick
  BY <1>7, <1>9 DEF Tick, Limiter!Tick, Slots, callVars
<1>10. ASSUME NEW c \in Calls, Send(c)
       PROVE  Len(log'[w]) = Paid(Users(w))'
  <2>1. \A d \in Calls : Slots(d)' = Slots(d)
    <3>1. ASSUME NEW d \in Calls \ {c}
          PROVE  Slots(d)' = Slots(d)
      BY <1>10 DEF Send, CallsTyped, Slots
    <3>2. Slots(c)' = Slots(c)
      <4>1. /\ pc[c] = "granted" /\ pc'[c] = "flight" /\ sends'[c] = sends[c] + 1
            /\ outcome' = outcome /\ sends[c] \in Nat
        BY <1>10 DEF Send, CallsTyped
      <4>2. outcome[c] = "pending"
        BY <4>1 DEF Undecided, Ended
      <4> QED
        BY <4>1, <4>2 DEF Slots
    <3> QED
      BY <3>1, <3>2
  <2> QED
    BY <1>7, <1>10, <2>1 DEF Send, limiterVars
<1>11. ASSUME NEW c \in Calls, Granted(c)
       PROVE  Len(log'[w]) = Paid(Users(w))'
  <2>1. Slots(c)' = Slots(c) + 1 /\ \A d \in Calls \ {c} : Slots(d)' = Slots(d)
    <3>1. /\ pc[c] = "reserving" /\ pc'[c] = "granted" /\ sends' = sends
          /\ outcome' = outcome /\ sends[c] \in Nat
          /\ \A d \in Calls \ {c} : pc'[d] = pc[d]
      BY <1>11 DEF Granted, CallsTyped
    <3>2. outcome[c] = "pending"
      BY <3>1 DEF Undecided, Ended
    <3> QED
      BY <3>1, <3>2 DEF Slots
  <2>2. CASE c \in t
    <3>1. Len(log'[w]) = Len(log[w]) + 1
      BY <1>11, <2>2, GrantsRecorded DEF t
    <3>2. \A d \in t \ {c} : f[d] = h[d]
      BY <1>1, <1>6, <2>1
    <3>3. SumFunctionOnSet(h, t) = SumFunctionOnSet(f, t) - f[c] + h[c]
      BY <1>1, <2>2, <3>2, SumChanges
    <3>4. h[c] = f[c] + 1 /\ f[c] \in Nat /\ SumFunctionOnSet(f, t) \in Nat
      BY <1>1, <1>6, <2>1, SumOver
    <3> QED
      BY <1>2, <1>5, <3>1, <3>3, <3>4
  <2>3. CASE c \notin t
    <3>1. Len(log'[w]) = Len(log[w])
      BY <1>11, <2>3, GrantsRecorded DEF t
    <3>2. \A d \in t : f[d] = h[d]
      BY <1>1, <1>6, <2>1, <2>3
    <3>3. SumFunctionOnSet(h, t) = SumFunctionOnSet(f, t)
      BY <1>1, <3>2, SumSame
    <3> QED
      BY <1>2, <1>5, <3>1, <3>3
  <2> QED
    BY <2>2, <2>3
<1> QED
  BY <1>8, <1>9, <1>10, <1>11 DEF KindOfStep

-----------------------------------------------------------------------------
(* How far the wire runs over *)

Past(q, t) == LimiterFacts!Sorted(q) /\ \A i \in 1 .. Len(q) : q[i] <= t

\* What the callers remember of their requests is in clock order, and the one
\* that holds the lock read the clock after its last request.
RecentTyped ==
  /\ recent \in [Calls -> Seq(Nat)]
  /\ \A c \in Calls : /\ Past(recent[c], now)
                      /\ pc[c] = "reserving" => Past(recent[c], reading[c])

\* How many requests of c, of those so far, are younger than a period at t.
Young(c, t) == Len(LimiterFacts!Live(recent[c], t))

\* The same without the last one: its slot may have been taken long before.
\* A caller that holds a slot has its next request paid for, so all count.
Excess(c, t) ==
  IF pc[c] = "granted" \/ Young(c, t) = 0 THEN Young(c, t) ELSE Young(c, t) - 1

Granting(w, t) == Len(LimiterFacts!Live(log[w], t))

\* Seen from any later time, the requests of a caller that count against a
\* budget, but for one, have slots that still count against it as well.
WireCovered ==
  \A w \in Limiter!Windows : \A t \in Nat :
    LimiterFacts!Budget!Metered(w) /\ now <= t
      => SumFunctionOnSet([c \in Calls |-> Excess(c, t)], Users(w)) <= Granting(w, t)

\* Nobody remembers a request at the start.
LEMMA InitRecent == Init => RecentTyped
BY DEF Init, RecentTyped, Past, LimiterFacts!Sorted

\* Requests and their excess are counted in whole numbers.
LEMMA YoungTyped ==
  ASSUME RecentTyped, NEW c \in Calls, NEW t \in Nat
  PROVE  Young(c, t) \in Nat /\ Excess(c, t) \in Nat
<1>1. /\ recent[c] \in Seq(Nat) /\ LimiterFacts!Sorted(recent[c]) /\ Period \in Nat
  BY LimiterAssumption DEF RecentTyped, Past, Limiter!BudgetAssumption
<1>2. LimiterFacts!Live(recent[c], t) \in Seq(Nat)
  BY <1>1, LimiterAssumption, LimiterFacts!LiveOfSorted
<1>3. Young(c, t) \in Nat
  BY <1>2 DEF Young
<1> QED
  BY <1>3 DEF Excess

\* What a request leaves behind.
LEMMA SendRecorded ==
  ASSUME RecentTyped, NEW c \in Calls, Send(c), now \in Nat
  PROVE  /\ Past(recent'[c], now) /\ recent'[c] \in Seq(Nat)
         /\ \A d \in Calls \ {c} : recent'[d] = recent[d]
         /\ recent' \in [Calls -> Seq(Nat)]
         /\ \A t \in Nat : IF now > t - Period THEN Young(c, t)' = Young(c, t) + 1
                           ELSE Young(c, t)' = 0 /\ Young(c, t) = 0
<1>1. /\ recent[c] \in Seq(Nat) /\ LimiterFacts!Sorted(recent[c]) /\ Period \in Nat
      /\ \A i \in 1 .. Len(recent[c]) : recent[c][i] <= now
  BY LimiterAssumption DEF RecentTyped, Past, Limiter!BudgetAssumption
<1>2. recent'[c] = Append(recent[c], now) /\ \A d \in Calls \ {c} : recent'[d] = recent[d]
  BY DEF Send, RecentTyped
<1>3. recent' \in [Calls -> Seq(Nat)]
  BY <1>1, <1>2 DEF Send, RecentTyped
<1>4. Past(recent'[c], now) /\ recent'[c] \in Seq(Nat)
  <2>1. 0 \in Nat
    OBVIOUS
  <2> QED
    BY <1>1, <1>2, <2>1, LimiterAssumption, LimiterFacts!LiveAppended DEF Past
<1>5. ASSUME NEW t \in Nat
      PROVE  IF now > t - Period THEN Young(c, t)' = Young(c, t) + 1
             ELSE Young(c, t)' = 0 /\ Young(c, t) = 0
  <2>1. IF now > t - Period
        THEN Len(LimiterFacts!Live(Append(recent[c], now), t))
               = Len(LimiterFacts!Live(recent[c], t)) + 1
        ELSE /\ Len(LimiterFacts!Live(Append(recent[c], now), t)) = 0
             /\ Len(LimiterFacts!Live(recent[c], t)) = 0
    BY <1>1, LimiterAssumption, LimiterFacts!LiveAppended
  <2> QED
    BY <1>2, <2>1 DEF Young
<1> QED
  BY <1>2, <1>3, <1>4, <1>5

\* What passing time leaves of what the callers remember.
LEMMA TickForgets ==
  ASSUME RecentTyped, Tick, now \in Nat
  PROVE  /\ RecentTyped'
         /\ \A c \in Calls : \A t \in Nat : now' <= t => Young(c, t)' = Young(c, t)
<1>1. now' = now + 1 /\ now' \in Nat /\ Period \in Nat
  BY LimiterAssumption DEF Tick, Limiter!Tick, Limiter!BudgetAssumption
<1>2. recent' = [c \in Calls |-> LimiterFacts!Live(recent[c], now')]
  BY SameLimiter DEF Tick
<1>3. ASSUME NEW c \in Calls
      PROVE  /\ recent'[c] \in Seq(Nat) /\ Past(recent'[c], now')
             /\ pc'[c] = "reserving" => Past(recent'[c], reading'[c])
             /\ \A t \in Nat : now' <= t => Young(c, t)' = Young(c, t)
  <2> DEFINE q == recent[c]
             p == recent'[c]
  <2>1. /\ q \in Seq(Nat) /\ LimiterFacts!Sorted(q)
        /\ \A i \in 1 .. Len(q) : q[i] <= now
        /\ pc[c] = "reserving" => \A i \in 1 .. Len(q) : q[i] <= reading[c]
        /\ pc' = pc /\ reading' = reading
    BY DEF RecentTyped, Past, Tick, callVars
  <2>2. p = LimiterFacts!Live(q, now')
    BY <1>2
  <2> HIDE DEF p, q
  <2>3. PICK k \in 0 .. Len(q) :
             /\ p \in Seq(Nat) /\ Len(p) = Len(q) - k
             /\ \A i \in 1 .. Len(q) - k : p[i] = q[k + i]
    BY <1>1, <2>1, <2>2, LimiterAssumption, LimiterFacts!LiveOfSorted
  <2>4. ASSUME NEW i \in 1 .. Len(p)
        PROVE  p[i] <= now' /\ (pc'[c] = "reserving" => p[i] <= reading'[c])
    <3>1. k + i \in 1 .. Len(q) /\ p[i] = q[k + i] /\ q[k + i] \in Nat
      BY <2>1, <2>3
    <3>2. q[k + i] <= now /\ (pc[c] = "reserving" => q[k + i] <= reading[c])
      BY <2>1, <3>1
    <3> QED
      BY <1>1, <2>1, <3>1, <3>2
  <2>5. LimiterFacts!Sorted(p)
    BY <1>1, <2>1, <2>2, LimiterAssumption, LimiterFacts!LiveAgain
  <2>6. ASSUME NEW t \in Nat, now' <= t
        PROVE  Len(LimiterFacts!Live(p, t)) = Len(LimiterFacts!Live(q, t))
    BY <1>1, <2>1, <2>2, <2>6, LimiterAssumption, LimiterFacts!LiveAgain
  <2>7. Past(p, now') /\ (pc'[c] = "reserving" => Past(p, reading'[c]))
    BY <2>4, <2>5 DEF Past
  <2> QED
    BY <2>3, <2>6, <2>7 DEF p, q, Young
<1>4. recent' \in [Calls -> Seq(Nat)]
  BY <1>2, <1>3
<1>5. \A c \in Calls : Past(recent[c], now)' /\ (pc'[c] = "reserving" => Past(recent[c], reading[c])')
  BY <1>3 DEF Past
<1> QED
  BY <1>3, <1>4, <1>5 DEF RecentTyped

\* Every step leaves what the callers remember in clock order.
LEMMA RecentStep ==
  ASSUME RecentTyped, CallsTyped, LockInv, KindOfStep
  PROVE  RecentTyped'
<1>0. now \in Nat
  BY LockedLimiter
<1>1. ASSUME UNCHANGED <<now, recent>>,
             \A c \in Calls : pc'[c] = "reserving" =>
               \/ pc[c] = "reserving" /\ reading'[c] = reading[c]
               \/ reading'[c] = now
      PROVE  RecentTyped'
  <2>1. ASSUME NEW c \in Calls
        PROVE  Past(recent'[c], now') /\ (pc'[c] = "reserving" => Past(recent'[c], reading'[c]))
    BY <1>1 DEF RecentTyped
  <2> QED
    BY <1>1, <2>1 DEF RecentTyped, Past
<1>2. ASSUME NEW c \in Calls, Granted(c)
      PROVE  RecentTyped'
  <2>1. /\ UNCHANGED <<now, recent>> /\ pc'[c] = "granted"
        /\ \A d \in Calls \ {c} : pc'[d] = pc[d] /\ pc[d] # "reserving"
    BY <1>2 DEF Granted, Limiter!Take, CallsTyped, LockInv
  <2> QED
    BY <1>1, <2>1
<1>3. ASSUME NEW c \in Calls, Send(c)
      PROVE  RecentTyped'
  <2>1. /\ Past(recent'[c], now) /\ \A d \in Calls \ {c} : recent'[d] = recent[d]
        /\ recent' \in [Calls -> Seq(Nat)] /\ UNCHANGED <<now, reading>>
        /\ pc'[c] = "flight" /\ \A d \in Calls \ {c} : pc'[d] = pc[d]
    BY <1>0, <1>3, SendRecorded DEF Send, limiterVars, CallsTyped
  <2>2. ASSUME NEW d \in Calls
        PROVE  Past(recent'[d], now') /\ (pc'[d] = "reserving" => Past(recent'[d], reading'[d]))
    BY <2>1 DEF RecentTyped
  <2> QED
    BY <2>1, <2>2 DEF RecentTyped, Past
<1> QED
  BY <1>0, <1>1, <1>2, <1>3, TickForgets DEF KindOfStep, Quiet

\* What a budget's grants look like as of a reading of the clock.
LEMMA GrantsInOrder ==
  ASSUME NEW r, LimiterFacts!IInvAt(r),
         NEW w \in Limiter!Windows, LimiterFacts!Budget!Metered(w)
  PROVE  /\ log[w] \in Seq(Nat) /\ r \in Nat /\ Period \in Nat
         /\ LimiterFacts!Sorted(log[w]) /\ \A i \in 1 .. Len(log[w]) : log[w][i] <= r
         /\ \A t \in Nat : Granting(w, t) \in Nat
<1>1. w \in LimiterFacts!Windows
  BY SameLimiter
<1>2. /\ log[w] \in Seq(Nat) /\ r \in Nat /\ Period \in Nat
      /\ LimiterFacts!Sorted(log[w]) /\ \A i \in 1 .. Len(log[w]) : log[w][i] <= r
  BY <1>1, LimiterAssumption
     DEF LimiterFacts!IInvAt, LimiterFacts!Ordered, LimiterFacts!Sorted,
         Limiter!BudgetAssumption
<1>3. ASSUME NEW t \in Nat
      PROVE  Granting(w, t) \in Nat
  <2>1. LimiterFacts!Live(log[w], t) \in Seq(Nat)
    BY <1>2, LimiterAssumption, LimiterFacts!LiveOfSorted
  <2> QED
    BY <2>1 DEF Granting
<1> QED
  BY <1>2, <1>3

\* Nothing needs to be covered at the start.
LEMMA InitCovered == Init => WireCovered
<1> SUFFICES ASSUME Init, NEW w \in Limiter!Windows, NEW t \in Nat,
                    LimiterFacts!Budget!Metered(w)
             PROVE  SumFunctionOnSet([c \in Calls |-> Excess(c, t)], Users(w))
                      <= Granting(w, t)
  BY DEF WireCovered
<1> DEFINE f == [c \in Calls |-> Excess(c, t)]
           u == Users(w)
<1>1. LimiterFacts!IInvAt(now) /\ RecentTyped
  BY InitLock, InitRecent DEF LockInv
<1>2. /\ f \in [Calls -> Nat] /\ u \in SUBSET Calls /\ IsFiniteSet(Calls)
      /\ Granting(w, t) \in Nat
  BY <1>1, YoungTyped, GrantsInOrder, LoopAssumption DEF Users
<1>3. ASSUME NEW c \in Calls
      PROVE  Excess(c, t) = 0
  <2>1. /\ recent[c] = <<>> /\ Period \in Nat /\ <<>> \in Seq(Nat) /\ Len(<<>>) = 0
        /\ LimiterFacts!Sorted(<<>>)
    BY LimiterAssumption DEF Init, LimiterFacts!Sorted, Limiter!BudgetAssumption
  <2>2. PICK k \in 0 .. Len(<<>>) : Len(LimiterFacts!Live(<<>>, t)) = Len(<<>>) - k
    BY <2>1, LimiterAssumption, LimiterFacts!LiveOfSorted
  <2>3. Young(c, t) = 0
    BY <2>1, <2>2 DEF Young
  <2> QED
    BY <2>3 DEF Excess
<1>4. \A x \in u : f[x] = 0
  BY <1>2, <1>3
<1> HIDE DEF f, u
<1>5. SumFunctionOnSet(f, u) = 0
  BY <1>2, <1>4, SumOfZeros
<1> QED
  BY <1>2, <1>5 DEF f, u

\* How the excess of a caller changes with its slot and its requests.
LEMMA ExcessSteps ==
  ASSUME RecentTyped, CallsTyped, LockInv, KindOfStep, NEW t \in Nat, now' <= t
  PROVE  /\ \A c \in Calls : Granted(c) =>
              /\ \A d \in Calls \ {c} : Excess(d, t)' = Excess(d, t)
              /\ Excess(c, t)' <= Excess(c, t) + 1
              /\ ~ (reading[c] > t - Period) => Excess(c, t)' = 0
         /\ (~ \E c \in Calls : Granted(c)) =>
              \A d \in Calls : Excess(d, t)' <= Excess(d, t)
<1> USE YoungTyped
<1>0. now \in Nat
  BY LockedLimiter
<1>1. ASSUME NEW c \in Calls, Granted(c)
      PROVE  /\ \A d \in Calls \ {c} : Excess(d, t)' = Excess(d, t)
             /\ Excess(c, t)' <= Excess(c, t) + 1
             /\ ~ (reading[c] > t - Period) => Excess(c, t)' = 0
  <2>1. /\ pc[c] = "reserving" /\ pc'[c] = "granted" /\ recent' = recent
        /\ \A d \in Calls \ {c} : pc'[d] = pc[d]
    BY <1>1 DEF Granted, CallsTyped
  <2>2. \A d \in Calls : Young(d, t)' = Young(d, t)
    BY <2>1 DEF Young
  <2>3. \A d \in Calls \ {c} : Excess(d, t)' = Excess(d, t)
    BY <2>1, <2>2 DEF Excess
  <2>4. Excess(c, t)' = Young(c, t)
    BY <2>1, <2>2 DEF Excess
  <2>5. Young(c, t) <= Excess(c, t) + 1
    BY <2>1 DEF Excess
  <2>6. ASSUME ~ (reading[c] > t - Period)
        PROVE  Young(c, t) = 0
    <3>1. /\ recent[c] \in Seq(Nat) /\ LimiterFacts!Sorted(recent[c]) /\ Period \in Nat
          /\ \A i \in 1 .. Len(recent[c]) : recent[c][i] <= reading[c]
          /\ reading[c] \in Nat
      BY <2>1, LockedLimiter DEF RecentTyped, Past, LockInv, Holds
    <3>2. Len(LimiterFacts!Live(recent[c], t)) = 0
      BY <2>6, <3>1, LimiterAssumption, LimiterFacts!LiveAppended
    <3> QED
      BY <3>2 DEF Young
  <2> QED
    BY <2>3, <2>4, <2>5, <2>6
<1>2. ASSUME NEW c \in Calls, Send(c), NEW d \in Calls
      PROVE  Excess(d, t)' <= Excess(d, t)
  <2>1. /\ pc[c] = "granted" /\ pc'[c] = "flight"
        /\ \A e \in Calls \ {c} : pc'[e] = pc[e]
    BY <1>2 DEF Send, CallsTyped
  <2>2. /\ \A e \in Calls \ {c} : recent'[e] = recent[e]
        /\ IF now > t - Period THEN Young(c, t)' = Young(c, t) + 1
           ELSE Young(c, t)' = 0 /\ Young(c, t) = 0
    BY <1>0, <1>2, SendRecorded
  <2>3. CASE d = c
    <3>1. Excess(c, t) = Young(c, t)
      BY <2>1 DEF Excess
    <3>2. Excess(c, t)' = IF Young(c, t)' = 0 THEN Young(c, t)' ELSE Young(c, t)' - 1
      BY <2>1 DEF Excess
    <3> QED
      BY <2>2, <2>3, <3>1, <3>2
  <2>4. CASE d # c
    <3>1. Young(d, t)' = Young(d, t) /\ pc'[d] = pc[d]
      BY <2>1, <2>2, <2>4 DEF Young
    <3>2. Excess(d, t)' = Excess(d, t)
      BY <3>1 DEF Excess
    <3> QED
      BY <3>2
  <2> QED
    BY <2>3, <2>4
<1>3. ASSUME \A d \in Calls : Young(d, t)' = Young(d, t),
             \A d \in Calls : pc'[d] = "granted" => pc[d] = "granted"
      PROVE  \A d \in Calls : Excess(d, t)' <= Excess(d, t)
  <2> TAKE d \in Calls
  <2>1. Young(d, t) \in Nat /\ Young(d, t)' = Young(d, t)
    BY <1>3
  <2>2. pc'[d] = "granted" => pc[d] = "granted"
    BY <1>3
  <2>3. Excess(d, t)' = IF pc'[d] = "granted" \/ Young(d, t)' = 0 THEN Young(d, t)'
                        ELSE Young(d, t)' - 1
    BY DEF Excess
  <2>4. Excess(d, t) = IF pc[d] = "granted" \/ Young(d, t) = 0 THEN Young(d, t)
                       ELSE Young(d, t) - 1
    BY DEF Excess
  <2> HIDE DEF Excess, Young
  <2> QED
    BY <2>1, <2>2, <2>3, <2>4
<1>4. Quiet => \A d \in Calls : Excess(d, t)' <= Excess(d, t)
  BY <1>3 DEF Quiet, Young
<1>5. Tick => \A d \in Calls : Excess(d, t)' <= Excess(d, t)
  BY <1>0, <1>3, TickForgets DEF Tick, callVars
<1> QED
  BY <1>1, <1>2, <1>4, <1>5 DEF KindOfStep

\* A grant covers what it adds to the excess; a request adds nothing to it,
\* since its slot was counted when it was granted.
LEMMA CoveredStep ==
  ASSUME WireCovered, LockInv, RecentTyped, CallsTyped, KindOfStep
  PROVE  WireCovered'
<1> SUFFICES ASSUME NEW w \in Limiter!Windows, NEW t \in Nat,
                    LimiterFacts!Budget!Metered(w), now' <= t
             PROVE  SumFunctionOnSet([c \in Calls |-> Excess(c, t)'], Users(w))
                      <= Granting(w, t)'
  <2>1. \A w : Users(w)' = Users(w)
    BY KindsKeepTheUsers
  <2> QED
    BY <2>1
       DEF WireCovered, Limiter!Windows, Limiter!Budget!Windows,
           LimiterFacts!Budget!Metered, LimiterFacts!Budget!Limit,
           LimiterFacts!Budget!Windows
<1> DEFINE f == [c \in Calls |-> Excess(c, t)]
           h == [c \in Calls |-> Excess(c, t)']
           u == Users(w)
<1>1. /\ log[w] \in Seq(Nat) /\ now \in Nat /\ Period \in Nat
      /\ LimiterFacts!Sorted(log[w]) /\ Granting(w, t) \in Nat
  BY GrantsInOrder DEF LockInv
<1>2. RecentTyped'
  BY RecentStep
<1>3. /\ f \in [Calls -> Nat] /\ h \in [Calls -> Nat] /\ IsFiniteSet(Calls)
      /\ u \in SUBSET Calls
  <2>1. ASSUME NEW c \in Calls
        PROVE  Excess(c, t)' \in Nat
    <3>1. recent'[c] \in Seq(Nat) /\ LimiterFacts!Sorted(recent'[c])
      BY <1>2 DEF RecentTyped, Past
    <3>2. Len(LimiterFacts!Live(recent'[c], t)) \in Nat
      BY <1>1, <3>1, LimiterAssumption, LimiterFacts!LiveOfSorted
    <3>3. Young(c, t)' \in Nat
      BY <3>2 DEF Young
    <3> QED
      BY <3>3 DEF Excess
  <2> QED
    BY <2>1, YoungTyped, LoopAssumption DEF Users
<1>4. now <= t
  <2>1. now' = now \/ now' = now + 1
    BY DEF KindOfStep, Quiet, Granted, Limiter!Take, Send, limiterVars, Tick, Limiter!Tick
  <2> QED
    BY <1>1, <2>1
<1>5. SumFunctionOnSet(f, u) <= Granting(w, t)
  BY <1>4 DEF WireCovered
<1>6. \A c \in Calls : f[c] = Excess(c, t) /\ h[c] = Excess(c, t)'
  OBVIOUS
<1> SUFFICES SumFunctionOnSet(h, u) <= Granting(w, t)'
  OBVIOUS
<1> HIDE DEF f, h, u
<1>7. SumFunctionOnSet(f, u) \in Nat /\ SumFunctionOnSet(h, u) \in Nat
  BY <1>3, SumOver
<1>8. CASE ~ \E c \in Calls : Granted(c)
  <2>1. \A x \in u : h[x] <= f[x]
    BY <1>3, <1>6, <1>8, ExcessSteps
  <2>2. SumFunctionOnSet(h, u) <= SumFunctionOnSet(f, u)
    BY <1>3, <2>1, SumAtMost
  <2>3. log' = log
    BY <1>8 DEF KindOfStep, Quiet, Send, limiterVars, Tick, Limiter!Tick
  <2>4. Granting(w, t)' = Granting(w, t)
    BY <2>3 DEF Granting
  <2> QED
    BY <1>1, <1>5, <1>7, <2>2, <2>4
<1>9. ASSUME NEW c \in Calls, Granted(c)
      PROVE  SumFunctionOnSet(h, u) <= Granting(w, t)'
  <2>1. /\ \A d \in Calls \ {c} : h[d] = f[d]
        /\ h[c] <= f[c] + 1
        /\ ~ (reading[c] > t - Period) => h[c] = 0
    BY <1>6, <1>9, ExcessSteps
  <2>2. CASE c \notin u
    <3>1. log'[w] = log[w]
      BY <1>9, <2>2, GrantsRecorded DEF u
    <3>2. Granting(w, t)' = Granting(w, t)
      BY <3>1 DEF Granting
    <3>3. \A x \in u : h[x] = f[x]
      BY <1>3, <2>1, <2>2
    <3>4. SumFunctionOnSet(h, u) = SumFunctionOnSet(f, u)
      BY <1>3, <3>3, SumSame
    <3> QED
      BY <1>5, <3>2, <3>4
  <2>3. CASE c \in u
    <3>1. log'[w] = Append(log[w], reading[c])
      BY <1>9, <2>3, GrantsRecorded DEF u
    <3>2. Granting(w, t)' = Len(LimiterFacts!Live(Append(log[w], reading[c]), t))
      BY <3>1 DEF Granting
    <3>3. reading[c] \in Nat /\ \A i \in 1 .. Len(log[w]) : log[w][i] <= reading[c]
      BY <1>9, GrantsInOrder DEF Granted, LockInv, Holds
    <3>6. IF reading[c] > t - Period THEN Granting(w, t)' = Granting(w, t) + 1
          ELSE Granting(w, t)' = 0 /\ Granting(w, t) = 0
      BY <1>1, <3>2, <3>3, LimiterAssumption, LimiterFacts!LiveAppended DEF Granting
    <3>4. SumFunctionOnSet(h, u) = SumFunctionOnSet(f, u) - f[c] + h[c]
      BY <1>3, <2>1, <2>3, SumChanges
    <3>5. f[c] \in Nat /\ h[c] \in Nat
      BY <1>3
    <3> QED
      BY <1>1, <1>5, <1>7, <2>1, <3>4, <3>5, <3>6
  <2> QED
    BY <2>2, <2>3
<1> QED
  BY <1>8, <1>9

\* The callers of a metered budget never have more on the wire than it allows
\* and one request each.
LEMMA CoveredBounds ==
  WireCovered /\ LockInv /\ RecentTyped => OverrunIsBounded
<1> SUFFICES ASSUME WireCovered, LockInv, RecentTyped,
                    NEW w \in Limiter!Windows, LimiterFacts!Budget!Metered(w)
             PROVE  SumFunctionOnSet([c \in Calls |-> Young(c, now)], Users(w))
                      <= Limiter!Limit[w] + Cardinality(Users(w))
  BY SameLimiter DEF OverrunIsBounded, Users, Young
<1> DEFINE f == [c \in Calls |-> Excess(c, now)]
           h == [c \in Calls |-> Young(c, now)]
           u == Users(w)
<1>1. now \in Nat /\ Granting(w, now) \in Nat /\ w \in LimiterFacts!Windows
  BY GrantsInOrder, SameLimiter DEF LockInv
<1>2. /\ f \in [Calls -> Nat] /\ h \in [Calls -> Nat] /\ IsFiniteSet(Calls)
      /\ u \in SUBSET Calls
  BY <1>1, YoungTyped, LoopAssumption DEF Users
<1>3. SumFunctionOnSet(f, u) <= Granting(w, now)
  BY <1>1 DEF WireCovered
<1>4. Granting(w, now) <= Limiter!Limit[w]
  <2>1. Len(LimiterFacts!Live(log[w], now)) <= LimiterFacts!Limit[w]
    BY <1>1, LockedLimiter, LimiterAssumption, LimiterFacts!LiveWithinBudget
  <2> QED
    BY <2>1, SameLimiter DEF Granting
<1>5. \A x \in u : h[x] <= f[x] + 1
  <2> TAKE x \in u
  <2>1. Young(x, now) \in Nat /\ x \in Calls
    BY <1>1, <1>2, YoungTyped
  <2>2. Young(x, now) <= Excess(x, now) + 1
    BY <2>1 DEF Excess
  <2> QED
    BY <2>1, <2>2
<1>6. Limiter!Limit[w] \in Nat
  BY LimiterAssumption
     DEF Limiter!Limit, Limiter!Windows, Limiter!Budget!Limit, Limiter!Budget!Windows,
         LimiterFacts!Budget!Metered, LimiterFacts!Budget!Limit, Limiter!BudgetAssumption,
         LimiterFacts!Budget!Windows
<1> SUFFICES SumFunctionOnSet(h, u) <= Limiter!Limit[w] + Cardinality(u)
  OBVIOUS
<1> HIDE DEF f, h, u
<1>7. /\ SumFunctionOnSet(h, u) <= SumFunctionOnSet(f, u) + Cardinality(u)
      /\ SumFunctionOnSet(f, u) \in Nat /\ SumFunctionOnSet(h, u) \in Nat
      /\ Cardinality(u) \in Nat
  BY <1>2, <1>5, SumPlusOnes, SumOver, FS_Subset, FS_CardinalityType
<1> QED
  BY <1>1, <1>3, <1>4, <1>6, <1>7

-----------------------------------------------------------------------------
(* The invariant of the loop *)

\* The slots that were taken, who holds them and what left because of them.
SlotsCounted == Undecided /\ SlotsPaid /\ RecentTyped /\ WireCovered

LoopInv == Typed /\ SlotsCounted

\* The parts that count slots, together.
LEMMA SlotsCountedStep ==
  ASSUME LoopInv, CallsTyped', Undecided', KindOfStep
  PROVE  SlotsCounted'
<1>1. LockInv /\ CallsTyped /\ Undecided /\ SlotsPaid /\ RecentTyped /\ WireCovered
  BY DEF LoopInv, Typed, AttemptsCounted, SlotsCounted
<1>2. SlotsPaid' /\ RecentTyped' /\ WireCovered'
  BY <1>1, SlotsPaidStep, RecentStep, CoveredStep
<1> QED
  BY <1>2 DEF SlotsCounted

\* The initial states satisfy the invariant.
LEMMA InitLoop == Init => LoopInv
<1>1. Init => Undecided
  BY DEF Init, Undecided
<1> QED
  BY <1>1, InitTyped, InitPays, InitRecent, InitCovered DEF LoopInv, SlotsCounted

\* Every step keeps the invariant.
LEMMA LoopStep == LoopInv /\ [Next]_vars => LoopInv'
<1> SUFFICES ASSUME LoopInv, [Next]_vars
             PROVE  LoopInv'
  OBVIOUS
<1>1. Typed /\ WireTyped /\ CallsTyped /\ Undecided /\ LockInv
  BY DEF LoopInv, Typed, AttemptsCounted, SlotsCounted
<1>2. Typed' /\ CallsTyped'
  BY <1>1, TypedStep DEF Typed, AttemptsCounted
<1>3. Undecided' /\ KindOfStep
  BY <1>1, UndecidedStep, KindsOfSteps
<1> QED
  BY <1>2, <1>3, SlotsCountedStep DEF LoopInv

\* The invariant implies TypeOK.
LEMMA LoopTypes == LoopInv => TypeOK
<1> SUFFICES ASSUME LoopInv PROVE TypeOK
  OBVIOUS
<1>1. /\ Limiter!TypeOK /\ CallsTyped /\ SettingsTyped /\ AnswersTyped /\ SleepsTyped
      /\ WritesTyped /\ RecentTyped /\ LockInv /\ now \in Nat
  BY LockedLimiter DEF LoopInv, Typed, AttemptsCounted, SlotsCounted
<1>2. attempt \in [Calls -> 1 .. Attempts]
  <2>1. ASSUME NEW c \in Calls
        PROVE  attempt[c] \in 1 .. Attempts
    <3>1. attempt[c] \in Nat /\ 1 <= attempt[c] /\ attempt[c] <= AttemptsOf(c)
      BY <1>1 DEF LoopInv, Typed, AttemptsCounted, Counted, CallsTyped
    <3>2. AttemptsOf(c) <= Attempts /\ AttemptsOf(c) \in Nat /\ Attempts \in Nat
      BY LoopAssumption DEF AttemptsOf, Policy!PolicyAssumption
    <3> QED
      BY <3>1, <3>2
  <2> QED
    BY <1>1, <2>1 DEF CallsTyped
<1>3. outcome \in [Calls -> {"pending", "ok", "malformed", "credentials", "closed",
                             "overflow", "nan delay", "endless delay", "cancelled",
                             Policy!NoStatus, "400", "429", "503"}]
  BY <1>1 DEF CallsTyped, Final, Failures, Policy!Status
<1>4. \A c \in Calls : wire[c] # Nothing => pc[c] = "flight"
  BY <1>1 DEF AnswersTyped
<1>5. /\ \A c, d \in Calls : pc[c] = "reserving" /\ pc[d] = "reserving" => c = d
      /\ reading \in [Calls -> Nat \cup {None}]
      /\ \A c \in Calls : pc[c] = "reserving" => reading[c] \in 0 .. now
  BY <1>1 DEF LockInv, Holds
<1> QED
  BY <1>1, <1>2, <1>3, <1>4, <1>5
     DEF TypeOK, CallsTyped, Places, SettingsTyped, AnswersTyped, SleepsTyped,
         WritesTyped, RecentTyped

\* The invariant implies SleepsAreBounded where max_backoff is a number.
LEMMA LoopSleeps == MaxBackoff \in Int /\ LoopInv => SleepsAreBounded
<1> SUFFICES ASSUME MaxBackoff \in Int, LoopInv, NEW c \in Calls
             PROVE  pc[c] # "asleep" /\ (Sleeping(c) => wake[c] - now <= Longest)
  BY DEF SleepsAreBounded, Longest
<1>1. SleepsTyped /\ now \in Nat /\ Longest \in Nat
  BY LockedLimiter, LongestIsLongest DEF LoopInv, Typed
<1>2. /\ wake[c] \in Nat /\ pc[c] # "asleep"
      /\ pc[c] = "throttle" => wake[c] <= now + Longest
  BY <1>1 DEF SleepsTyped
<1>3. Sleeping(c) => wake[c] <= now + Longest
  BY <1>2 DEF Sleeping
<1> QED
  BY <1>1, <1>2, <1>3

\* The invariant implies what is said of slots and requests.
LEMMA LoopPays == LoopInv => EveryRequestPaid /\ OverrunIsBounded
<1>1. LoopInv => SlotsPaid /\ WireCovered /\ LockInv /\ RecentTyped
  BY DEF LoopInv, Typed, SlotsCounted
<1> QED
  BY <1>1, SlotsPaidMeans, CoveredBounds

\* TypeOK: _request is always at one of its places, within its attempts, and
\* a request on the wire belongs to a caller that waits on it
\* (_engine.py:154-185).
THEOREM CallsAreTyped == Spec => []TypeOK
BY InitLoop, LoopStep, LoopTypes, PTL DEF Spec

\* SleepsAreBounded: under every policy whose max_backoff is a number, whatever
\* its backoff and whatever a Retry-After header says, nan and inf included,
\* and however the callers interleave, nobody sleeps forever or for longer than
\* max_backoff and one period of the limiter allow (config.py:60-70,
\* _ratelimit.py:18-25).  A ceiling of nan or inf, which __post_init__ lets
\* through (config.py:43), bounds nothing.
THEOREM SleepsStayBounded ==
  ASSUME MaxBackoff \in Int
  PROVE  Spec => []SleepsAreBounded
<1>1. LoopInv => SleepsAreBounded
  BY LoopSleeps
<1> QED
  BY <1>1, InitLoop, LoopStep, PTL DEF Spec

\* EveryRequestPaid: the slots that were granted are the requests that were
\* sent, retries included, plus one for each call that holds one or wasted it
\* on a failure before http.send (_engine.py:137-143 and 157-169).
THEOREM EveryRequestIsPaid == Spec => []EveryRequestPaid
BY InitLoop, LoopStep, LoopPays, PTL DEF Spec

\* OverrunIsBounded: a slot is dated when it is reserved, and still no period
\* ever sees more requests of a budget leave than it allows plus one for each
\* caller that uses it (_engine.py:137-143 and 157-169).
THEOREM OverrunStaysBounded == Spec => []OverrunIsBounded
BY InitLoop, LoopStep, LoopPays, PTL DEF Spec
=============================================================================
