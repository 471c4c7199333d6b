----------------------------- MODULE RequestLoop -----------------------------
(***************************************************************************)
(* The request loop of src/src/pylightningfx/_engine.py: throttle, sign,   *)
(* send, retry.  Several callers (threads of one SyncEngine, or tasks of   *)
(* one AsyncEngine) run it at once over one limiter; each makes one call.  *)
(* The network and the exchange are the environment: a request may be      *)
(* answered, lost, or acted on after the client has given up on it.        *)
(***************************************************************************)
EXTENDS Integers, Sequences, FiniteSetsExt, Functions, Endpoints

CONSTANTS
  Calls,           \* the callers
  Requested,       \* the endpoints they may call
  KeyChoices,      \* whether the client has an API key and secret
  CounterTexts,    \* what an X-RateLimit-* header may say, see Responses
  RetryAfterTexts, \* what a Retry-After header may say
  OwnsHttp,        \* _owns_http: no http_client was passed in
  MaxIdle,         \* bound: ticks that pass while a caller is busy, none sleeps
  General, Order, Period, Unlimited,                   \* as in RateBudget
  Attempts, Backoff, MaxBackoff, RetryStatuses,        \* as in RetryPolicy
  RetryUnsafe, MaxExponent, None, NaN, Infinity,
  SleepsForever    \* sleep(inf) never returns (asyncio) or is refused (time)

Policy == INSTANCE RetryPolicy

Response == INSTANCE Responses

ASSUME LoopAssumption ==
  /\ IsFiniteSet(Calls)
  /\ Policy!PolicyAssumption /\ Policy!FloatAssumption
  /\ Requested \subseteq Endpoint
  /\ KeyChoices \subseteq BOOLEAN
  /\ OwnsHttp \in BOOLEAN /\ SleepsForever \in BOOLEAN
  /\ MaxIdle \in Nat

VARIABLES
  now, hits, log,   \* the limiter (RateLimiter) and its clock
  keyed,            \* credentials were given
  rateLimit,        \* _EngineBase._rate_limit: the answer it is from, 0 for None
  http,             \* _http: "open" or "closed"
  endpoint,         \* endpoint[c]: what c calls
  pc,               \* pc[c]: where c is in _request
  attempt,          \* attempt[c]: the loop variable
  wake,             \* wake[c]: when the sleep of a throttled c ends
  reading,          \* reading[c]: the clock as c read it inside the lock
  outcome,          \* outcome[c]: what _request returned or raised
  wire,             \* wire[c]: the request c waits on, or the answer to it
  stray,            \* stray[c]: copies c no longer waits on, not yet acted on
  executed,         \* executed[c]: how often the exchange acted on c's write
  sends,            \* history: requests c has put on the wire
  recent,           \* history: recent[c]: when, for those of the last Period ticks
  answered,         \* history: answers with counters so far; it numbers them
  newest,           \* history: the newest of them that a caller got, 0 once
                    \* one without counters came instead
  idle              \* ticks passed while nobody slept

limiterVars == <<now, hits, log>>
given == <<keyed, endpoint>>
observed == <<rateLimit, newest>>
callVars == <<pc, attempt, wake, reading, outcome>>
sendVars == <<sends, recent>>
serverVars == <<wire, stray, executed, answered>>
vars == <<limiterVars, given, http, observed, callVars, serverVars, sendVars, idle>>

Limiter == INSTANCE RateLimiter

ASSUME LimiterAssumption == Limiter!BudgetAssumption

IsOrder(c) == endpoint[c] \in OrderPaths
IsWrite(c) == Method(endpoint[c]) = "POST"

\* MUTANT of AttemptsOf: withdrawals follow the retry policy.
AttemptsOfAny(c) == Attempts

AttemptsOf(c) == IF endpoint[c] \in NeverRetryPaths THEN 1 ELSE Attempts

Ended(c) == pc[c] \in {"returned", "raised"}
Sleeping(c) == pc[c] = "throttle" /\ wake[c] > now

\* What the wire holds: nothing, a request on its way, or an answer.
Nothing == [status |-> "nothing"]
Travelling == [status |-> "travelling"]
Answer(status, usable, hint, number) ==
  [status |-> status, usable |-> usable, hint |-> hint, number |-> number]

Init ==
  /\ Limiter!Init
  /\ keyed \in KeyChoices
  /\ rateLimit = 0 /\ newest = 0 /\ answered = 0
  /\ http = "open"
  /\ endpoint \in [Calls -> Requested]
  /\ pc = [c \in Calls |-> "idle"]
  /\ attempt = [c \in Calls |-> 1]
  /\ wake = [c \in Calls |-> now]
  /\ reading = [c \in Calls |-> None]
  /\ outcome = [c \in Calls |-> "pending"]
  /\ wire = [c \in Calls |-> Nothing]
  /\ stray = [c \in Calls |-> 0]
  /\ executed = [c \in Calls |-> 0]
  /\ sends = [c \in Calls |-> 0]
  /\ recent = [c \in Calls |-> <<>>]
  /\ idle = 0

-----------------------------------------------------------------------------
(* The callers *)

\* A caller calls an API method, which enters _request.
Call(c) ==
  /\ pc[c] = "idle"
  /\ pc' = [pc EXCEPT ![c] = "throttle"]
  /\ wake' = [wake EXCEPT ![c] = now]
  /\ UNCHANGED <<limiterVars, given, http, observed, attempt, reading, outcome,
                 serverVars, sendVars, idle>>

\* MUTANT of Enter: the clock is read before the lock is taken.
EnterUnlocked(c) ==
  /\ pc[c] = "throttle" /\ wake[c] <= now
  /\ reading' = [reading EXCEPT ![c] = now]
  /\ pc' = [pc EXCEPT ![c] = "reserving"]
  /\ UNCHANGED <<limiterVars, given, http, observed, attempt, wake, outcome,
                 serverVars, sendVars, idle>>

\* _throttle gets the lock, which nobody else holds, and reads the clock.
Enter(c) ==
  /\ pc[c] = "throttle" /\ wake[c] <= now
  /\ \A d \in Calls : pc[d] # "reserving"
  /\ reading' = [reading EXCEPT ![c] = now]
  /\ pc' = [pc EXCEPT ![c] = "reserving"]
  /\ UNCHANGED <<limiterVars, given, http, observed, attempt, wake, outcome,
                 serverVars, sendVars, idle>>

\* MUTANT of Reserve: the wait is ignored and the slot recorded anyway.
ReserveIgnoringWait(c) ==
  /\ pc[c] = "reserving"
  /\ hits' = [w \in Limiter!Windows |->
                Append(Limiter!Pruned(IsOrder(c), reading[c])[w], reading[c])]
  /\ log' = [w \in Limiter!Windows |-> Append(log[w], reading[c])]
  /\ pc' = [pc EXCEPT ![c] = "granted"]
  /\ UNCHANGED <<now, wake, given, http, observed, attempt, reading, outcome,
                 serverVars, sendVars, idle>>

\* MUTANT of Reserve: a refused caller parks until somebody notifies it.
ReserveParking(c) ==
  /\ pc[c] = "reserving"
  /\ \/ /\ Limiter!Take(IsOrder(c), reading[c])
        /\ pc' = [pc EXCEPT ![c] = "granted"]
     \/ /\ Limiter!Refuse(IsOrder(c), reading[c])
        /\ pc' = [pc EXCEPT ![c] = "parked"]
  /\ reading' = [reading EXCEPT ![c] = None]
  /\ UNCHANGED <<wake, given, http, observed, attempt, outcome, serverVars, sendVars,
                 idle>>

\* The rest of a round of _throttle: reserve() with the time that was read, the
\* lock is given back, and on with a slot, or sleep and ask again.
Reserve(c) ==
  /\ pc[c] = "reserving"
  /\ \/ /\ Limiter!Take(IsOrder(c), reading[c])
        /\ pc' = [pc EXCEPT ![c] = "granted"]
        /\ wake' = wake
     \/ /\ Limiter!Refuse(IsOrder(c), reading[c])
        /\ wake' = [wake EXCEPT ![c] = now + Limiter!Wait(IsOrder(c), reading[c])]
        /\ pc' = [pc EXCEPT ![c] = "throttle"]
  /\ reading' = [reading EXCEPT ![c] = None]
  /\ UNCHANGED <<given, http, observed, attempt, outcome, serverVars, sendVars, idle>>

\* An exception that the loop does not take leaves _request; the slot is spent.
Escape(c, exception) ==
  /\ pc' = [pc EXCEPT ![c] = "raised"]
  /\ outcome' = [outcome EXCEPT ![c] = exception]
  /\ UNCHANGED <<attempt, wake, reading>>

Signable(c) == Private(endpoint[c]) => keyed

\* prepare_request refuses to sign a private call without credentials.
RefuseToSign(c) ==
  /\ pc[c] = "granted" /\ ~ Signable(c)
  /\ Escape(c, "credentials")
  /\ UNCHANGED <<limiterVars, given, http, observed, serverVars, sendVars, idle>>

\* http.send on a client that is closed: a RuntimeError, not a TransportError.
FindClosed(c) ==
  /\ pc[c] = "granted" /\ Signable(c) /\ http = "closed"
  /\ Escape(c, "closed")
  /\ UNCHANGED <<limiterVars, given, http, observed, serverVars, sendVars, idle>>

\* prepare_request and http.send.
Send(c) ==
  /\ pc[c] = "granted" /\ Signable(c) /\ http = "open"
  /\ pc' = [pc EXCEPT ![c] = "flight"]
  /\ wire' = [wire EXCEPT ![c] = Travelling]
  /\ sends' = [sends EXCEPT ![c] = @ + 1]
  /\ recent' = [recent EXCEPT ![c] = Append(@, now)]
  /\ UNCHANGED <<limiterVars, given, http, observed, attempt, wake, reading,
                 outcome, stray, executed, answered, idle>>

\* close(), or the end of a with block, in whatever state the callers are: the
\* pool goes, and later sends fail, unless the client was passed in.  What is
\* in flight may still be answered, or fails as a broken connection does.
Close ==
  /\ http = "open"
  /\ http' = IF OwnsHttp THEN "closed" ELSE http
  /\ UNCHANGED <<limiterVars, given, observed, callVars, serverVars, sendVars, idle>>

\* MUTANT of Retries: one attempt too few.
RetriesTooFew(c, status) ==
  /\ attempt[c] + 1 < AttemptsOf(c)
  /\ Policy!ShouldRetry(Method(endpoint[c]), status)

\* MUTANT of Retries: one attempt too many.
RetriesTooMany(c, status) ==
  /\ attempt[c] <= AttemptsOf(c)
  /\ Policy!ShouldRetry(Method(endpoint[c]), status)

\* MUTANT of Retries: the method is not looked at.
RetriesAnyMethod(c, status) ==
  /\ attempt[c] < AttemptsOf(c)
  /\ Policy!ShouldRetry("GET", status)

\* Whether a failed attempt is followed by another one.
Retries(c, status) ==
  /\ attempt[c] < AttemptsOf(c)
  /\ Policy!ShouldRetry(Method(endpoint[c]), status)

\* MUTANT of Fail: only the first attempt goes through the limiter.
FailUnthrottled(c, status, hint) ==
  \/ /\ Retries(c, status)
     /\ pc' = [pc EXCEPT ![c] = "granted"]
     /\ attempt' = [attempt EXCEPT ![c] = @ + 1]
     /\ UNCHANGED <<wake, reading, outcome>>
  \/ ~ Retries(c, status) /\ Escape(c, status)

\* sleep(d) before the next attempt.  It refuses a delay that is not a number,
\* and one that is too long unless it then never returns.
Pause(c, d) ==
  \/ /\ d \in Int
     /\ wake' = [wake EXCEPT ![c] = now + d]
     /\ pc' = [pc EXCEPT ![c] = "throttle"]
     /\ attempt' = [attempt EXCEPT ![c] = @ + 1]
     /\ UNCHANGED <<reading, outcome>>
  \/ d = NaN /\ Escape(c, "nan delay")
  \/ d = Infinity /\ ~ SleepsForever /\ Escape(c, "endless delay")
  \/ /\ d = Infinity /\ SleepsForever
     /\ pc' = [pc EXCEPT ![c] = "asleep"]
     /\ UNCHANGED <<attempt, wake, reading, outcome>>

\* A failed attempt: work out the delay, sleep and throttle again, or raise.
Fail(c, status, hint) ==
  \/ /\ Retries(c, status) /\ ~ Policy!Overflows(attempt[c], hint)
     /\ \E d \in Policy!Delays(attempt[c], hint) : Pause(c, d)
  \/ /\ Retries(c, status) /\ Policy!Overflows(attempt[c], hint)
     /\ Escape(c, "overflow")
  \/ ~ Retries(c, status) /\ Escape(c, status)

\* decode_response and the model the endpoint parses it into: a success whose
\* body is not what it should be raises, though the exchange has acted.
Succeed(c) ==
  /\ pc' = [pc EXCEPT ![c] = IF wire[c].usable THEN "returned" ELSE "raised"]
  /\ outcome' = [outcome EXCEPT ![c] = IF wire[c].usable THEN "ok" ELSE "malformed"]
  /\ UNCHANGED <<attempt, wake, reading>>

\* _observe: counters that are there replace the state, absent ones do not.
Observe(number) ==
  /\ rateLimit' = IF number = 0 THEN rateLimit ELSE number
  /\ newest' = CASE number = 0 -> 0
                 [] number > newest -> number
                 [] OTHER -> newest

\* send returns: _observe the headers, then succeed or fail.
Receive(c) ==
  /\ pc[c] = "flight"
  /\ wire[c] \notin {Nothing, Travelling}
  /\ Observe(wire[c].number)
  /\ IF wire[c].status = "200" THEN Succeed(c)
                               ELSE Fail(c, wire[c].status, wire[c].hint)
  /\ wire' = [wire EXCEPT ![c] = Nothing]
  /\ UNCHANGED <<limiterVars, given, http, stray, executed, answered, sendVars, idle>>

\* The copy of a write the client stops waiting on: lost, or still under way.
Abandon(c) ==
  /\ wire' = [wire EXCEPT ![c] = Nothing]
  /\ \/ stray' = stray
     \/ /\ wire[c] = Travelling /\ IsWrite(c)
        /\ stray' = [stray EXCEPT ![c] = @ + 1]

\* send raises httpx.TransportError: a timeout or a broken connection, before
\* or after the exchange has acted.
TransportError(c) ==
  /\ pc[c] = "flight"
  /\ Abandon(c)
  /\ Fail(c, Policy!NoStatus, None)
  /\ UNCHANGED <<limiterVars, given, http, observed, executed, answered, sendVars, idle>>

-----------------------------------------------------------------------------
(* The exchange and the clock *)

Act(c) == executed' = IF IsWrite(c) THEN [executed EXCEPT ![c] = @ + 1] ELSE executed

Headers == [retryAfter : RetryAfterTexts, remaining : CounterTexts,
            period : CounterTexts, reset : CounterTexts]

\* An answer reaches the client, whose thread is yet to look at it.  Answers
\* with counters are numbered in the order in which they arrive.
Reply(c, status, usable) ==
  /\ wire[c] = Travelling
  /\ \E headers \in Headers :
       LET number == IF Response!HasCounters(headers) THEN answered + 1 ELSE 0
       IN /\ wire' = [wire EXCEPT ![c] =
                Answer(status, usable, Response!DelayHint(status, headers), number)]
          /\ answered' = IF number = 0 THEN answered ELSE number
  /\ UNCHANGED <<limiterVars, given, http, observed, callVars, stray, sendVars, idle>>

\* The exchange acts on a request and says so, intelligibly or not.
Accept(c) ==
  /\ \E usable \in BOOLEAN : Reply(c, "200", usable)
  /\ Act(c)

\* It rejects a request: too many of them, or a bad one.
Reject(c) ==
  /\ \E status \in {"429", "400"} : Reply(c, status, FALSE)
  /\ executed' = executed

\* It fails in the middle: a 5xx says nothing about whether it acted.
Break(c) ==
  /\ Reply(c, "503", FALSE)
  /\ Act(c) \/ executed' = executed

\* A copy nobody waits on any more arrives and is acted on, or comes to nothing.
StrayEnds(c) ==
  /\ stray[c] > 0
  /\ stray' = [stray EXCEPT ![c] = @ - 1]
  /\ Act(c) \/ executed' = executed
  /\ UNCHANGED <<limiterVars, given, http, observed, callVars, wire, answered,
                 sendVars, idle>>

\* Between reading the clock and learning how the attempt went.
Busy(c) == pc[c] \in {"reserving", "granted", "flight"}

\* Time passes: as long as it takes while a caller sleeps, and for at most
\* MaxIdle ticks besides, while a caller is busy.
Tick ==
  /\ IF \E c \in Calls : Sleeping(c) THEN idle' = idle
     ELSE idle < MaxIdle /\ (\E c \in Calls : Busy(c)) /\ idle' = idle + 1
  /\ Limiter!Tick
  /\ recent' = [c \in Calls |-> Limiter!Live(recent[c], now')]
  /\ UNCHANGED <<given, http, observed, callVars, serverVars, sends>>

\* All calls have ended and nothing is under way.
Finished ==
  /\ \A c \in Calls : Ended(c) /\ stray[c] = 0
  /\ UNCHANGED vars

\* The loop of _request, once it has been called.
Run(c) ==
  \/ Enter(c) \/ Reserve(c) \/ RefuseToSign(c) \/ FindClosed(c) \/ Send(c)
  \/ Receive(c) \/ TransportError(c)

Client(c) == Call(c) \/ Run(c)

Exchange(c) == Accept(c) \/ Reject(c) \/ Break(c) \/ StrayEnds(c)

Next ==
  \/ \E c \in Calls : Client(c) \/ Exchange(c)
  \/ Close
  \/ Tick
  \/ Finished

Spec == Init /\ [][Next]_vars

\* The clock runs, a runnable caller gets to run, and a request that is not
\* answered times out (DEFAULT_TIMEOUT).  The exchange owes nothing.
Fairness ==
  /\ WF_vars(Tick)
  /\ \A c \in Calls : WF_vars(Run(c))

FairSpec == Spec /\ Fairness
-----------------------------------------------------------------------------
\* The states _request can be in; a request on the wire belongs to a caller
\* that waits on it.
TypeOK ==
  /\ Limiter!TypeOK
  /\ keyed \in BOOLEAN
  /\ http \in {"open", "closed"} /\ (http = "closed" => OwnsHttp)
  /\ rateLimit \in 0 .. answered /\ newest \in 0 .. answered
  /\ endpoint \in [Calls -> Endpoint]
  /\ pc \in [Calls -> {"idle", "throttle", "reserving", "granted", "flight", "asleep",
                       "returned", "raised"}]
  /\ \A c, d \in Calls : pc[c] = "reserving" /\ pc[d] = "reserving" => c = d
  /\ attempt \in [Calls -> 1 .. Attempts]
  /\ wake \in [Calls -> Nat]
  /\ reading \in [Calls -> Nat \cup {None}]
  /\ \A c \in Calls : pc[c] = "reserving" => reading[c] \in 0 .. now
  /\ outcome \in [Calls -> {"pending", "ok", "malformed", "credentials", "closed",
                            "overflow", "nan delay", "endless delay", "cancelled",
                            Policy!NoStatus, "400", "429", "503"}]
  /\ stray \in [Calls -> Nat] /\ executed \in [Calls -> Nat]
  /\ answered \in Nat /\ sends \in [Calls -> Nat] /\ recent \in [Calls -> Seq(Nat)]
  /\ \A c \in Calls : wire[c] # Nothing => pc[c] = "flight"

\* No request reaches the exchange, on a first attempt or a retry, without a
\* slot of every budget it counts against; a call that fails to sign or finds
\* the client closed wastes exactly one, and no other slot is taken for nothing.
Slots(c) ==
  sends[c] + IF pc[c] = "granted" \/ outcome[c] \in {"credentials", "closed"}
             THEN 1 ELSE 0

Paid(S) == SumFunctionOnSet([c \in Calls |-> Slots(c)], S)

EveryRequestPaid ==
  /\ Len(log["general"]) = Paid(Calls)
  /\ Len(log["order"]) = Paid({c \in Calls : IsOrder(c)})

\* A slot is dated when it is reserved, not when the request leaves, so callers
\* held up in between can overrun a budget on the wire: by one request each,
\* however they are scheduled, and not by more.
OverrunIsBounded ==
  LET onTheWire == [c \in Calls |-> Len(Limiter!Live(recent[c], now))]
  IN  \A w \in {v \in Limiter!Windows : Limiter!Budget!Metered(v)} :
        LET users == {c \in Calls : w \in Limiter!Budget!Drawn(IsOrder(c))}
        IN  SumFunctionOnSet(onTheWire, users) <= Limiter!Limit[w] + Cardinality(users)

\* No caller is ever asleep for longer than max_backoff, where that is a number,
\* and one period of the limiter allow, whatever a server asks for, infinity and
\* nan included; and none sleeps forever.
SleepsAreBounded ==
  \A c \in Calls :
    /\ pc[c] # "asleep"
    /\ Sleeping(c) =>
         wake[c] - now <= IF Policy!Less(MaxBackoff, Period) THEN Period ELSE MaxBackoff

\* However callers interleave on one limiter, with time passing between the
\* reading of the clock and reserve(), no rolling window of one period holds
\* more of the slots they were given than its budget allows.
CallersWithinBudget == Limiter!WithinBudget

\* What the caller of a write is told (Submission's verdict).  A read submits
\* nothing: it stays pending.
Verdict(c) ==
  IF outcome[c] = "pending" \/ ~ IsWrite(c) THEN "pending"
  ELSE IF outcome[c] = "ok" THEN "accepted"
  ELSE IF outcome[c] \in {"400", "429", "credentials", "closed", "overflow", "nan delay",
                           "endless delay"}
       THEN "rejected" ELSE "unknown"

Writing == INSTANCE Submission WITH verdict <- [c \in Calls |-> Verdict(c)]

\* Under the default policy a write is never replayed once the exchange may
\* have acted on it, and a rejection is final even if copies are late.
WritesAreSubmissions == Writing!Spec

\* A withdrawal is sent once, whatever the policy and however it fails.
WithdrawalSentOnce ==
  \A c \in Calls : endpoint[c] \in Withdrawals => sends[c] <= 1

\* A call gives up on a failure worth retrying only when its attempts are used
\* up, whatever the failure and the method; or in the one delay() that overflows,
\* or because the delay was not a number or, under no ceiling, too long to sleep.
GivesUpOnlyAtTheEnd ==
  \A c \in Calls : pc[c] = "raised" =>
    /\ Policy!ShouldRetry(Method(endpoint[c]), outcome[c]) => sends[c] = AttemptsOf(c)
    /\ outcome[c] = "overflow" => MaxExponent + 1 < sends[c] /\ sends[c] < AttemptsOf(c)
    /\ outcome[c] = "nan delay" => NaN \in RetryAfterTexts \cup {Backoff}
    /\ outcome[c] = "endless delay" => MaxBackoff \notin Int

\* config.py:20: a 429 "is always retried", as long as there are attempts left.
RateLimitedIsRetried ==
  [][\A c \in Calls :
       Receive(c) /\ wire[c].status = "429" /\ attempt[c] < AttemptsOf(c)
       => attempt'[c] = attempt[c] + 1]_vars

\* Every call ends: no lost wakeup, no sleep that never ends, no starvation of
\* a throttled caller by the others' retries.
EveryCallEnds == \A c \in Calls : pc[c] # "idle" ~> Ended(c)

\* _engine.py:50-53 on rate_limit: the counters "as of the most recent
\* response", None "if the server stopped sending the X-RateLimit-* headers".
RateLimitIsCurrent == rateLimit = newest
=============================================================================
