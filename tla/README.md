# A verification project for pylightningfx

pylightningfx is a Python client of the bitFlyer Lightning exchange: an HTTP API with
client-side rate limiting and retries, in a threaded and an asyncio version, and a
WebSocket client that reconnects and subscribes again by itself. What makes it worth
modelling is not its data (pydantic models, JSON, HMAC) but its control: several callers
on one rate limiter, retries of writes whose outcome is unknown, and a connection that is
cut at any moment while the program is in the middle of something.

This directory holds TLA+ modules for those parts, TLC configurations that check them on
small instances, and TLAPS proofs of the same safety properties for every value of the
constants: of the rate limiter for every limit, of the request loops for every number of
callers and every policy, of the realtime clients for every set of channels and any number
of messages, cuts and cancellations.
All paths below are relative to `src/src/pylightningfx/`.

## Inventory

| Component | State | Operations | Hard because of |
|---|---|---|---|
| Limiter (`_ratelimit.py`) | a deque of timestamps per window: general, order | `reserve(now, order)` | two windows taken together, lazy pruning, boundaries of the rolling window |
| Settings (`config.py`) | none (frozen) | `should_retry`, `delay` | which failures are ambiguous for which methods; caps and hints |
| Endpoints (`public.py`, `private.py`, async twins) | none | one method per endpoint | which budget, whether signed, whether a write, whether ever retried |
| SyncEngine (`_engine.py`, `_transport.py`) | `_limiter` under `_lock`, `_rate_limit`, `_http`, a loop variable per call | `_request`: throttle, sign, send, observe, retry; `close` | threads interleave at every lock and sleep; requests and answers are lost or late; the exchange may have acted |
| AsyncEngine (`_engine.py`) | the same, `_alock` | the same, with awaits | cancellation at any await |
| RealtimeClient (`realtime.py`) | `_ws`, `_authenticated`, `_subscribed`, `_buffer`, `_ids`; the generator of `listen()` | `connect`, `close`, `subscribe`, `unsubscribe`, `next()` of `listen()` | requests and pushed messages share one stream; connections are cut between any two steps, inside a reconnect too |
| AsyncRealtimeClient (`realtime.py`) | the same | the same, with awaits | cancellation, answers to cancelled requests |
| Models, enums, errors, parameter helpers | none | parsing | pure data, not modelled |

How they interact. A `Client` method calls `_get` or `_post`, which enters `_request`. Each
attempt first asks the limiter, under a lock, with a clock read inside the lock; a refusal
comes back as a number of seconds that the caller sleeps outside the lock. Several callers
share the limiter, the clock, `_rate_limit` and the HTTP client, which any of them may
close; nothing else. Each caller and the exchange exchange one request and one answer at a
time, over a network that loses either and delivers copies late. The WebSocket client shares
nothing with this: one thread (or task) and one server, connected by two queues.

What makes each part correct:

* limiter: no rolling window of one period ever holds more requests than its limit; an
  order takes both slots or none; the wait it reports is the first moment that fits;
* request loop: every request that leaves has a slot; a write is never sent again once the
  exchange may have acted on it, under the default policy; a withdrawal never at all; a
  caller is told "rejected" only about a write that will not happen; a failure worth
  retrying ends a call only with its last attempt; no server can make a caller sleep longer
  than the settings allow; every call ends;
* realtime client: messages arrive in order, none twice, none missing but those that went
  down with a connection; subscriptions survive reconnects; private channels are only asked
  for on an authenticated connection; reconnects end; a call waits only for what can come.

The hazards behind these, each at its line, are in `PROJECT.json`.

## Modules

| Module | Models | Uses |
|---|---|---|
| `RateBudget` | the promise: requests granted against budgets, only the history as state | |
| `RateLimiter` | `Limiter`, `_Window`: two deques | INSTANCE `RateBudget` |
| `RateLimiterProofs` | theorems about `RateLimiter` | EXTENDS `RateLimiter`, TLAPS |
| `OperatorLemmas` | lemmas about the operators the models share: queues, dicts, sums over finite sets | EXTENDS `SequencesExt`, `Functions`, TLAPS |
| `Endpoints` | the endpoint table and its classification | |
| `RetryPolicy` | `RetryPolicy` of `config.py`, delays as floats with `nan` and `inf` | |
| `Responses` | what `_transport.py` reads off the headers of an answer | |
| `Submission` | the promise about a write: executed at most once, and what its caller may believe | |
| `RequestLoop` | `SyncEngine._request` run by several threads, the exchange and the network | `Endpoints`; INSTANCE `RateLimiter`, `RetryPolicy`, `Responses`, `Submission` |
| `RequestLoopProofs` | theorems about `RequestLoop` | EXTENDS `RequestLoop`, `OperatorLemmas`; INSTANCE `RateLimiterProofs` |
| `AsyncRequestLoop` | `AsyncEngine`: the same and cancellation | EXTENDS `RequestLoop` |
| `AsyncRequestLoopProofs` | the same with cancellation | EXTENDS `AsyncRequestLoop`, `RequestLoopProofs` |
| `Feed` | the promise about messages: in order, at most once, each delivered or lost | |
| `Realtime` | `RealtimeClient`, the server and the network | INSTANCE `Feed` |
| `AsyncRealtime` | `AsyncRealtimeClient`: the same and cancellation | EXTENDS `Realtime` |
| `RealtimeProofs` | the inductive invariant of `Realtime`; answers, authentication, names | EXTENDS `Realtime`, `OperatorLemmas` |
| `RealtimeStreamProofs` | the stream: order, and the steps of `Feed` | EXTENDS `RealtimeProofs` |
| `RealtimeSubscriptionProofs` | what a reconnect forgets and restores | EXTENDS `RealtimeProofs` |
| `AsyncRealtimeProofs` | all of these with cancellation | EXTENDS `AsyncRealtime`, `RealtimeStreamProofs`, `RealtimeSubscriptionProofs` |
| `MC...` | instances for TLC | |

Operators commented `MUTANT of X` are not part of a model: each is X with a plausible bug,
kept to show that the property it is listed for would notice.

### RateLimiter

`hits[w]` is the deque of window `w`, `log[w]` a history of all grants that the code does
not have, `now` the clock in ticks. `Take` and `Refuse` are the two outcomes of
`reserve()`; both prune the consulted deques (`Live`, the loop of `wait_for`), and `Take`
records in all of them. A window whose limit is `None` or 0 does not exist (`Metered`).
`Init` starts at any time and `Tick` advances it by one; real clocks are denser, but
the code only compares and subtracts timestamps.

### RequestLoop

`pc[c]` is where caller `c` is in `_request`: `throttle` (waiting for the lock, or asleep
until `wake[c]`, either for a slot or between attempts), `reserving` (inside the lock, with
the clock it read there in `reading[c]`), `granted`, `flight` (inside `send`), `asleep` (in a
sleep that never ends), and `returned` or `raised`. One action per step between which other
threads can run or time can pass: `Enter` takes the lock of `_throttle` and reads the clock;
`Reserve` is the rest of that round, `reserve()` with the time that was read, the lock given
back, and the sleep after a refusal; `RefuseToSign`, `FindClosed` and `Send` are
`prepare_request` and the start of `http.send`; `Receive` and `TransportError` are its two
endings with all that follows up to the next sleep. `Fail` is the decision to retry and
`Pause` the sleep before the next attempt. `Close` is `close()`, called by anybody at any
moment: it closes `http` only if the engine made it (`OwnsHttp`), after which a send raises
a `RuntimeError` that the loop does not take. What is in flight then ends as any request
does, answered or with a transport error.

That the threads' readings reach the limiter in order is not assumed: the clock may advance
and others may run between `Enter` and `Reserve`, and only the lock keeps them apart. The
mutant that reads the clock before it takes the lock breaks `CallersWithinBudget`.

The exchange accepts (`Accept`), rejects (`Reject`: 429, 400) or breaks (`Break`: 503,
having acted or not). When the client stops waiting (`Abandon`), the copy on the wire may
still be acted on later (`StrayEnds`). Reads do not count in `executed`. A success whose
body does not decode, in `decode_response` or in a model, is a `malformed` outcome.

Every answer carries headers out of `CounterTexts` and `RetryAfterTexts`, and `Responses`
says what the code makes of them. Only a 429 has a hint (`DelayHint`); it is any float that
`float()` accepts. Answers with counters are numbered in the order of their arrival, and
`rateLimit` is the number of the one in `_rate_limit`; `newest` is the history it is
compared with.

`RetryPolicy` is any policy `__post_init__` lets through. Its test is `< 0`, which `nan` and
`inf` pass, so `Backoff` and `MaxBackoff` are floats; `retry_statuses` is a parameter.
`Delays` follows Python's `min` and `max`: under a numeric ceiling `inf` becomes
`max_backoff` and `nan` stays `nan`; a ceiling of `nan` caps nothing. Without a hint the
jitter is any delay in the upper half of the interval. `Overflows` is the attempt at which
`2.0 ** (attempt - 1)` raises, whatever the ceiling (`MaxExponent`, 1023 of a double).
`Pause` then is what `sleep` does with the result: `nan` is refused (`nan delay`); infinity
is refused by `time.sleep` (`endless delay`) and never over in `asyncio.sleep`
(`SleepsForever`), as of Python 3.13, which `pyproject.toml` requires.

`log`, `executed`, `sends`, `answered`, `newest` and `recent` are histories; `recent[c]`
dates the requests of `c` that left in the last period (pruned with the limiter's `Live`).
`sends` and `executed` are what makes retries visible.

### Realtime

`at` is where the single thread is: outside (`user`, where a suspended `listen()` also
leaves it), `opening` a connection, in the loop of `_each`, `calling` (in `_call`),
`listening`, or in the `backoff` sleep of `_reconnect_now`. `job` is the method the user
called; `attempt` and `wanted` are the locals of `_reconnect_now`; `stream` is the
generator; `reconnect` is the argument, chosen by `Init`. `Raise` says where an exception
goes: into the next attempt, into a reconnect, or to the user. A connection is `dead` once
it is cut (`Drop`), which throws away the requests and an arbitrary tail of the frames
under way; the client finds out when it has read the rest (`FindClosed`) or when it sends
(`Ask`). Pushed messages are numbered. A frame may fail to validate, which ends the
generator. `lost` collects the messages that went down with a connection or did not
validate. The server serves requests in order and may refuse any.

`Feed` is what is left of this for the user of `listen()`: a number of messages pushed, a
sequence delivered, a set lost. `Realtime` implements it with the identity as refinement
mapping (`ImplementsFeed`), its fairness included: a message that is not lost is delivered
in the end, whatever connections, reconnects and requests come in between. `StaysInFeed` is
the safety part alone, every step of the client a step of `Feed` or invisible in it; it also
holds of a client whose user cancels and may stop listening.

Abstractions: one generator at a time; the keepalive ping is the reason a dead peer is
noticed at all, so `Drop` stands for it; frames that are neither answers nor channel
messages are not sent.

Where `listen()` connects itself it goes on to `recv()` without a look at its buffer, once:
place `reading`, against `listening`, which drains first. The handshake is a call and could
buffer; that it does not rests on an assumption about the server, stated at `Push`: nothing is
pushed on a connection before a subscription on it. The comment of `realtime.py:331-332` and
`tests/test_realtime.py:337-345` allow for such a server; from one, a message buffered by that
handshake would be delivered after the first that `recv()` reads, which is newer.

### Cancellation

`AsyncRequestLoop!Cancel` is possible where `_throttle` and `_request` await: `throttle`,
`flight` and `asleep`. Between the reservation and `http.send` there is no await, which is why
slots and requests still match (`EveryRequestPaid`). Inside the lock there is none either,
so no task runs between `Enter` and `Reserve` of another; the model lets them, as threads do,
which only adds behaviours. `AsyncRealtime!Cancel` is possible at
the handshake, in `_call`, in `recv()` and in the backoff sleep.

## Runs

| Run | Question | Instance and bounds |
|---|---|---|
| `limiter` | Does the limiter keep and implement its budgets? | limits 3 and 2, period 3; 9 ticks, 7 grants: both windows fill, drain and refill out of step |
| `zero_budget` (violation) | Is a limit of 0 a limit? | limits 0 and 2 |
| `requests_threads` | Do slots match requests, does a call give up only where it may, does every call end? | 2 threads of a read or a withdrawal that opted in to unsafe retries, one slot per tick, an engine that may be closed, fairness; 3 attempts, the last delay of which overflows (`MaxExponent` 0); `Retry-After` a date, too long, `nan` and `inf` |
| `requests_async` | Is cancellation safe, and what leaves in one period? | 2 tasks of an order and a signed read, with or without keys, default policy but for a ceiling of infinity, so that a server can put a task to sleep for good; `Retry-After` 0 or infinity; 2 attempts; limits 2 and 1 per tick; an engine that may be closed; one tick that passes between clock, slot and send |
| `nan_hint` (violation) | Is a 429 always retried? | one order, `Retry-After: nan`, 3 attempts |
| `stale_rate_limit` (violation) | Is `rate_limit` that of the latest answer? | 2 callers, answers with and without headers |
| `realtime` | Are the stream and the subscriptions right, and does it recover? | a public and a private channel, every user call (3 in all), 2 messages, 3 faults, no limit of attempts, `reconnect` on and off |
| `async_realtime` | Is cancellation safe, also with answers that come late and reconnects that give up? | the same with `reconnect` on, 4 calls and cancellations, 3 faults, giving up after 2 attempts |
| `half_open` (violation) | Is a connection always authenticated before it is used? | one refusal, two calls of `subscribe` |
| `closed_subscriptions` (violation) | Is `subscriptions` current after `close()`? | no faults at all |
| `backoff_overflow` (violation) | Does `None` retry forever? | 1026 failed connects, the real exponent 1023 |
| `cancelled_reconnect` (violation) | Do subscriptions survive a cancelled `next()`? | one channel, one fault, one cancellation |

What they show, in short. The limiter and both request loops keep their promises; the
retry policy is one under which a write is executed at most once, a rejection is final and
a success is real, even with copies that arrive after the client has given up, and when
the engine is closed under its callers. A slot is dated when it is taken: what leaves in
one period can exceed a budget by one request per caller that was held up between its slot
and the wire, which happens, and by no more (`OverrunIsBounded`). No header keeps a caller
asleep longer than `max_backoff` and one period where `max_backoff` is a number
(`SleepsAreBounded`). A failure worth retrying ends a call with its last attempt, or for one
of three other reasons, each with its condition (`GivesUpOnlyAtTheEnd`): the delay overflows,
it is not a number, or it is too long to sleep and no ceiling cuts it.
The realtime client never reorders, duplicates or drops a message it has received, and
restores every subscription after a reconnect, however often the connection is cut on the
way. It forgets subscriptions only in a call that raises (`ForgetsOnlyLoudly`), and `_call`,
which has no timeout, waits only while its answer can still come (`AnswerIsComing`): a
silent server is all that can block it.

### Where the code and its documentation part

1. `rate_limit` keeps the counters of an earlier answer when headers stop coming
   (`_engine.py:57-60` against `50-53`), and those of the older of two answers when their
   threads get to `_observe` in the other order. Run `stale_rate_limit`.
2. A limit of 0 lifts the limit (`_ratelimit.py:45` against `config.py:88-89`). Run
   `zero_budget`.
3. After `close()` and a new connection `subscriptions` lists channels that are not
   subscribed, and listening to it is silent (`realtime.py:296-302` against `132-134`).
   Run `closed_subscriptions`.
4. `2.0 ** (attempt - 1)` overflows at attempt 1025, some 13 hours into an outage with the
   default ceiling, and `OverflowError` leaves `listen()` (`realtime.py:208` against
   `243-245`). Run `backoff_overflow`.
5. A task cancelled during `_reconnect_now` loses the list of channels (`realtime.py:545`
   against `326-329`). Run `cancelled_reconnect`. The same list is lost, by design or not,
   when `max_reconnect_attempts` is exceeded; and a cancellation during a later attempt
   leaves in `subscriptions` what an earlier attempt had restored on a connection that is
   gone.
6. `connect()` assigns `_ws` before it authenticates and keeps it when that fails; the next
   call finds a connection, does not authenticate, and is told that a private channel needs
   the credentials it was given (`realtime.py:289-294` and `350-355` against `284-286`).
   Run `half_open`.
7. A 429 with `Retry-After: nan` is not retried: the hint goes through `min` and `max` as
   `nan` and `sleep` raises a `ValueError` out of the call (`_transport.py:202` against
   `config.py:20`, "HTTP 429 is always retried"). Run `nan_hint`.

Two more that nothing in the repository contradicts, so that no run reports them:
`__post_init__` accepts `nan` and `inf` as backoff and ceiling (`config.py:43-44`), which lift
the bound on sleeps; and `config.py:69` overflows as `realtime.py:208` does, for a policy of
more than 1024 attempts.

### Bounds

Calls, attempts, faults, pushes and ticks are bounded by the constants named `Max...`,
`Attempts` and `Calls`. Two callers are enough for one to be overtaken between any two of
its steps; two attempts for a retry and its exhaustion, three for one whose delay overflows
in between, with `MaxExponent` lowered to 0; two channels for a replay that fails half-way;
three faults for a cut, a failed reconnect and another cut inside the next, or for a cut and
two failures after which a client with two attempts gives up. `MaxIdle` bounds only the
ticks on which nobody sleeps and somebody is between its clock and the end of its attempt
(`Busy`), so a sleeper always wakes; `requests_async` allows one, which is what it takes to
hold a caller up between its clock and `reserve()` or between its slot and its send, and the
bound of `OverrunIsBounded` is reached there. A `nan` is a model value that no comparison of
`RetryPolicy` looks into, and an HTTP-date one that is not a number. The limiter's bounds do
not matter to what is proved.

### Fairness

`RequestLoop!FairSpec`: the clock advances; a thread that can go on inside `_request`
eventually does (`Run`; operating system scheduling, and `threading.Lock` is held for a
computation only); and a send ends, by an answer or by the timeout. The last is an
assumption: httpx applies `DEFAULT_TIMEOUT` to each operation, so a server that sends a byte
now and then is never timed out, and with `timeout=None` nobody is. Nothing is assumed of the
exchange, nor of whoever closes the engine. Starvation at the limiter is a real possibility
under unbounded load: `EveryCallEnds` holds because each of finitely many calls makes
finitely many attempts.

`Realtime!FairSpec`: the thread runs, the user keeps calling `next()`, and the server
answers requests. The last one is an assumption about the exchange, without
which nothing can be promised, because `_call` waits without a timeout. Faults
are finite in number.

## Proofs

`RateLimiterProofs` proves, for every `General`, `Order` (a natural number or `None`) and
every `Period` (`BudgetAssumption`): type correctness (`TypeCorrect`), that each deque is
the tail of its history that can still count (`DequesMatch`), that no window is ever over
budget (`NeverOverBudget`), that the reported wait is exact (`WaitsAreExact`), and
that `RateLimiter` implements `RateBudget` (`LimiterImplementsBudget`).

The argument. `WithinBudget` speaks of the whole history, which the code forgets; it is not
inductive without knowing what the deques hold. `IInv` therefore joins it with `TypeOK` and
`DequesMatchLog`: the deque is a tail of the sorted history, and everything it dropped is a
whole period old. From that, `WaitForIsExact` shows that a pruned deque with room, or with
an old head, means exactly that the entry one limit back in the history is a period old,
which is `FitsAt` of the abstract specification; so a `Take` is a `Grant`, a `Refuse` is
invisible, and a grant that fits keeps the history spaced.

`RequestLoopProofs` proves, for every finite set of calls and every set of endpoints, every
budget and every policy `__post_init__` accepts (`LoopAssumption`, `LimiterAssumption`):

* the budgets hold in the engine, where reading the clock and `reserve()` are two steps
  (`CallersStayInBudget`). `LockInv` says why: one caller at a time is between the two, and
  the time it has read is no earlier than any the limiter has recorded, because those were
  read before it entered (`LockIsHeld`). With that, its `Take` is one the limiter's own
  invariant allows, and time passing elsewhere does not disturb it;
* a withdrawal is sent once (`WithdrawalsAreSentOnce`), and a failure worth retrying ends a
  call only after the last attempt or for one of the three reasons above
  (`GivesUpAtTheEnd`, which states when each can occur). The inductive invariant,
  `AttemptsCounted`, ties the loop variable to the requests sent, place by place: one less
  while the attempt is being prepared, equal in flight, no more once the call has ended;
* without `retry_unsafe_methods`, the loop implements `Submission`
  (`WritesAreOnlySubmitted`), and so the exchange acts on a write once at most and its
  caller is told the truth (`WritesActOnce`). The refinement needs to know what the exchange
  may have done at each place a caller can be: nothing before a send, what the answer on the
  wire says during one, and afterwards one copy at most, none after a definite answer
  (`WritesSettled`). The step that matters is `FailTells`: a write is followed by another
  attempt only after a 429, of which nothing is left on the way;
* types (`CallsAreTyped`) and sleeps (`SleepsStayBounded`). `Typed` joins the limiter's
  `IInv` with the types of everything else, the floats of `Retry-After` and of the policy
  among them. `SleepsStayBounded` assumes that `max_backoff` is a number, which
  `__post_init__` does not check: then a delay that is slept is no greater, and no sleep
  lasts forever, whatever `backoff` is; a wait for a slot is at most a period
  (`WaitsAtMostAPeriod`, from the exactness of the wait);
* slots and requests balance (`EveryRequestIsPaid`). `SlotsPaid` says it of each window: the
  length of its log is a sum over the callers that draw on it, of their sends and of a slot
  in hand or wasted. One caller moves per step, so the sum changes by what its summand
  does (`SumOver...` of `OperatorLemmas`);
* what leaves in a period exceeds a budget by at most one request per caller
  (`OverrunStaysBounded`). The bound is not inductive: it speaks of the requests of the last
  period as the clock stands, while a slot is dated before its request and may have expired
  when the request leaves. `WireCovered` therefore looks from every later time `t` at once:
  the requests that still count at `t`, less one for each caller who has any and no slot in
  hand (`Excess`), are no more than the slots that still count at `t`. It is inductive
  because a caller takes its next slot only after its last request has left. At `t = now`
  the limiter's budget bounds the slots (`CoveredBounds`), and the sum adds one per caller.

The invariant of the last three is `LoopInv == Typed /\ SlotsCounted`. That `Calls` is finite
is assumed because a sum over it is meant; an engine has finitely many calls.

`OperatorLemmas` holds what those proofs need of sequences (heads, tails, appends and what
they do to `ToSet` and to injectivity), of the insertion-ordered dict that `_subscribed` is,
and of sums. The folds of the community modules are recursive functions over sets, and the
induction theorems of the library cannot be instantiated, so the facts about sums come from
the start: induction over subsets from an induction over cardinalities, that a function that
sums exists and is unique, and that the order of summation does not matter.

`RealtimeProofs` proves, for every set of channels, with and without keys and `reconnect`,
for every `max_reconnect_attempts` and any bounds (`RealtimeAssumption`):

* types (`TypeCorrect`), from `Shape`: what the thread, the connection and the client hold
  at each place (`ThreadOK`, `ConnectionOK`, `DataOK`, `PlacesOK`). The rest is built on it:
  a reconnect is under way exactly while `attempt` is positive, a call in progress asks for
  the head of `todo`, nothing is left on a connection that is not open but what has arrived;
* `_call` waits only for an answer that can come (`AnswersAreComing`), from `Answers`: every
  id on the wire is below the counter (`Fresh`), and on a live connection the pending
  request is the last one the server has to serve or its answer is in the inbox, and a good
  answer tells how things still stand at the server (`Answered`);
* `subscriptions` change only as the server's did (`NamesFollowTheServer`), in the step that
  reads the answer;
* no private channel is asked for before the server authenticated the connection
  (`PrivateChannelsNeedAuth`). `Guarded` is needed because the client decides by its own
  flag and the request is served later: on an open connection the flag means what it says,
  and nothing private is under way on a connection that the server has not authenticated.

`RealtimeStreamProofs`: `InOrder` says that what was delivered, then the buffer, then the
messages in the inbox are one increasing sequence, and that with what is lost they are all
that was pushed. `Unread` covers the one place where `listen()` skips its buffer: while it
opens a connection and until it is back, no message is in the buffer. From that, the stream
is intact (`TheStreamIsIntact`), and each step is a `Push`, a `Lose`, a `Deliver` of the
least outstanding number, or none of `Feed`'s business (`RealtimeIsAFeed`).

`RealtimeSubscriptionProofs`:

* a step that forgets a subscription is one that raises (`NothingForgottenSilently`), from
  `Replays`: after the handshake, what a reconnect wants is subscribed to again or still to
  be asked for;
* when a reconnect ends well, `subscriptions` is what it wanted, and on a connection that
  still lives the server serves all of it (`ReconnectsRestore`);
* what the user subscribed to is never forgotten, and is served again when `listen()` goes
  on (`SubscriptionsAreKept`, `SubscriptionsAreRestored`). These two assume `MaxAttempts =
  Forever` and `MaxFaults <= MaxExponent`: `max_reconnect_attempts` is `None` and fewer
  connects fail than `2.0 ** e` has exponents. Without the first the client gives up and
  forgets; without the second it does so by an overflow (`backoff_overflow`).
  The first two theorems hold for every setting and say that nothing else forgets. The
  invariant is `Reconnects` (with `Restores`, `Credentials` and `Affordable`, which says
  that the attempts so far are paid for by faults) and `Follows`, which ties the user's
  confirmed channels to `subscribed` or, during a reconnect, to `wanted`.

`AsyncRequestLoopProofs` and `AsyncRealtimeProofs` add the one step `Cancel` to these
invariants and conclude the same of `AsyncSpec`: whatever is proved of a threaded engine is
proved of the asyncio one, cancelled anywhere. The exceptions are `SubscriptionsAreKept`
and `SubscriptionsAreRestored`: a cancelled reconnect does lose subscriptions
(`cancelled_reconnect`), and `AsyncNothingForgottenSilently` is what is left.

Model-checked only: liveness (`EveryCallEnds`, `ReconnectEnds`, the fairness of
`ImplementsFeed`), which is out of the prover's reach; and the counterexamples of the
violation runs. Every invariant and every action property of a passing run is a
theorem.

## Not modelled

* HMAC, JSON and model validation as data. Where they can fail, the failure is an outcome.
* What an endpoint method sends besides its path (`build_params`, `_legs`, the model it
  parses into): pure data that no state depends on. The async mixins expose the same
  methods, which a test of the repository compares (`tests/test_parity.py`), and
  `Endpoints` stands for both.
* The fields of exceptions, and the values of the counters in `rate_limit`: only which
  answer they are from.
* Two generators, or two threads, on one realtime client, which its docstring excludes for
  the asyncio version and nothing promises for the other.
* HTTP statuses beyond one of each class (200, 400, 429, 503).
* The rounding of floats: time and delays are whole ticks, so what `now - period` loses in
  the last bit (`wait_for`) is not seen. Nor is a number too long for `sleep` but finite: a
  huge backoff or hint under a ceiling of `nan` or `inf` counts as sleepable.
* Negative limits, which `Limiter` accepts and a user has no reason to pass.
* A `httpx.DecodingError` while the body is read, a failure that is no `TransportError`.
* A period in `X-RateLimit-Period` of more than 308 digits.
* `stale_rate_limit` compares `_rate_limit` with the answers in the order they were received
  in; an answer that was received but not yet looked at does not count.
* A server that accepts a connection, keeps answering pings and never answers a request:
  the fairness of `Serve` excludes it.

## Plan

Done, in this order: `RateBudget`, `RateLimiter`, its proofs; `Endpoints`, `RetryPolicy`,
`Submission`, `RequestLoop`, `AsyncRequestLoop`; `Realtime`, `AsyncRealtime`. Then
`Responses`, the floats of `RetryPolicy`, closing, dated sends and numbered answers in
`RequestLoop`; `Feed`, its refinement, and `reconnect` in `Realtime`; `RequestLoopProofs`
and `AsyncRequestLoopProofs`. Then the rest of `RequestLoopProofs`, `OperatorLemmas`, and the
proofs about `Realtime` and `AsyncRealtime`. Then the lock as two steps, every policy that
`__post_init__` accepts, and `listen()` past its buffer, with the proofs that go with them.

Left, proving:

1. The abstract specifications on their own: that `Feed` delivers in increasing order and
   never what is lost, and that `RateBudget` admits a request once the window has room.
2. What a cancelled caller may conclude: which places in the loop rule out that the exchange
   has acted or will act on its write.
3. What `Endpoints` and `RetryPolicy` say as tables: which endpoints draw on the order budget,
   are signed, or are retried after what.
