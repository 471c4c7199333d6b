------------------------------- MODULE Realtime -------------------------------
(***************************************************************************)
(* RealtimeClient of src/src/pylightningfx/realtime.py: one thread drives  *)
(* one WebSocket connection, on which answers to its requests and pushed   *)
(* messages arrive in one order.  The network may cut the connection at    *)
(* any moment; inside listen() the client then reconnects, authenticates   *)
(* and subscribes again.  The server is the environment.                   *)
(***************************************************************************)
EXTENDS Integers, Sequences, SequencesExt, FiniteSets

CONSTANTS
  Channels, PrivateChannels,   \* channels.py; the private ones need auth
  Keyed,          \* api_key and api_secret were given
  ReconnectChoices,   \* what may be given for reconnect
  MaxAttempts,    \* max_reconnect_attempts, or Forever for None
  Forever,
  MaxExponent,    \* the largest e for which 2.0 ** e is a float: 1023
  UserCalls,      \* what the user calls besides next(), see Requested
  MaxCalls,       \* bound: such calls
  MaxPushes,      \* bound: messages the server pushes
  MaxFaults       \* bound: failures of the network and refusals of the server

ASSUME RealtimeAssumption ==
  /\ PrivateChannels \subseteq Channels
  /\ Keyed \in BOOLEAN /\ ReconnectChoices \subseteq BOOLEAN
  /\ MaxAttempts \in Nat \cup {Forever} /\ Forever \notin Nat
  /\ {MaxExponent, MaxCalls, MaxPushes, MaxFaults} \subseteq Nat
  /\ UserCalls \subseteq {"subscribe", "unsubscribe", "connect", "close"}

VARIABLES
  ws,             \* _ws: "none", "open", or "dead": set, but cut
  authenticated,  \* _authenticated
  subscribed,     \* _subscribed, in insertion order
  buffer,         \* _buffer
  ids,            \* the id _ids yields next
  at,             \* where the thread is; "user" outside the client
  job,            \* the method that runs: a user call or "next"
  todo,           \* names _each has yet to ask for
  pending,        \* the request _call waits on
  attempt,        \* of _reconnect_now; 0 outside it
  wanted,         \* of _reconnect_now
  stream,         \* the generator of listen(): "none", "fresh" until its first
                  \* _connection() has returned, "running" from then on
  raised,         \* what the last call raised, "none" if it did not
  inbox,          \* frames sent to the client on this connection, not yet read
  outbox,         \* requests sent to the server, not yet served
  knows,          \* the server has authenticated this connection
  serves,         \* the channels the server pushes on this connection
  reconnect,      \* _reconnect
  pushed,         \* messages pushed so far, numbered from 1
  delivered,      \* history: messages the user got
  lost,           \* history: messages that went down with a connection, or
                  \* that did not parse
  confirmed,      \* history: channels the user has subscribed to
  faults, calls   \* counted against their bounds

connection == <<ws, inbox, outbox, knows, serves>>
state == <<authenticated, subscribed, buffer, ids>>
task == <<job, todo, pending, attempt, wanted, stream, raised>>
history == <<reconnect, pushed, delivered, lost, confirmed, faults, calls>>
vars == <<connection, state, at, task, history>>

Frame(kind, n, good) == [kind |-> kind, n |-> n, good |-> good]
IsPush(frame) == frame.kind = "push"
Numbers(frames) == {frames[i].n : i \in {j \in DOMAIN frames : IsPush(frames[j])}}

NoRequest == [id |-> 0, method |-> "none", channel |-> "none"]

Init ==
  /\ ws = "none" /\ inbox = <<>> /\ outbox = <<>> /\ knows = FALSE /\ serves = {}
  /\ authenticated = FALSE /\ subscribed = <<>> /\ buffer = <<>> /\ ids = 1
  /\ at = "user" /\ job = "none" /\ todo = <<>> /\ pending = NoRequest
  /\ attempt = 0 /\ wanted = <<>> /\ stream = "none" /\ raised = "none"
  /\ pushed = 0 /\ delivered = <<>> /\ lost = {} /\ confirmed = {}
  /\ faults = 0 /\ calls = 0
  /\ reconnect \in ReconnectChoices
-----------------------------------------------------------------------------
(* How a method ends *)

\* Back to the user with a result or an exception.  An exception ends the
\* generator it passes through, and what _reconnect_now held.
Return(exception) ==
  /\ at' = "user" /\ job' = "none" /\ todo' = <<>> /\ pending' = NoRequest
  /\ attempt' = 0 /\ wanted' = <<>>
  /\ stream' = IF job = "next" /\ exception # "none" THEN "none" ELSE stream
  /\ raised' = exception

\* MUTANT of StartAttempt: `wanted` is read again in every round.
StartAttemptRereading(k, names) ==
  IF MaxAttempts # Forever /\ k > MaxAttempts THEN Return("gave up")
  ELSE /\ at' = "backoff" /\ attempt' = k
       /\ wanted' = (IF k = 1 THEN names ELSE subscribed)
       /\ todo' = <<>> /\ pending' = NoRequest
       /\ UNCHANGED <<job, stream, raised>>

\* _reconnect_now starts attempt k: give up, fail to compute the delay, or sleep.
StartAttempt(k, names) ==
  IF MaxAttempts # Forever /\ k > MaxAttempts THEN Return("gave up")
  ELSE IF k - 1 > MaxExponent THEN Return("overflow")
  ELSE /\ at' = "backoff" /\ attempt' = k /\ wanted' = names
       /\ todo' = <<>> /\ pending' = NoRequest
       /\ UNCHANGED <<job, stream, raised>>

\* Where an exception goes: _reconnect_now takes every one of these and tries
\* again; the loop of listen() takes ConnectionClosed, also from a connect() of
\* its own, and reconnects; everything else is the user's.
Raise(exception) ==
  CASE attempt > 0 ->
         StartAttempt(attempt + 1, wanted) /\ subscribed' = subscribed
    [] attempt = 0 /\ stream = "running" /\ job = "next"
         /\ exception = "closed" /\ reconnect ->
         StartAttempt(1, subscribed) /\ subscribed' = <<>>
    [] OTHER -> Return(exception) /\ subscribed' = subscribed

\* MUTANT of Disconnect: the flag stays.
DisconnectOnly ==
  /\ ws' = "none" /\ inbox' = <<>> /\ outbox' = <<>> /\ knows' = FALSE /\ serves' = {}
  /\ authenticated' = authenticated
  /\ lost' = lost \cup Numbers(inbox)

\* close(): what the server had under way on the connection is gone.
Disconnect ==
  /\ ws' = "none" /\ inbox' = <<>> /\ outbox' = <<>> /\ knows' = FALSE /\ serves' = {}
  /\ authenticated' = FALSE
  /\ lost' = lost \cup Numbers(inbox)

\* MUTANT of Connected: after a reconnect listen() goes on at once.
ConnectedForgetting ==
  CASE job = "next" -> at' = "listening" /\ stream' = "running" /\ attempt' = 0
                       /\ todo' = <<>>
    [] OTHER -> at' = "each" /\ UNCHANGED <<stream, attempt, todo>>

\* connect() has returned: replay the subscriptions, or go on with the method.
\* The first connect() of listen() comes before it drains; one that its loop
\* calls for recv() does not go back there.
Connected ==
  CASE attempt > 0 -> at' = "each" /\ todo' = wanted /\ UNCHANGED <<stream, attempt>>
    [] attempt = 0 /\ job = "next" ->
         /\ at' = (IF stream = "running" THEN "reading" ELSE "listening")
         /\ stream' = "running" /\ UNCHANGED <<todo, attempt>>
    [] OTHER -> at' = "each" /\ UNCHANGED <<stream, todo, attempt>>

\* MUTANT of Ask: the request that is sent and the wait take an id each.
AskTwice(method, channel) ==
  LET request(id) == [id |-> id, method |-> method, channel |-> channel]
  IN /\ ids' = ids + 2
     /\ \/ /\ at' = "calling" /\ pending' = request(ids + 1)
           /\ outbox' = IF ws' = "open" THEN Append(outbox, request(ids)) ELSE outbox
           /\ UNCHANGED <<job, todo, attempt, wanted, stream, raised, subscribed>>
        \/ ws' = "dead" /\ outbox' = outbox /\ Raise("closed")

\* _call sends.  On a connection that is cut it raises, or finds out later.
Ask(method, channel) ==
  LET request == [id |-> ids, method |-> method, channel |-> channel]
  IN /\ ids' = ids + 1
     /\ \/ /\ at' = "calling" /\ pending' = request
           /\ outbox' = IF ws' = "open" THEN Append(outbox, request) ELSE outbox
           /\ UNCHANGED <<job, todo, attempt, wanted, stream, raised, subscribed>>
        \/ ws' = "dead" /\ outbox' = outbox /\ Raise("closed")
-----------------------------------------------------------------------------
(* The user's calls *)

\* subscribe(*channels) and unsubscribe(*channels).
CallEach(method, names) ==
  /\ at = "user" /\ method \in UserCalls /\ calls < MaxCalls
  /\ calls' = calls + 1
  /\ at' = (IF ws = "none" THEN "opening" ELSE "each")
  /\ job' = method /\ todo' = names /\ raised' = "none"
  /\ UNCHANGED <<connection, state, pending, attempt, wanted, stream, reconnect,
                 pushed, delivered, lost, confirmed, faults>>

\* connect(): close whatever is open, then open.
CallConnect ==
  /\ at = "user" /\ "connect" \in UserCalls /\ calls < MaxCalls
  /\ calls' = calls + 1
  /\ Disconnect
  /\ at' = "opening" /\ job' = "connect" /\ raised' = "none"
  /\ UNCHANGED <<subscribed, buffer, ids, todo, pending, attempt, wanted, stream,
                 reconnect, pushed, delivered, confirmed, faults>>

\* close(), also from the body of a loop over listen().
CallClose ==
  /\ at = "user" /\ "close" \in UserCalls /\ calls < MaxCalls
  /\ calls' = calls + 1
  /\ Disconnect
  /\ UNCHANGED <<subscribed, buffer, ids, at, task, reconnect, pushed,
                 delivered, confirmed, faults>>

\* next(): of a new listen(), which connects before it drains, or of the one
\* that is suspended at a yield, which drains before it looks at _ws.
CallNext(fresh) ==
  /\ at = "user"
  /\ fresh \/ stream = "running"
  /\ job' = "next" /\ raised' = "none"
  /\ IF ~ fresh THEN at' = "listening" /\ stream' = stream
     ELSE IF ws = "none" THEN at' = "opening" /\ stream' = "fresh"
     ELSE at' = "listening" /\ stream' = "running"
  /\ UNCHANGED <<connection, state, todo, pending, attempt, wanted, history>>
-----------------------------------------------------------------------------
(* connect() and _each *)

\* MUTANT of Opened: the flag is set before the server has agreed.
OpenedTrusting ==
  /\ at = "opening"
  /\ ws' = "open"
  /\ authenticated' = Keyed
  /\ IF Keyed THEN Ask("auth", "none")
     ELSE Connected /\ UNCHANGED <<ids, outbox, pending, job, wanted, raised,
                                   subscribed>>
  /\ UNCHANGED <<inbox, knows, serves, buffer, history>>

\* sync_connect returns; with credentials _authenticate asks first of all.
Opened ==
  /\ at = "opening"
  /\ ws' = "open"
  /\ authenticated' = FALSE
  /\ IF Keyed THEN Ask("auth", "none")
     ELSE Connected /\ UNCHANGED <<ids, outbox, pending, job, wanted, raised,
                                   subscribed>>
  /\ UNCHANGED <<inbox, knows, serves, buffer, history>>

\* sync_connect raises: refused, timed out, or a failed handshake.
OpenFails ==
  /\ at = "opening" /\ faults < MaxFaults
  /\ faults' = faults + 1
  /\ Raise("os")
  /\ UNCHANGED <<connection, authenticated, buffer, ids, reconnect, pushed,
                 delivered, lost, confirmed, calls>>

\* The loop of _each asks for the next name; _check_private may refuse it.
AskNext ==
  /\ at = "each" /\ todo # <<>>
  /\ ws' = ws
  /\ LET method == IF attempt > 0 THEN "subscribe" ELSE job
     IN IF method = "subscribe" /\ Head(todo) \in PrivateChannels /\ ~ authenticated
        THEN Raise("rpc") /\ UNCHANGED <<ids, outbox>>
        ELSE Ask(method, Head(todo))
  /\ UNCHANGED <<inbox, knows, serves, authenticated, buffer, history>>

\* The loop of _each is over, and with it the method or the reconnect.
EachEnds ==
  /\ at = "each" /\ todo = <<>>
  /\ IF attempt = 0 THEN Return("none")
     ELSE /\ at' = "listening" /\ attempt' = 0 /\ wanted' = <<>>
          /\ UNCHANGED <<job, todo, pending, stream, raised>>
  /\ UNCHANGED <<connection, state, history>>

\* MUTANT of Matches: any answer will do.
MatchesAny(frame) == ~ IsPush(frame)

\* _match: the frame answers the request _call waits on.
Matches(frame) == ~ IsPush(frame) /\ frame.n = pending.id

\* _record: a name that is there already keeps its place.
Record ==
  subscribed' =
    CASE pending.method = "unsubscribe" ->
           RemoveFirst(subscribed, pending.channel)
      [] pending.method = "subscribe" /\ ~ Contains(subscribed, pending.channel) ->
           Append(subscribed, pending.channel)
      [] OTHER -> subscribed

\* The answer arrives: true, or something _match or _record raises on.
AnswerArrives ==
  /\ at = "calling" /\ inbox # <<>> /\ Matches(Head(inbox))
  /\ inbox' = Tail(inbox)
  /\ CASE ~ Head(inbox).good ->
            Raise("rpc") /\ UNCHANGED <<authenticated, confirmed>>
       [] Head(inbox).good /\ pending.method = "auth" ->
            /\ authenticated' = TRUE
            /\ Connected
            /\ pending' = NoRequest
            /\ UNCHANGED <<subscribed, confirmed, job, wanted, raised>>
       [] OTHER ->
            /\ Record
            /\ confirmed' =
                 CASE attempt > 0 -> confirmed
                   [] attempt = 0 /\ job = "subscribe" -> confirmed \cup {pending.channel}
                   [] OTHER -> confirmed \ {pending.channel}
            /\ at' = "each" /\ todo' = Tail(todo) /\ pending' = NoRequest
            /\ UNCHANGED <<authenticated, job, attempt, wanted, stream, raised>>
  /\ UNCHANGED <<ws, outbox, knows, serves, buffer, ids, reconnect, pushed,
                 delivered, lost, faults, calls>>

\* MUTANT of Buffered: it is dropped.
BufferedNot(frame) == buffer

\* Anything else _call reads goes behind what is already kept for listen().
Buffered(frame) == Append(buffer, frame)

OtherArrives ==
  /\ at = "calling" /\ inbox # <<>> /\ ~ Matches(Head(inbox))
  /\ inbox' = Tail(inbox)
  /\ buffer' = Buffered(Head(inbox))
  /\ UNCHANGED <<ws, outbox, knows, serves, authenticated, subscribed, ids, at,
                 task, history>>
-----------------------------------------------------------------------------
(* listen() *)

\* A frame reaches the loop: a message is yielded, one that does not validate
\* raises out of the generator, and anything else is skipped.
Yield(frame) ==
  CASE ~ IsPush(frame) -> at' = "listening" /\ UNCHANGED <<task, delivered, lost>>
    [] IsPush(frame) /\ frame.good ->
         delivered' = Append(delivered, frame.n) /\ lost' = lost /\ Return("none")
    [] OTHER ->
         delivered' = delivered /\ lost' = lost \cup {frame.n} /\ Return("validation")

Drain ==
  /\ at = "listening" /\ buffer # <<>>
  /\ buffer' = Tail(buffer)
  /\ Yield(Head(buffer))
  /\ UNCHANGED <<connection, authenticated, subscribed, ids, reconnect, pushed,
                 confirmed, faults, calls>>

\* MUTANT of Drained: the buffer can wait.
DrainedOrNot == TRUE

\* The loop leaves the buffer when it is empty.
Drained == buffer = <<>>

\* Where listen() reads the connection: behind the buffer, or, when it had to
\* connect for that, whatever the handshake has left in the buffer.
Reading == at = "reading" \/ (at = "listening" /\ Drained)

Receive ==
  /\ Reading /\ inbox # <<>>
  /\ inbox' = Tail(inbox)
  /\ Yield(Head(inbox))
  /\ UNCHANGED <<ws, outbox, knows, serves, state, reconnect, pushed, confirmed,
                 faults, calls>>

\* The user has closed the connection from the loop's body: connect again.
Reopen ==
  /\ at = "listening" /\ Drained /\ ws = "none"
  /\ at' = "opening"
  /\ UNCHANGED <<connection, state, task, history>>

\* recv() raises ConnectionClosed once everything that arrived has been read.
FindClosed ==
  /\ at = "calling" \/ Reading
  /\ ws = "dead" /\ inbox = <<>>
  /\ Raise("closed")
  /\ UNCHANGED <<connection, authenticated, buffer, ids, history>>

\* The sleep of _reconnect_now is over, and connect() closes what was left.
Retry ==
  /\ at = "backoff"
  /\ Disconnect
  /\ at' = "opening"
  /\ UNCHANGED <<subscribed, buffer, ids, task, reconnect, pushed, delivered,
                 confirmed, faults, calls>>
-----------------------------------------------------------------------------
(* The server and the network *)

\* The server serves a request; a refusal changes nothing.
Serve ==
  /\ outbox # <<>>
  /\ outbox' = Tail(outbox)
  /\ LET request == Head(outbox)
     IN \/ /\ inbox' = Append(inbox, Frame("reply", request.id, TRUE))
           /\ knows' = (knows \/ request.method = "auth")
           /\ serves' = CASE request.method = "subscribe" -> serves \cup {request.channel}
                          [] request.method = "unsubscribe" -> serves \ {request.channel}
                          [] OTHER -> serves
           /\ faults' = faults
        \/ /\ faults < MaxFaults
           /\ faults' = faults + 1
           /\ inbox' = Append(inbox, Frame("reply", request.id, FALSE))
           /\ UNCHANGED <<knows, serves>>
  /\ UNCHANGED <<ws, state, at, task, reconnect, pushed, delivered, lost,
                 confirmed, calls>>

\* It pushes a message, seldom one the models do not accept, and none before a
\* channel is subscribed to on the connection.
Push ==
  /\ serves # {} /\ pushed < MaxPushes
  /\ pushed' = pushed + 1
  /\ \/ /\ inbox' = Append(inbox, Frame("push", pushed', TRUE))
        /\ faults' = faults
     \/ /\ faults < MaxFaults
        /\ inbox' = Append(inbox, Frame("push", pushed', FALSE))
        /\ faults' = faults + 1
  /\ UNCHANGED <<ws, outbox, knows, serves, state, at, task, reconnect, delivered,
                 lost, confirmed, calls>>

\* The connection is cut; a prefix of what was under way still arrives.
Drop ==
  /\ ws = "open" /\ faults < MaxFaults
  /\ faults' = faults + 1
  /\ ws' = "dead" /\ outbox' = <<>> /\ knows' = FALSE /\ serves' = {}
  /\ \E k \in 0 .. Len(inbox) :
       /\ inbox' = SubSeq(inbox, 1, k)
       /\ lost' = lost \cup Numbers(SubSeq(inbox, k + 1, Len(inbox)))
  /\ UNCHANGED <<state, at, task, reconnect, pushed, delivered, confirmed, calls>>

\* listen() blocks on a live connection on which nothing more will come.
Waiting ==
  /\ Reading /\ ws = "open" /\ inbox = <<>>
  /\ UNCHANGED vars

Requested == {<<c>> : c \in Channels} \cup {p \in Channels \X Channels : p[1] # p[2]}

User ==
  \/ \E method \in {"subscribe", "unsubscribe"}, names \in Requested :
       CallEach(method, names)
  \/ CallConnect \/ CallClose
  \/ \E fresh \in BOOLEAN : CallNext(fresh)

Client ==
  \/ Opened \/ OpenFails \/ AskNext \/ EachEnds \/ AnswerArrives \/ OtherArrives
  \/ Drain \/ Receive \/ Reopen \/ FindClosed \/ Retry

Next == User \/ Client \/ Serve \/ Push \/ Drop \/ Waiting

Spec == Init /\ [][Next]_vars

\* The thread runs, the user keeps iterating, and the server answers: _call
\* waits on it without a timeout, so nothing can be promised otherwise.
FairSpec ==
  /\ Spec
  /\ WF_vars(Client) /\ WF_vars(Serve)
  /\ WF_vars(\E fresh \in BOOLEAN : CallNext(fresh))
-----------------------------------------------------------------------------
Places == {"user", "opening", "each", "calling", "listening", "reading", "backoff"}
Exceptions == {"none", "closed", "os", "rpc", "validation", "gave up", "overflow",
               "cancelled"}

\* The thread is where the code can be, and holds what it holds there: no
\* connection while it opens one, a request while it waits for an answer.
TypeOK ==
  /\ ws \in {"none", "open", "dead"} /\ at \in Places /\ raised \in Exceptions
  /\ stream \in {"none", "fresh", "running"}
  /\ serves \subseteq Channels /\ confirmed \subseteq Channels
  /\ ToSet(subscribed) \cup ToSet(wanted) \cup ToSet(todo) \subseteq Channels
  /\ IsInjective(subscribed)
  /\ at = "opening" => ws = "none"
  /\ at \in {"calling", "each", "reading"} => ws # "none"
  /\ at = "calling" <=> pending # NoRequest
  /\ attempt > 0 => job = "next" /\ stream = "running"
  /\ ws # "open" => outbox = <<>> /\ serves = {} /\ ~ knows
  /\ authenticated => ws # "none"

\* Messages reach the user in the order they were pushed, none twice, and none
\* is missing that neither went down with its connection nor failed to parse:
\* what _call reads past is kept, and comes before what recv() reads next.
StreamIntact ==
  LET coming == buffer \o inbox
      pushes == {i \in DOMAIN coming : IsPush(coming[i])}
  IN /\ \A i, j \in DOMAIN delivered : i < j => delivered[i] < delivered[j]
     /\ \A i, j \in pushes : i < j => coming[i].n < coming[j].n
     /\ \A i \in DOMAIN delivered, j \in pushes : delivered[i] < coming[j].n
     /\ ToSet(delivered) \cup Numbers(coming) = (1 .. pushed) \ lost

\* A private channel is only ever asked for on a connection that the server has
\* authenticated, however the connections before it failed.
PrivateNeedsAuth ==
  LET asked == {r.channel : r \in {s \in ToSet(outbox) : s.method = "subscribe"}}
  IN (serves \cup asked) \cap PrivateChannels # {} => knows

\* A channel that was subscribed to is never forgotten: it is in
\* `subscriptions`, or in what a reconnect under way will subscribe to.
KeepsSubscriptions ==
  confirmed \subseteq ToSet(IF attempt = 0 THEN subscribed ELSE wanted)

\* listen() goes on after a reconnect only when the server serves every channel
\* again on the connection it goes on with, unless that one is cut already.
RestoresSubscriptions ==
  [][attempt > 0 /\ at' = "listening"
     => ws' = "dead" \/ (ToSet(subscribed') = confirmed /\ confirmed \subseteq serves')]_vars

\* `subscriptions` changes with what the server did, never ahead of it or on an
\* answer to something else, on a connection that is not cut meanwhile.
RecordsWhatTheServerDid ==
  [][ws = "open" =>
       /\ ToSet(subscribed') \ ToSet(subscribed) \subseteq serves
       /\ (ToSet(subscribed) \ ToSet(subscribed')) \cap serves = {}]_vars

\* realtime.py:132-134: `subscriptions` are "channels currently subscribed":
\* while no request is under way, the server serves them on this connection.
SubscriptionsAreLive ==
  at \in {"user", "listening", "reading"} /\ ws = "open" => ToSet(subscribed) \subseteq serves

\* Every reconnect ends with the subscriptions restored once the faults end.
ReconnectEnds == attempt > 0 ~> attempt = 0 /\ ToSet(subscribed) = confirmed

\* Requests, reconnects and cuts never show in the stream of messages: whatever
\* one step of the client, the server or the network does to it, the feed may
\* do, and a user who keeps iterating gets every message that is not lost.
Stream == INSTANCE Feed
StaysInFeed == Stream!Spec
ImplementsFeed == Stream!FairSpec

\* Subscriptions are forgotten only by a call that raises: a reconnect that
\* gives up, whose delay overflows, or that is cancelled.  A reconnect that
\* goes on, however often it fails, forgets none.
ForgetsOnlyLoudly ==
  [][KeepsSubscriptions /\ ~ KeepsSubscriptions'
     => raised' \in {"gave up", "overflow", "cancelled"}]_vars

\* _call, which has no timeout, only waits for an answer that is still to come:
\* on a live connection its request is with the server, or the answer is among
\* the frames not yet read, also when answers to cancelled requests are.  So
\* only a server that never answers can block the client.
AnswerIsComing ==
  at = "calling" /\ ws = "open" =>
    \/ pending \in ToSet(outbox)
    \/ \E frame \in ToSet(inbox) : Matches(frame)

\* realtime.py:284-286: connect() authenticates "when credentials were
\* supplied" and is "called for you by `subscribe()` and `listen()`".
AuthenticatesFirst ==
  Keyed /\ ws = "open" /\ at \in {"each", "listening", "reading"} => authenticated

\* realtime.py:243-245: without max_reconnect_attempts the client "retries
\* forever".
RetriesForever == MaxAttempts = Forever => raised # "overflow"
=============================================================================
