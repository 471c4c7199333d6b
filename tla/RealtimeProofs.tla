---------------------------- MODULE RealtimeProofs ----------------------------
(***************************************************************************)
(* Machine-checked facts about Realtime, for every set of channels, every  *)
(* setting of the client and every number of calls, messages and faults.   *)
(***************************************************************************)
EXTENDS Realtime, OperatorLemmas

-----------------------------------------------------------------------------
(* What the thread, the connection and the client hold *)

Frames == [kind : {"push", "reply"}, n : Nat, good : BOOLEAN]
Requests ==
  [id : Nat \ {0}, method : {"auth"}, channel : {"none"}]
    \cup [id : Nat \ {0}, method : {"subscribe", "unsubscribe"}, channel : Channels]

\* What _each asks for: a reconnect only subscribes.
Asking == IF attempt > 0 THEN "subscribe" ELSE job

\* The locals of the methods on the stack, place by place.
ThreadOK ==
  /\ at \in Places /\ raised \in Exceptions
  /\ job \in {"none", "next", "connect", "subscribe", "unsubscribe"}
  /\ stream \in {"none", "fresh", "running"} /\ attempt \in Nat
  /\ todo \in Seq(Channels) /\ wanted \in Seq(Channels)
  /\ pending \in Requests \cup {NoRequest}
  /\ at = "calling" <=> pending # NoRequest
  /\ job = "none" <=> at = "user"
  /\ at \in {"listening", "reading"} => job = "next" /\ attempt = 0
  /\ at = "backoff" => attempt > 0
  /\ at \in {"user", "listening", "reading", "backoff"} => todo = <<>>
  /\ attempt > 0 => job = "next" /\ stream = "running"
  /\ attempt = 0 => wanted = <<>>
  /\ job = "next" /\ attempt = 0 => todo = <<>> /\ at # "each"
  /\ job = "connect" => todo = <<>>
  /\ at = "calling" =>
       \/ pending.method = "auth"
       \/ todo # <<>> /\ pending.channel = Head(todo) /\ pending.method = Asking

\* Both ends of the connection: what is cut holds nothing but what has arrived.
ConnectionOK ==
  /\ ws \in {"none", "open", "dead"} /\ serves \subseteq Channels
  /\ inbox \in Seq(Frames) /\ outbox \in Seq(Requests)
  /\ ws # "open" => outbox = <<>> /\ serves = {} /\ ~ knows
  /\ ws = "none" => inbox = <<>>

\* What the client keeps between calls, and the histories.
DataOK ==
  /\ subscribed \in Seq(Channels) /\ IsInjective(subscribed)
  /\ buffer \in Seq(Frames) /\ ids \in Nat \ {0}
  /\ pushed \in Nat /\ delivered \in Seq(Nat) /\ lost \subseteq Nat
  /\ confirmed \subseteq Channels /\ faults \in Nat

\* The thread has a connection where it uses one.
PlacesOK ==
  /\ at = "opening" => ws = "none"
  /\ at \in {"calling", "each", "reading"} => ws # "none"
  /\ authenticated => ws # "none"

Shape == ThreadOK /\ ConnectionOK /\ DataOK /\ PlacesOK

\* Shape is TypeOK and more.
LEMMA ShapeIsTyped == Shape => TypeOK
<1> SUFFICES ASSUME Shape PROVE TypeOK
  OBVIOUS
<1>1. ToSet(subscribed) \cup ToSet(wanted) \cup ToSet(todo) \subseteq Channels
  BY DEF Shape, ThreadOK, DataOK, ToSet
<1> QED
  BY <1>1 DEF Shape, ThreadOK, ConnectionOK, DataOK, PlacesOK, TypeOK

\* Shape holds before the first call.
LEMMA InitShape == Init => Shape
<1> SUFFICES ASSUME Init PROVE Shape
  OBVIOUS
<1>1. ThreadOK
  BY DEF Init, ThreadOK, Places, Exceptions
<1>2. ConnectionOK
  BY DEF Init, ConnectionOK
<1>3. PlacesOK
  BY DEF Init, PlacesOK
<1>4. IsInjective(<<>>)
  BY DEF IsInjective
<1>5. DataOK
  BY <1>4 DEF Init, DataOK
<1> QED
  BY <1>1, <1>2, <1>3, <1>5 DEF Shape
-----------------------------------------------------------------------------
(* How a method ends *)

\* Whatever is thrown, the thread that leaves the client holds nothing.
LEMMA Returning ==
  ASSUME ThreadOK, NEW e \in Exceptions, Return(e)
  PROVE  ThreadOK' /\ at' = "user" /\ attempt' = 0
BY DEF ThreadOK, Return, Places

\* An attempt holds the channels it is to restore, and nothing else.
LEMMA Starting ==
  ASSUME ThreadOK, NEW k \in Nat \ {0}, NEW names \in Seq(Channels),
         job = "next", stream = "running", StartAttempt(k, names)
  PROVE  /\ ThreadOK'
         /\ \/ at' = "user" /\ attempt' = 0 /\ raised' \in {"gave up", "overflow"}
            \/ at' = "backoff" /\ attempt' = k /\ wanted' = names
<1>1. CASE Return("gave up")
  BY <1>1, Returning DEF Exceptions, Return
<1>2. CASE Return("overflow")
  BY <1>2, Returning DEF Exceptions, Return
<1>3. CASE /\ at' = "backoff" /\ attempt' = k /\ wanted' = names
           /\ todo' = <<>> /\ pending' = NoRequest
           /\ UNCHANGED <<job, stream, raised>>
  BY <1>3 DEF ThreadOK, Places
<1> QED
  BY <1>1, <1>2, <1>3 DEF StartAttempt

\* An exception ends the call or starts an attempt, which takes over what the
\* client is subscribed to if it is the first one.
LEMMA Raising ==
  ASSUME ThreadOK, subscribed \in Seq(Channels), NEW e \in Exceptions, Raise(e)
  PROVE  /\ ThreadOK'
         /\ \/ /\ at' = "user" /\ attempt' = 0
            \/ /\ at' = "backoff" /\ attempt' = attempt + 1
               /\ wanted' = IF attempt = 0 THEN subscribed ELSE wanted
         /\ \/ subscribed' = subscribed
            \/ /\ attempt = 0 /\ stream = "running" /\ job = "next" /\ e = "closed"
               /\ subscribed' = <<>>
<1>1. CASE attempt > 0
  <2>1. StartAttempt(attempt + 1, wanted) /\ subscribed' = subscribed
    BY <1>1 DEF Raise
  <2>2. /\ attempt + 1 \in Nat \ {0} /\ wanted \in Seq(Channels) /\ attempt # 0
        /\ job = "next" /\ stream = "running"
    BY <1>1 DEF ThreadOK
  <2>3. /\ ThreadOK'
        /\ \/ at' = "user" /\ attempt' = 0
           \/ at' = "backoff" /\ attempt' = attempt + 1 /\ wanted' = wanted
    BY <2>1, <2>2, Starting
  <2> QED
    BY <2>1, <2>2, <2>3
<1>2. CASE attempt = 0 /\ stream = "running" /\ job = "next" /\ e = "closed" /\ reconnect
  <2>1. StartAttempt(1, subscribed) /\ subscribed' = <<>>
    BY <1>2 DEF Raise
  <2>2. 1 \in Nat \ {0}
    OBVIOUS
  <2>3. /\ ThreadOK'
        /\ \/ at' = "user" /\ attempt' = 0
           \/ at' = "backoff" /\ attempt' = 1 /\ wanted' = subscribed
    BY <1>2, <2>1, <2>2, Starting
  <2> QED
    BY <1>2, <2>1, <2>3
<1>3. CASE ~ (attempt > 0)
           /\ ~ (attempt = 0 /\ stream = "running" /\ job = "next" /\ e = "closed"
                 /\ reconnect)
  <2>1. Return(e) /\ subscribed' = subscribed
    BY <1>3 DEF Raise
  <2> QED
    BY <2>1, Returning
<1> QED
  BY <1>1, <1>2, <1>3

\* After a handshake the method goes on, or the replay begins.
LEMMA Connecting ==
  ASSUME ThreadOK, at = "opening" \/ (at = "calling" /\ pending.method = "auth"),
         Connected, pending' = NoRequest, UNCHANGED <<job, wanted, raised>>
  PROVE  /\ ThreadOK' /\ attempt' = attempt
         /\ IF attempt > 0 THEN at' = "each" /\ todo' = wanted
            ELSE at' \in {"each", "listening", "reading"} /\ todo' = todo
BY DEF ThreadOK, Connected, Places

\* The request of _call, as Ask makes it.
Request(method, channel) == [id |-> ids, method |-> method, channel |-> channel]

\* _call waits on what it has sent, or raises on a connection that is cut.
LEMMA Calling ==
  ASSUME ThreadOK, DataOK, at \in {"opening", "each"},
         NEW method, NEW channel, Request(method, channel) \in Requests,
         \/ method = "auth"
         \/ todo # <<>> /\ channel = Head(todo) /\ method = Asking,
         Ask(method, channel)
  PROVE  /\ ThreadOK' /\ ids' = ids + 1
         /\ \/ /\ at' = "calling" /\ pending' = Request(method, channel)
               /\ outbox' = IF ws' = "open" THEN Append(outbox, pending') ELSE outbox
               /\ UNCHANGED <<job, todo, attempt, wanted, stream, raised, subscribed>>
            \/ /\ ws' = "dead" /\ outbox' = outbox /\ at' \in {"user", "backoff"}
               /\ Raise("closed")
<1> DEFINE request == Request(method, channel)
<1>1. ids' = ids + 1
  BY DEF Ask
<1>2. CASE /\ at' = "calling" /\ pending' = request
           /\ outbox' = IF ws' = "open" THEN Append(outbox, request) ELSE outbox
           /\ UNCHANGED <<job, todo, attempt, wanted, stream, raised, subscribed>>
  <2>1. pending' \in Requests /\ pending' # NoRequest
    BY <1>2 DEF Requests, NoRequest
  <2>2. pending'.method = method /\ pending'.channel = channel
    BY <1>2 DEF Request
  <2>3. ThreadOK'
    BY <1>2, <2>1, <2>2 DEF ThreadOK, Asking, Places
  <2> QED
    BY <1>1, <1>2, <2>3
<1>3. CASE ws' = "dead" /\ outbox' = outbox /\ Raise("closed")
  <2>1. "closed" \in Exceptions /\ subscribed \in Seq(Channels)
    BY DEF Exceptions, DataOK
  <2>2. ThreadOK' /\ at' \in {"user", "backoff"}
    BY <1>3, <2>1, Raising
  <2> QED
    BY <1>1, <1>3, <2>2
<1> QED
  BY <1>2, <1>3 DEF Ask, Request
-----------------------------------------------------------------------------
(* What each step leaves on the stack *)

\* A user call starts with the names it was given, or with none.
LEMMA UserThread ==
  ASSUME ThreadOK, User
  PROVE  ThreadOK'
<1>1. ASSUME NEW method \in {"subscribe", "unsubscribe"}, NEW names \in Requested,
             CallEach(method, names)
      PROVE  ThreadOK'
  <2>1. names \in Seq(Channels)
    <3>1. CASE \E c \in Channels : names = <<c>>
      BY <3>1
    <3>2. CASE names \in Channels \X Channels
      <4>1. PICK c \in Channels, d \in Channels : names = <<c, d>>
        BY <3>2
      <4> QED
        BY <4>1
    <3> QED
      BY <3>1, <3>2 DEF Requested
  <2> QED
    BY <1>1, <2>1 DEF CallEach, ThreadOK, Places, Exceptions
<1>2. CASE CallConnect
  BY <1>2 DEF CallConnect, ThreadOK, Places, Exceptions
<1>3. CASE CallClose
  <2>1. UNCHANGED <<at, task>>
    BY <1>3 DEF CallClose
  <2> QED
    BY <2>1 DEF task, ThreadOK, Asking
<1>4. ASSUME NEW fresh \in BOOLEAN, CallNext(fresh)
      PROVE  ThreadOK'
  <2>1. /\ at' \in {"listening", "opening"} /\ job' = "next" /\ raised' = "none"
        /\ stream' \in {stream, "fresh", "running"} /\ at = "user"
        /\ UNCHANGED <<todo, pending, attempt, wanted>>
    BY <1>4 DEF CallNext
  <2>2. attempt = 0 /\ todo = <<>> /\ wanted = <<>> /\ pending = NoRequest
    BY <2>1 DEF ThreadOK
  <2>3. stream' \in {"none", "fresh", "running"}
    BY <2>1 DEF ThreadOK
  <2> QED
    BY <2>1, <2>2, <2>3 DEF ThreadOK, Places, Exceptions
<1> QED
  BY <1>1, <1>2, <1>3, <1>4 DEF User

\* A handshake ends in its first request, in the method, or in an exception.
LEMMA OpeningThread ==
  ASSUME ThreadOK, DataOK, Opened \/ OpenFails
  PROVE  ThreadOK'
<1>1. CASE OpenFails
  <2>1. "os" \in Exceptions /\ subscribed \in Seq(Channels)
    BY DEF Exceptions, DataOK
  <2> QED
    BY <1>1, <2>1, Raising DEF OpenFails
<1>2. CASE Opened /\ Keyed
  <2>1. Request("auth", "none") \in Requests
    BY DEF DataOK, Request, Requests
  <2>2. at = "opening" /\ Ask("auth", "none")
    BY <1>2 DEF Opened
  <2> QED
    BY <2>1, <2>2, Calling
<1>3. CASE Opened /\ ~ Keyed
  <2>1. /\ at = "opening" /\ Connected /\ pending' = pending
        /\ UNCHANGED <<job, wanted, raised>>
    BY <1>3 DEF Opened
  <2>2. pending = NoRequest
    BY <2>1 DEF ThreadOK
  <2> QED
    BY <2>1, <2>2, Connecting
<1> QED
  BY <1>1, <1>2, <1>3

\* The loop of _each asks for a channel it was given, or is refused.
LEMMA AskNextThread ==
  ASSUME ThreadOK, DataOK, AskNext
  PROVE  /\ ThreadOK'
         /\ \/ /\ Asking = "subscribe" /\ Head(todo) \in PrivateChannels /\ ~ authenticated
               /\ Raise("rpc") /\ ids' = ids /\ outbox' = outbox
            \/ /\ Ask(Asking, Head(todo)) /\ Request(Asking, Head(todo)) \in Requests
               /\ Asking = "subscribe" /\ Head(todo) \in PrivateChannels => authenticated
<1>1. at = "each" /\ todo # <<>> /\ Head(todo) \in Channels
  BY DEF AskNext, ThreadOK
<1>2. CASE Asking = "subscribe" /\ Head(todo) \in PrivateChannels /\ ~ authenticated
  <2>1. Raise("rpc") /\ ids' = ids /\ outbox' = outbox
    BY <1>2 DEF AskNext, Asking
  <2>2. "rpc" \in Exceptions /\ subscribed \in Seq(Channels)
    BY DEF Exceptions, DataOK
  <2> QED
    BY <1>2, <2>1, <2>2, Raising
<1>3. CASE ~ (Asking = "subscribe" /\ Head(todo) \in PrivateChannels /\ ~ authenticated)
  <2>1. Ask(Asking, Head(todo))
    BY <1>3 DEF AskNext, Asking
  <2>2. Asking \in {"subscribe", "unsubscribe"}
    BY <1>1 DEF ThreadOK, Asking
  <2>3. Request(Asking, Head(todo)) \in Requests
    BY <1>1, <2>2 DEF DataOK, Request, Requests
  <2> QED
    BY <1>1, <1>3, <2>1, <2>3, Calling
<1> QED
  BY <1>2, <1>3

\* The answer to a request lets the method go on, or is an exception.
LEMMA AnswerThread ==
  ASSUME ThreadOK, DataOK, AnswerArrives
  PROVE  ThreadOK'
<1>1. at = "calling" /\ pending \in Requests
  BY DEF AnswerArrives, ThreadOK
<1>2. CASE ~ Head(inbox).good
  <2>1. Raise("rpc")
    BY <1>2 DEF AnswerArrives
  <2>2. "rpc" \in Exceptions /\ subscribed \in Seq(Channels)
    BY DEF Exceptions, DataOK
  <2> QED
    BY <2>1, <2>2, Raising
<1>3. CASE Head(inbox).good /\ pending.method = "auth"
  <2>1. Connected /\ pending' = NoRequest /\ UNCHANGED <<job, wanted, raised>>
    BY <1>3 DEF AnswerArrives
  <2> QED
    BY <1>1, <1>3, <2>1, Connecting
<1>4. CASE Head(inbox).good /\ pending.method # "auth"
  <2>1. /\ at' = "each" /\ todo' = Tail(todo) /\ pending' = NoRequest
        /\ UNCHANGED <<job, attempt, wanted, stream, raised>>
    BY <1>4 DEF AnswerArrives
  <2>2. todo # <<>> /\ todo \in Seq(Channels)
    BY <1>1, <1>4 DEF ThreadOK
  <2>3. Tail(todo) \in Seq(Channels)
    BY <2>2
  <2> QED
    BY <1>1, <1>4, <2>1, <2>2, <2>3 DEF ThreadOK, Places
<1> QED
  BY <1>2, <1>3, <1>4

\* A frame that reaches the loop of listen() ends next(), or does not show.
LEMMA Yielding ==
  ASSUME ThreadOK, at \in {"listening", "reading"}, NEW frame, Yield(frame)
  PROVE  /\ ThreadOK'
         /\ attempt' = attempt \/ attempt' = 0
         /\ at' \in {"listening", "user"}
<1>1. CASE ~ IsPush(frame)
  <2>1. at' = "listening" /\ UNCHANGED task
    BY <1>1 DEF Yield
  <2> QED
    BY <2>1 DEF task, ThreadOK, Asking, Places
<1>2. CASE IsPush(frame) /\ frame.good
  <2>1. Return("none") /\ "none" \in Exceptions
    BY <1>2 DEF Yield, Exceptions
  <2> QED
    BY <2>1, Returning
<1>3. CASE IsPush(frame) /\ ~ frame.good
  <2>1. Return("validation") /\ "validation" \in Exceptions
    BY <1>3 DEF Yield, Exceptions
  <2> QED
    BY <2>1, Returning
<1> QED
  BY <1>1, <1>2, <1>3

\* Every step of the client leaves the stack in order.
LEMMA ClientThread ==
  ASSUME ThreadOK, DataOK, Client
  PROVE  ThreadOK'
<1>1. CASE Opened \/ OpenFails
  BY <1>1, OpeningThread
<1>2. CASE AskNext
  BY <1>2, AskNextThread
<1>3. CASE EachEnds
  <2>1. CASE attempt = 0
    <3>1. Return("none") /\ "none" \in Exceptions
      BY <1>3, <2>1 DEF EachEnds, Exceptions
    <3> QED
      BY <3>1, Returning
  <2>2. CASE attempt # 0
    <3>1. /\ at' = "listening" /\ attempt' = 0 /\ wanted' = <<>>
          /\ UNCHANGED <<job, todo, pending, stream, raised>>
          /\ at = "each" /\ todo = <<>>
      BY <1>3, <2>2 DEF EachEnds
    <3> QED
      BY <2>2, <3>1 DEF ThreadOK, Places
  <2> QED
    BY <2>1, <2>2
<1>4. CASE AnswerArrives
  BY <1>4, AnswerThread
<1>5. CASE OtherArrives
  BY <1>5 DEF OtherArrives, task, ThreadOK, Asking
<1>6. CASE Drain \/ Receive
  BY <1>6, Yielding DEF Drain, Receive, Reading
<1>7. CASE Reopen
  BY <1>7 DEF Reopen, task, ThreadOK, Places
<1>8. CASE FindClosed
  <2>1. Raise("closed") /\ "closed" \in Exceptions /\ subscribed \in Seq(Channels)
    BY <1>8 DEF FindClosed, Exceptions, DataOK
  <2> QED
    BY <2>1, Raising
<1>9. CASE Retry
  BY <1>9 DEF Retry, task, ThreadOK, Places, Asking
<1> QED
  BY <1>1, <1>2, <1>3, <1>4, <1>5, <1>6, <1>7, <1>8, <1>9 DEF Client

\* The server and the network do not touch it.
LEMMA NextThread ==
  ASSUME ThreadOK, DataOK, [Next]_vars
  PROVE  ThreadOK'
<1>1. ASSUME UNCHANGED <<at, task>>
      PROVE  ThreadOK'
  BY <1>1 DEF task, ThreadOK, Asking
<1>2. CASE Serve \/ Push \/ Drop \/ Waiting \/ UNCHANGED vars
  BY <1>1, <1>2 DEF Serve, Push, Drop, Waiting, vars
<1> QED
  BY <1>2, UserThread, ClientThread DEF Next
-----------------------------------------------------------------------------
(* What each step leaves on the connection, and what the client keeps *)

\* Messages are numbered by natural numbers.
LEMMA NumbersAreNat ==
  ASSUME NEW frames \in Seq(Frames)
  PROVE  Numbers(frames) \subseteq Nat
<1>1. \A i \in DOMAIN frames : frames[i] \in Frames
  OBVIOUS
<1>2. \A frame \in Frames : frame.n \in Nat
  BY DEF Frames
<1> QED
  BY <1>1, <1>2 DEF Numbers

\* Opening needs a fresh connection and leaves one request on it at most.
LEMMA OpeningConnection ==
  ASSUME Shape, Opened
  PROVE  ConnectionOK' /\ ws' = "open" /\ ids' \in Nat \ {0}
<1>1. /\ at = "opening" /\ ws' = "open" /\ ws = "none"
      /\ UNCHANGED <<inbox, knows, serves>>
  BY DEF Opened, Shape, PlacesOK
<1>2. outbox' \in Seq(Requests) /\ ids' \in Nat \ {0}
  <2>1. CASE Keyed
    <3>1. Ask("auth", "none")
      BY <2>1 DEF Opened
    <3>2. Request("auth", "none") \in Requests
      BY DEF Shape, DataOK, Request, Requests
    <3>3. /\ outbox' \in {outbox, Append(outbox, Request("auth", "none"))}
          /\ ids' = ids + 1
      BY <3>1 DEF Ask, Request
    <3>4. ids + 1 \in Nat \ {0} /\ outbox \in Seq(Requests)
      BY DEF Shape, ConnectionOK, DataOK
    <3>5. Append(outbox, Request("auth", "none")) \in Seq(Requests)
      BY <3>2, <3>4, Appended
    <3> QED
      BY <3>3, <3>4, <3>5
  <2>2. CASE ~ Keyed
    BY <2>2 DEF Opened, Shape, ConnectionOK, DataOK
  <2> QED
    BY <2>1, <2>2
<1> QED
  BY <1>1, <1>2 DEF Shape, ConnectionOK

\* So does the loop of _each.
LEMMA AskNextConnection ==
  ASSUME Shape, AskNext
  PROVE  ConnectionOK' /\ ids' \in Nat \ {0}
<1>1. UNCHANGED <<ws, inbox, knows, serves>>
  BY DEF AskNext
<1>2. \/ ids' = ids /\ outbox' = outbox
      \/ Ask(Asking, Head(todo)) /\ Request(Asking, Head(todo)) \in Requests
  BY AskNextThread DEF Shape
<1>3. \/ outbox' = outbox
      \/ ws' = "open" /\ outbox' \in Seq(Requests)
  <2>1. CASE Ask(Asking, Head(todo)) /\ Request(Asking, Head(todo)) \in Requests
    <3>1. outbox' = outbox
            \/ (ws' = "open" /\ outbox' = Append(outbox, Request(Asking, Head(todo))))
      BY <2>1 DEF Ask, Request
    <3> QED
      BY <2>1, <3>1 DEF Shape, ConnectionOK
  <2> QED
    BY <1>2, <2>1
<1>4. ids' \in Nat \ {0}
  BY <1>2 DEF Ask, Shape, DataOK
<1> QED
  BY <1>1, <1>3, <1>4 DEF Shape, ConnectionOK

\* A served request has its answer on the way.
LEMMA ServingConnection ==
  ASSUME Shape, Serve
  PROVE  ConnectionOK'
<1>1. /\ outbox # <<>> /\ Head(outbox) \in Requests /\ Tail(outbox) \in Seq(Requests)
      /\ ws = "open" /\ ws' = ws
  BY DEF Serve, Shape, ConnectionOK
<1>2. \A good \in BOOLEAN : Frame("reply", Head(outbox).id, good) \in Frames
  BY <1>1 DEF Frame, Frames, Requests
<1>3. inbox' \in Seq(Frames)
  <2>1. inbox' \in {Append(inbox, Frame("reply", Head(outbox).id, good)) : good \in BOOLEAN}
    BY DEF Serve
  <2> QED
    BY <1>2, <2>1, Appended DEF Shape, ConnectionOK
<1>4. serves' \subseteq Channels
  <2>1. Head(outbox).method = "subscribe" => Head(outbox).channel \in Channels
    BY <1>1 DEF Requests
  <2>2. \/ serves' = serves
        \/ Head(outbox).method = "subscribe" /\ serves' = serves \cup {Head(outbox).channel}
        \/ serves' = serves \ {Head(outbox).channel}
    BY DEF Serve
  <2> QED
    BY <2>1, <2>2 DEF Shape, ConnectionOK
<1> QED
  BY <1>1, <1>3, <1>4 DEF Serve, ConnectionOK

\* Every step leaves a connection that can be.
LEMMA NextConnection ==
  ASSUME Shape, [Next]_vars
  PROVE  ConnectionOK'
<1>1. ASSUME UNCHANGED connection
      PROVE  ConnectionOK'
  BY <1>1 DEF connection, Shape, ConnectionOK
<1>2. ASSUME Disconnect
      PROVE  ConnectionOK'
  BY <1>2 DEF Disconnect, ConnectionOK
<1>3. ASSUME inbox # <<>>, inbox' = Tail(inbox), UNCHANGED <<ws, outbox, knows, serves>>
      PROVE  ConnectionOK'
  BY <1>3 DEF Shape, ConnectionOK
<1>4. CASE User
  BY <1>1, <1>2, <1>4 DEF User, CallEach, CallConnect, CallClose, CallNext
<1>5. CASE Client
  <2>1. CASE OpenFails \/ EachEnds \/ Drain \/ Reopen \/ FindClosed \/ Retry
    BY <1>1, <1>2, <2>1 DEF OpenFails, EachEnds, Drain, Reopen, FindClosed, Retry
  <2>2. CASE AnswerArrives \/ OtherArrives \/ Receive
    BY <1>3, <2>2 DEF AnswerArrives, OtherArrives, Receive
  <2> QED
    BY <1>5, <2>1, <2>2, OpeningConnection, AskNextConnection DEF Client
<1>6. CASE Push
  <2>1. ws = "open" /\ UNCHANGED <<ws, outbox, knows, serves>>
    BY <1>6 DEF Push, Shape, ConnectionOK
  <2>2. \A good \in BOOLEAN : Frame("push", pushed', good) \in Frames
    BY <1>6 DEF Push, Frame, Frames, Shape, DataOK
  <2>3. inbox' \in Seq(Frames)
    <3>1. inbox' \in {Append(inbox, Frame("push", pushed', good)) : good \in BOOLEAN}
      BY <1>6 DEF Push
    <3> QED
      BY <2>2, <3>1, Appended DEF Shape, ConnectionOK
  <2> QED
    BY <2>1, <2>3 DEF Shape, ConnectionOK
<1>7. CASE Drop
  <2>1. PICK k \in 0 .. Len(inbox) : inbox' = SubSeq(inbox, 1, k)
    BY <1>7 DEF Drop
  <2>2. \A i \in 1 .. k : inbox[i] \in Frames
    BY DEF Shape, ConnectionOK
  <2>3. inbox' \in Seq(Frames)
    BY <2>1, <2>2
  <2> QED
    BY <1>7, <2>3 DEF Drop, ConnectionOK
<1>8. CASE Waiting \/ UNCHANGED vars
  BY <1>1, <1>8 DEF Waiting, vars
<1> QED
  BY <1>4, <1>5, <1>6, <1>7, <1>8, ServingConnection DEF Next

\* An exception leaves `subscriptions` as they are or clears them.
LEMMA RaisingKeepsNames ==
  ASSUME ThreadOK, DataOK, NEW e \in Exceptions, Raise(e)
  PROVE  subscribed' \in Seq(Channels) /\ IsInjective(subscribed')
<1>1. IsInjective(<<>>) /\ <<>> \in Seq(Channels)
  BY DEF IsInjective
<1>2. subscribed' \in {subscribed, <<>>}
  BY Raising DEF DataOK
<1> QED
  BY <1>1, <1>2 DEF DataOK

\* _record keeps `subscriptions` a dict, and tells what is in it.
LEMMA Recording ==
  ASSUME Shape, pending.channel \in Channels, Record,
         pending.method \in {"subscribe", "unsubscribe"}
  PROVE  /\ subscribed' \in Seq(Channels) /\ IsInjective(subscribed')
         /\ ToSet(subscribed') = IF pending.method = "subscribe"
                                 THEN ToSet(subscribed) \cup {pending.channel}
                                 ELSE ToSet(subscribed) \ {pending.channel}
<1>1. subscribed \in Seq(Channels) /\ IsInjective(subscribed)
  BY DEF Shape, DataOK
<1>2. CASE pending.method = "unsubscribe"
  <2>1. subscribed' = RemoveFirst(subscribed, pending.channel)
    BY <1>2 DEF Record
  <2> QED
    BY <1>1, <1>2, <2>1, FirstRemoved
<1>3. CASE pending.method = "subscribe" /\ ~ Contains(subscribed, pending.channel)
  <2>1. subscribed' = Append(subscribed, pending.channel)
    BY <1>3 DEF Record
  <2>2. ToSet(subscribed') = ToSet(subscribed) \cup {pending.channel}
    BY <1>1, <2>1, Appended
  <2>3. subscribed' \in Seq(Channels)
    BY <1>1, <2>1, Appended
  <2> QED
    BY <1>1, <1>3, <2>1, <2>2, <2>3, NewAppended
<1>4. CASE pending.method = "subscribe" /\ Contains(subscribed, pending.channel)
  <2>1. subscribed' = subscribed
    BY <1>4 DEF Record
  <2>2. pending.channel \in ToSet(subscribed)
    BY <1>1, <1>4, NewAppended
  <2> QED
    BY <1>1, <1>4, <2>1, <2>2
<1> QED
  BY <1>2, <1>3, <1>4

\* An answer that is recorded is one to a request for the channel at the head
\* of what _each has yet to ask for.
LEMMA AnswerRecorded ==
  ASSUME Shape, AnswerArrives, Head(inbox).good, pending.method # "auth"
  PROVE  /\ Record /\ todo # <<>> /\ pending.channel = Head(todo)
         /\ pending.method = Asking /\ pending.channel \in Channels
         /\ pending.method \in {"subscribe", "unsubscribe"}
         /\ confirmed' = IF attempt > 0 THEN confirmed
                         ELSE IF job = "subscribe" THEN confirmed \cup {pending.channel}
                         ELSE confirmed \ {pending.channel}
<1>1. at = "calling" /\ pending \in Requests
  BY DEF AnswerArrives, Shape, ThreadOK
<1>2. pending.channel \in Channels /\ pending.method \in {"subscribe", "unsubscribe"}
  BY <1>1 DEF Requests
<1>3. todo # <<>> /\ pending.channel = Head(todo) /\ pending.method = Asking
  BY <1>1 DEF Shape, ThreadOK
<1>4. Record
  BY DEF AnswerArrives
<1>5. confirmed' = IF attempt > 0 THEN confirmed
                   ELSE IF job = "subscribe" THEN confirmed \cup {pending.channel}
                   ELSE confirmed \ {pending.channel}
  BY DEF AnswerArrives, Shape, ThreadOK
<1> QED
  BY <1>2, <1>3, <1>4, <1>5

\* A frame is a message at most once: it is delivered, lost, or skipped.
LEMMA YieldingData ==
  ASSUME DataOK, NEW frame \in Frames, Yield(frame)
  PROVE  delivered' \in Seq(Nat) /\ lost' \subseteq Nat
<1>1. frame.n \in Nat
  BY DEF Frames
<1>2. CASE ~ IsPush(frame)
  BY <1>2 DEF Yield, DataOK
<1>3. CASE IsPush(frame) /\ frame.good
  <2>1. delivered' = Append(delivered, frame.n) /\ lost' = lost
    BY <1>3 DEF Yield
  <2> QED
    BY <1>1, <2>1, Appended DEF DataOK
<1>4. CASE IsPush(frame) /\ ~ frame.good
  BY <1>1, <1>4 DEF Yield, DataOK
<1> QED
  BY <1>2, <1>3, <1>4

\* The step of a client that reads an answer.
LEMMA AnswerData ==
  ASSUME Shape, AnswerArrives
  PROVE  DataOK'
<1>1. UNCHANGED <<buffer, ids, pushed, delivered, lost, faults>>
  BY DEF AnswerArrives
<1>2. subscribed' \in Seq(Channels) /\ IsInjective(subscribed') /\ confirmed' \subseteq Channels
  <2>1. CASE ~ Head(inbox).good
    <3>1. Raise("rpc") /\ confirmed' = confirmed /\ "rpc" \in Exceptions
      BY <2>1 DEF AnswerArrives, Exceptions
    <3> QED
      BY <3>1, RaisingKeepsNames DEF Shape, DataOK
  <2>2. CASE Head(inbox).good /\ pending.method = "auth"
    BY <2>2 DEF AnswerArrives, Shape, DataOK
  <2>3. CASE Head(inbox).good /\ pending.method # "auth"
    BY <2>3, AnswerRecorded, Recording DEF Shape, DataOK
  <2> QED
    BY <2>1, <2>2, <2>3
<1> QED
  BY <1>1, <1>2 DEF Shape, DataOK

\* Every step of the client keeps its data what they are.
LEMMA ClientData ==
  ASSUME Shape, Client
  PROVE  DataOK'
<1> USE DEF Shape
<1>1. CASE Opened
  <2>1. ids' \in Nat \ {0}
    BY <1>1, OpeningConnection
  <2>2. subscribed' \in Seq(Channels) /\ IsInjective(subscribed')
    <3>1. subscribed' = subscribed \/ (Raise("closed") /\ "closed" \in Exceptions)
      BY <1>1 DEF Opened, Ask, Exceptions
    <3> QED
      BY <3>1, RaisingKeepsNames DEF DataOK
  <2> QED
    BY <1>1, <2>1, <2>2 DEF Opened, history, DataOK
<1>2. CASE OpenFails
  <2>1. Raise("os") /\ "os" \in Exceptions
    BY <1>2 DEF OpenFails, Exceptions
  <2> QED
    BY <1>2, <2>1, RaisingKeepsNames DEF OpenFails, DataOK
<1>3. CASE AskNext
  <2>1. ids' \in Nat \ {0}
    BY <1>3, AskNextConnection
  <2>2. subscribed' \in Seq(Channels) /\ IsInjective(subscribed')
    <3>1. \/ subscribed' = subscribed
          \/ Raise("closed") /\ "closed" \in Exceptions
          \/ Raise("rpc") /\ "rpc" \in Exceptions
      BY <1>3 DEF AskNext, Ask, Exceptions
    <3> QED
      BY <3>1, RaisingKeepsNames DEF DataOK
  <2> QED
    BY <1>3, <2>1, <2>2 DEF AskNext, history, DataOK
<1>4. CASE AnswerArrives
  BY <1>4, AnswerData
<1>5. CASE OtherArrives
  <2>1. Head(inbox) \in Frames
    BY <1>5 DEF OtherArrives, ConnectionOK
  <2>2. buffer' \in Seq(Frames)
    BY <1>5, <2>1, Appended DEF OtherArrives, Buffered, DataOK
  <2> QED
    BY <1>5, <2>2 DEF OtherArrives, history, DataOK
<1>6. CASE Drain
  <2>1. Head(buffer) \in Frames /\ Tail(buffer) \in Seq(Frames)
    BY <1>6 DEF Drain, DataOK
  <2>2. delivered' \in Seq(Nat) /\ lost' \subseteq Nat
    BY <1>6, <2>1, YieldingData DEF Drain
  <2> QED
    BY <1>6, <2>1, <2>2 DEF Drain, DataOK
<1>7. CASE Receive
  <2>1. Head(inbox) \in Frames
    BY <1>7 DEF Receive, ConnectionOK
  <2>2. delivered' \in Seq(Nat) /\ lost' \subseteq Nat
    BY <1>7, <2>1, YieldingData DEF Receive
  <2> QED
    BY <1>7, <2>2 DEF Receive, state, DataOK
<1>8. CASE EachEnds \/ Reopen
  BY <1>8 DEF EachEnds, Reopen, state, history, DataOK
<1>9. CASE FindClosed
  <2>1. Raise("closed") /\ "closed" \in Exceptions
    BY <1>9 DEF FindClosed, Exceptions
  <2> QED
    BY <1>9, <2>1, RaisingKeepsNames DEF FindClosed, history, DataOK
<1>10. CASE Retry
  <2>1. lost' \subseteq Nat
    BY <1>10, NumbersAreNat DEF Retry, Disconnect, DataOK, ConnectionOK
  <2> QED
    BY <1>10, <2>1 DEF Retry, DataOK
<1> QED
  BY <1>1, <1>2, <1>3, <1>4, <1>5, <1>6, <1>7, <1>8, <1>9, <1>10 DEF Client

\* So does every step.
LEMMA NextData ==
  ASSUME Shape, [Next]_vars
  PROVE  DataOK'
<1> USE DEF Shape
<1>1. CASE User
  <2>1. lost' \subseteq Nat
    BY <1>1, NumbersAreNat
    DEF User, CallEach, CallConnect, CallClose, CallNext, Disconnect, history, DataOK,
        ConnectionOK
  <2>2. UNCHANGED <<subscribed, buffer, ids, pushed, delivered, confirmed, faults>>
    BY <1>1 DEF User, CallEach, CallConnect, CallClose, CallNext, state, history
  <2> QED
    BY <2>1, <2>2 DEF DataOK
<1>2. CASE Serve
  <2>1. faults' \in {faults, faults + 1}
    BY <1>2 DEF Serve
  <2> QED
    BY <1>2, <2>1 DEF Serve, state, DataOK
<1>3. CASE Push
  <2>1. pushed' = pushed + 1 /\ faults' \in {faults, faults + 1}
    BY <1>3 DEF Push
  <2> QED
    BY <1>3, <2>1 DEF Push, state, DataOK
<1>4. CASE Drop
  <2>1. PICK k \in 0 .. Len(inbox) :
          lost' = lost \cup Numbers(SubSeq(inbox, k + 1, Len(inbox)))
    BY <1>4 DEF Drop
  <2>2. \A i \in k + 1 .. Len(inbox) : inbox[i] \in Frames
    BY DEF ConnectionOK
  <2>3. SubSeq(inbox, k + 1, Len(inbox)) \in Seq(Frames)
    BY <2>2 DEF ConnectionOK
  <2>4. lost' \subseteq Nat
    BY <2>1, <2>3, NumbersAreNat DEF DataOK
  <2> QED
    BY <1>4, <2>4 DEF Drop, state, DataOK
<1>5. CASE Waiting \/ UNCHANGED vars
  BY <1>5 DEF Waiting, vars, state, history, DataOK
<1> QED
  BY <1>1, <1>2, <1>3, <1>4, <1>5, ClientData DEF Next

\* The thread has a connection wherever a step takes it.
LEMMA NextPlaces ==
  ASSUME Shape, [Next]_vars
  PROVE  PlacesOK'
<1> USE DEF Shape
<1>1. CASE User
  BY <1>1
  DEF User, CallEach, CallConnect, CallClose, CallNext, Disconnect, connection, state,
      PlacesOK
<1>2. CASE Opened
  <2>1. ws' = "open" /\ at = "opening"
    BY <1>2 DEF Opened
  <2>2. at' # "opening"
    <3>1. CASE Keyed
      <4>1. Ask("auth", "none") /\ Request("auth", "none") \in Requests
        BY <1>2, <3>1 DEF Opened, DataOK, Request, Requests
      <4> QED
        BY <2>1, <4>1, Calling
    <3>2. CASE ~ Keyed
      BY <1>2, <3>2 DEF Opened, Connected
    <3> QED
      BY <3>1, <3>2
  <2> QED
    BY <2>1, <2>2 DEF PlacesOK
<1>3. CASE OpenFails
  <2>1. Raise("os") /\ "os" \in Exceptions
    BY <1>3 DEF OpenFails, Exceptions
  <2>2. at' \in {"user", "backoff"}
    BY <2>1, Raising DEF DataOK
  <2> QED
    BY <1>3, <2>2 DEF OpenFails, connection, PlacesOK
<1>4. CASE AskNext
  <2>1. at' \in {"calling", "user", "backoff"}
    <3>1. CASE Raise("rpc")
      BY <3>1, Raising DEF DataOK, Exceptions
    <3>2. CASE Ask(Asking, Head(todo))
      <4>1. at' = "calling" \/ (Raise("closed") /\ "closed" \in Exceptions)
        BY <3>2 DEF Ask, Exceptions
      <4> QED
        BY <4>1, Raising DEF DataOK
    <3> QED
      BY <1>4, <3>1, <3>2, AskNextThread
  <2> QED
    BY <1>4, <2>1 DEF AskNext, PlacesOK
<1>5. CASE AnswerArrives
  <2>1. at' \in {"user", "backoff", "each", "listening", "reading"}
    <3>1. CASE ~ Head(inbox).good
      <4>1. Raise("rpc") /\ "rpc" \in Exceptions
        BY <1>5, <3>1 DEF AnswerArrives, Exceptions
      <4> QED
        BY <4>1, Raising DEF DataOK
    <3>2. CASE Head(inbox).good
      BY <1>5, <3>2 DEF AnswerArrives, Connected
    <3> QED
      BY <3>1, <3>2
  <2>2. at = "calling" /\ ws' = ws
    BY <1>5 DEF AnswerArrives
  <2> QED
    BY <2>1, <2>2 DEF PlacesOK
<1>6. CASE OtherArrives
  BY <1>6 DEF OtherArrives, PlacesOK
<1>7. CASE Drain \/ Receive
  <2>1. at' \in {"listening", "user"}
    BY <1>7, Yielding DEF Drain, Receive, Reading
  <2>2. UNCHANGED <<ws, authenticated>>
    BY <1>7 DEF Drain, Receive, connection, state
  <2> QED
    BY <2>1, <2>2 DEF PlacesOK
<1>8. CASE EachEnds \/ Reopen
  BY <1>8 DEF EachEnds, Reopen, Return, connection, state, PlacesOK
<1>9. CASE FindClosed
  <2>1. Raise("closed") /\ "closed" \in Exceptions
    BY <1>9 DEF FindClosed, Exceptions
  <2>2. at' \in {"user", "backoff"}
    BY <2>1, Raising DEF DataOK
  <2> QED
    BY <1>9, <2>2 DEF FindClosed, connection, PlacesOK
<1>10. CASE Retry
  BY <1>10 DEF Retry, Disconnect, PlacesOK
<1>11. CASE Serve \/ Push \/ Waiting \/ UNCHANGED vars
  <2>1. UNCHANGED <<ws, at, authenticated>>
    BY <1>11 DEF Serve, Push, Waiting, vars, connection, state
  <2> QED
    BY <2>1 DEF PlacesOK
<1>12. CASE Drop
  BY <1>12 DEF Drop, state, PlacesOK
<1> QED
  BY <1>1, <1>2, <1>3, <1>4, <1>5, <1>6, <1>7, <1>8, <1>9, <1>10, <1>11, <1>12
  DEF Next, Client

\* Every step keeps Shape.
LEMMA NextShape == Shape /\ [Next]_vars => Shape'
BY NextThread, NextConnection, NextData, NextPlaces DEF Shape

\* The thread is where the code can be, with what it holds there, whatever the
\* settings are and however often it is called and cut (realtime.py).
THEOREM TypeCorrect == Spec => []TypeOK
<1>1. Init => Shape
  BY InitShape
<1>2. Shape /\ [Next]_vars => Shape'
  BY NextShape
<1>3. Shape => TypeOK
  BY ShapeIsTyped
<1> QED
  BY <1>1, <1>2, <1>3, PTL DEF Spec
-----------------------------------------------------------------------------
(* Requests and their answers *)

\* What is asked for on this connection, or answered, bears an id that has been
\* given out, so the next request can be told from all of them.
Fresh ==
  /\ \A request \in ToSet(outbox) : request.id < ids
  /\ \A frame \in ToSet(inbox) : ~ IsPush(frame) => frame.n < ids
  /\ pending.id < ids

\* The server has done what was asked of it.
Served(request) ==
  /\ request.method = "auth" => knows
  /\ request.method = "subscribe" => request.channel \in serves
  /\ request.method = "unsubscribe" => request.channel \notin serves

\* The request that _call waits on is the last one the server has to serve, or
\* has been answered; a good answer tells how things stand at the server, which
\* has nothing else to do that could change them.
Answered ==
  at = "calling" /\ ws = "open" =>
    IF outbox = <<>>
    THEN /\ \E frame \in ToSet(inbox) : Matches(frame)
         /\ \A frame \in ToSet(inbox) : Matches(frame) /\ frame.good => Served(pending)
    ELSE /\ outbox[Len(outbox)] = pending
         /\ \A i \in 1 .. Len(outbox) - 1 : outbox[i].id # pending.id
         /\ \A frame \in ToSet(inbox) : ~ Matches(frame)

Answers == Fresh /\ Answered

\* No step but a request adds to what is under way, and a thread that waits on
\* nothing, or on a connection that is cut, has nothing to expect.
LEMMA NothingAsked ==
  ASSUME Answers, ids' = ids, pending' \in {pending, NoRequest},
         ids \in Nat \ {0},
         ToSet(outbox') \subseteq ToSet(outbox), ToSet(inbox') \subseteq ToSet(inbox),
         at' # "calling" \/ ws' # "open"
  PROVE  Answers'
<1>1. Fresh'
  BY DEF Answers, Fresh, NoRequest
<1>2. Answered'
  BY DEF Answered
<1> QED
  BY <1>1, <1>2 DEF Answers

\* A request that is sent is new, and the last one to be served.
LEMMA AskAnswers ==
  ASSUME Shape, Answers, at \in {"opening", "each"}, inbox' = inbox,
         NEW method, NEW channel, Request(method, channel) \in Requests,
         \/ method = "auth"
         \/ todo # <<>> /\ channel = Head(todo) /\ method = Asking,
         Ask(method, channel)
  PROVE  Answers'
<1> USE DEF Shape
<1> DEFINE request == Request(method, channel)
<1>1. /\ ids \in Nat \ {0} /\ ids' = ids + 1 /\ request.id = ids
      /\ outbox \in Seq(Requests) /\ pending = NoRequest
      /\ \A r \in ToSet(outbox) : r.id \in Nat
      /\ \A frame \in ToSet(inbox) : frame.n \in Nat
  <2>1. ids \in Nat \ {0} /\ ids' = ids + 1 /\ request.id = ids
    BY DEF Ask, Request, DataOK
  <2>2. pending = NoRequest
    BY DEF ThreadOK
  <2>3. ToSet(outbox) \subseteq Requests /\ ToSet(inbox) \subseteq Frames
    BY DEF ConnectionOK, ToSet
  <2> QED
    BY <2>1, <2>2, <2>3 DEF ConnectionOK, Requests, Frames
<1>2. CASE /\ at' = "calling" /\ pending' = request
           /\ outbox' = IF ws' = "open" THEN Append(outbox, request) ELSE outbox
  <2>1. CASE ws' = "open"
    <3>1. outbox' = Append(outbox, request)
      BY <1>2, <2>1
    <3>2. /\ outbox' # <<>> /\ Len(outbox') = Len(outbox) + 1
          /\ outbox'[Len(outbox')] = request
          /\ \A i \in 1 .. Len(outbox) : outbox'[i] = outbox[i] /\ outbox[i] \in ToSet(outbox)
          /\ ToSet(outbox') = ToSet(outbox) \cup {request}
      BY <1>1, <3>1, Appended DEF ToSet
    <3>3. Len(outbox) \in Nat
      BY <1>1
    <3>4. Fresh'
      BY <1>1, <1>2, <3>2 DEF Answers, Fresh
    <3>5. \A i \in 1 .. Len(outbox') - 1 : outbox'[i].id # request.id
      <4> SUFFICES ASSUME NEW i \in 1 .. Len(outbox)
                   PROVE  outbox'[i].id # request.id
        BY <3>2, <3>3
      <4>1. outbox'[i] = outbox[i] /\ outbox[i].id < ids /\ outbox[i].id \in Nat
        BY <1>1, <3>2 DEF Answers, Fresh
      <4> QED
        BY <1>1, <4>1
    <3>6. \A frame \in ToSet(inbox) : IsPush(frame) \/ frame.n # request.id
      BY <1>1 DEF Answers, Fresh
    <3>7. Answered'
      BY <1>2, <3>2, <3>5, <3>6 DEF Answered, Matches
    <3> QED
      BY <3>4, <3>7 DEF Answers
  <2>2. CASE ws' # "open"
    <3>1. Fresh'
      BY <1>1, <1>2, <2>2 DEF Answers, Fresh
    <3>2. Answered'
      BY <2>2 DEF Answered
    <3> QED
      BY <3>1, <3>2 DEF Answers
  <2> QED
    BY <2>1, <2>2
<1>3. CASE ws' = "dead" /\ outbox' = outbox /\ at' \in {"user", "backoff"}
  <2>1. pending' = NoRequest
    <3>1. ThreadOK'
      BY Calling
    <3> QED
      BY <1>3, <3>1 DEF ThreadOK
  <2>2. Fresh'
    BY <1>1, <1>3, <2>1 DEF Answers, Fresh, NoRequest
  <2>3. Answered'
    BY <1>3 DEF Answered
  <2> QED
    BY <2>2, <2>3 DEF Answers
<1> QED
  BY <1>2, <1>3, Calling

\* The server answers the last request when it has nothing else left, and the
\* answer is true then.
LEMMA ServeAnswers ==
  ASSUME Shape, Answers, Serve
  PROVE  Answers'
<1> USE DEF Shape
<1>1. /\ outbox # <<>> /\ outbox \in Seq(Requests) /\ inbox \in Seq(Frames)
      /\ ws = "open" /\ UNCHANGED <<ws, ids, at, pending>>
  BY DEF Serve, state, task, ConnectionOK
<1>2. PICK request \in Requests : request = Head(outbox)
  BY <1>1
<1>3. /\ request = outbox[1] /\ Len(outbox) \in Nat \ {0}
      /\ outbox' = Tail(outbox) /\ outbox' \in Seq(Requests)
      /\ Len(outbox') = Len(outbox) - 1
      /\ \A i \in 1 .. Len(outbox') : outbox'[i] = outbox[i + 1]
      /\ ToSet(outbox) = {request} \cup ToSet(outbox')
  BY <1>1, <1>2, HeadAndTail DEF Serve
<1>4. PICK good \in BOOLEAN :
        /\ inbox' = Append(inbox, Frame("reply", request.id, good))
        /\ good => Served(request)'
  <2>1. CASE /\ inbox' = Append(inbox, Frame("reply", request.id, TRUE))
             /\ knows' = (knows \/ request.method = "auth")
             /\ serves' = CASE request.method = "subscribe" -> serves \cup {request.channel}
                            [] request.method = "unsubscribe" -> serves \ {request.channel}
                            [] OTHER -> serves
    BY <2>1 DEF Served
  <2>2. CASE inbox' = Append(inbox, Frame("reply", request.id, FALSE))
    BY <2>2
  <2> QED
    BY <1>2, <2>1, <2>2 DEF Serve
<1> DEFINE reply == Frame("reply", request.id, good)
<1>5. reply \in Frames /\ ToSet(inbox') = ToSet(inbox) \cup {reply}
  <2>1. reply \in Frames
    BY DEF Frame, Frames, Requests
  <2> HIDE DEF reply
  <2>2. inbox' = Append(inbox, reply)
    BY <1>4 DEF reply
  <2> QED
    BY <1>1, <2>1, <2>2, Appended
<1>6. ~ IsPush(reply) /\ reply.n = request.id /\ reply.good = good
  BY DEF Frame, IsPush
<1> HIDE DEF reply
<1>7. request.id < ids
  BY <1>3 DEF Answers, Fresh
<1>8. Fresh'
  BY <1>1, <1>3, <1>5, <1>6, <1>7 DEF Answers, Fresh
<1>9. Answered'
  <2> SUFFICES ASSUME at = "calling"
               PROVE  Answered'
    BY <1>1 DEF Answered
  <2>1. /\ outbox[Len(outbox)] = pending
        /\ \A i \in 1 .. Len(outbox) - 1 : outbox[i].id # pending.id
        /\ \A frame \in ToSet(inbox) : ~ Matches(frame)
    BY <1>1 DEF Answers, Answered
  <2>2. \A frame : Matches(frame)' <=> Matches(frame)
    BY <1>1 DEF Matches
  <2>3. CASE outbox' = <<>>
    <3>1. Len(outbox) = 1 /\ request = pending
      <4>1. Len(outbox') = 0
        BY <2>3
      <4> QED
        BY <1>3, <2>1, <4>1
    <3>2. Matches(reply)
      BY <1>6, <3>1 DEF Matches
    <3>3. \E frame \in ToSet(inbox') : Matches(frame)'
      BY <1>5, <2>2, <3>2
    <3>4. \A frame \in ToSet(inbox') : Matches(frame)' /\ frame.good => Served(pending)'
      <4> SUFFICES ASSUME NEW frame \in ToSet(inbox'), Matches(frame), frame.good
                   PROVE  Served(pending)'
        BY <2>2
      <4>1. frame = reply
        BY <1>5, <2>1
      <4>2. Served(request)'
        BY <1>4, <1>6, <4>1
      <4> QED
        BY <1>1, <3>1, <4>2 DEF Served
    <3> QED
      BY <2>3, <3>3, <3>4 DEF Answered
  <2>4. CASE outbox' # <<>>
    <3>1. Len(outbox') \in Nat \ {0}
      BY <1>3, <2>4
    <3>2. outbox'[Len(outbox')] = pending
      BY <1>3, <2>1, <3>1
    <3>3. \A i \in 1 .. Len(outbox') - 1 : outbox'[i].id # pending.id
      BY <1>3, <2>1, <3>1
    <3>4. request.id # pending.id
      BY <1>3, <2>1, <3>1
    <3>5. \A frame \in ToSet(inbox') : ~ Matches(frame)'
      BY <1>5, <1>6, <2>1, <2>2, <3>4 DEF Matches
    <3> QED
      BY <1>1, <2>4, <3>2, <3>3, <3>5 DEF Answered
  <2> QED
    BY <2>3, <2>4
<1> QED
  BY <1>8, <1>9 DEF Answers

\* Frames that are read or pushed answer nothing.
LEMMA ReadingAnswers ==
  ASSUME Shape, Answers, OtherArrives \/ Push
  PROVE  Answers'
<1> USE DEF Shape
<1>1. /\ UNCHANGED <<ws, outbox, ids, at, pending>>
      /\ serves' = serves /\ knows' = knows /\ inbox \in Seq(Frames)
  BY DEF OtherArrives, Push, state, task, ConnectionOK
<1>2. \A frame : Matches(frame)' <=> Matches(frame)
  BY <1>1 DEF Matches
<1>3. CASE OtherArrives
  <2>1. inbox # <<>> /\ ~ Matches(Head(inbox)) /\ inbox' = Tail(inbox)
    BY <1>3 DEF OtherArrives
  <2>2. ToSet(inbox) = {Head(inbox)} \cup ToSet(inbox')
    BY <1>1, <2>1, HeadAndTail
  <2>3. \A frame \in ToSet(inbox) : Matches(frame) => frame \in ToSet(inbox')
    BY <2>1, <2>2
  <2>4. Fresh'
    BY <1>1, <2>2 DEF Answers, Fresh
  <2>5. Answered'
    BY <1>1, <1>2, <2>2, <2>3 DEF Answers, Answered, Served
  <2> QED
    BY <2>4, <2>5 DEF Answers
<1>4. CASE Push
  <2>1. PICK frame \in Frames : IsPush(frame) /\ inbox' = Append(inbox, frame)
    <3>1. pushed' \in Nat
      BY <1>4 DEF Push, DataOK
    <3>2. \A good \in BOOLEAN :
            Frame("push", pushed', good) \in Frames /\ IsPush(Frame("push", pushed', good))
      BY <3>1 DEF Frame, Frames, IsPush
    <3>3. inbox' \in {Append(inbox, Frame("push", pushed', good)) : good \in BOOLEAN}
      BY <1>4 DEF Push
    <3> QED
      BY <3>2, <3>3
  <2>2. ToSet(inbox') = ToSet(inbox) \cup {frame} /\ ~ Matches(frame)
    BY <1>1, <2>1, Appended DEF Matches
  <2>3. Fresh'
    BY <1>1, <2>1, <2>2 DEF Answers, Fresh
  <2>4. Answered'
    BY <1>1, <1>2, <2>2 DEF Answers, Answered, Served
  <2> QED
    BY <2>3, <2>4 DEF Answers
<1> QED
  BY <1>3, <1>4

\* Every step keeps requests and answers together.
LEMMA NextAnswers ==
  ASSUME Shape, Shape', Answers, [Next]_vars
  PROVE  Answers'
<1> USE DEF Shape
<1>1. ids \in Nat \ {0} /\ inbox \in Seq(Frames) /\ outbox \in Seq(Requests)
  BY DEF DataOK, ConnectionOK
<1>2. ASSUME at' # "calling"
      PROVE  pending' = NoRequest
  BY <1>2 DEF ThreadOK
<1>3. CASE User
  <2>1. at' # "calling" /\ ids' = ids
    BY <1>3 DEF User, CallEach, CallConnect, CallClose, CallNext, state
  <2>2. ToSet(outbox') \subseteq ToSet(outbox) /\ ToSet(inbox') \subseteq ToSet(inbox)
    BY <1>3, NoElements
    DEF User, CallEach, CallConnect, CallClose, CallNext, Disconnect, connection
  <2> QED
    BY <1>1, <1>2, <2>1, <2>2, NothingAsked
<1>4. CASE Opened
  <2>1. at = "opening" /\ inbox' = inbox
    BY <1>4 DEF Opened
  <2>2. CASE Keyed
    <3>1. Ask("auth", "none") /\ Request("auth", "none") \in Requests
      BY <1>4, <2>2 DEF Opened, DataOK, Request, Requests
    <3> QED
      BY <2>1, <3>1, AskAnswers
  <2>3. CASE ~ Keyed
    <3>1. at' # "calling" /\ ids' = ids /\ outbox' = outbox
      BY <1>4, <2>3 DEF Opened, Connected
    <3> QED
      BY <1>1, <1>2, <2>1, <3>1, NothingAsked
  <2> QED
    BY <2>2, <2>3
<1>5. CASE AskNext
  <2>1. at = "each" /\ inbox' = inbox /\ todo # <<>>
    BY <1>5 DEF AskNext
  <2>2. CASE Ask(Asking, Head(todo)) /\ Request(Asking, Head(todo)) \in Requests
    BY <2>1, <2>2, AskAnswers
  <2>3. CASE Raise("rpc") /\ ids' = ids /\ outbox' = outbox
    <3>1. at' \in {"user", "backoff"}
      BY <2>3, Raising DEF DataOK, Exceptions
    <3> QED
      BY <1>1, <1>2, <2>1, <2>3, <3>1, NothingAsked
  <2> QED
    BY <1>5, <2>2, <2>3, AskNextThread
<1>6. CASE AnswerArrives \/ Drain \/ Receive
  <2>1. ids' = ids /\ outbox' = outbox
    BY <1>6 DEF AnswerArrives, Drain, Receive, connection, state
  <2>2. inbox' = inbox \/ (inbox # <<>> /\ inbox' = Tail(inbox))
    BY <1>6 DEF AnswerArrives, Drain, Receive, connection
  <2>3. ToSet(inbox') \subseteq ToSet(inbox)
    BY <1>1, <2>2, HeadAndTail
  <2>4. at' # "calling"
    <3>1. CASE Drain \/ Receive
      BY <3>1, Yielding DEF Drain, Receive, Reading
    <3>2. CASE AnswerArrives /\ Head(inbox).good
      BY <3>2 DEF AnswerArrives, Connected
    <3>3. CASE AnswerArrives /\ ~ Head(inbox).good
      <4>1. Raise("rpc") /\ "rpc" \in Exceptions
        BY <3>3 DEF AnswerArrives, Exceptions
      <4> QED
        BY <4>1, Raising DEF DataOK
    <3> QED
      BY <1>6, <3>1, <3>2, <3>3
  <2> QED
    BY <1>1, <1>2, <2>1, <2>3, <2>4, NothingAsked
<1>7. CASE OtherArrives \/ Push
  BY <1>7, ReadingAnswers
<1>8. CASE OpenFails \/ FindClosed
  <2>1. UNCHANGED <<ids, inbox, outbox>>
    BY <1>8 DEF OpenFails, FindClosed, connection
  <2>2. at' # "calling"
    <3>1. \E e \in Exceptions : Raise(e)
      BY <1>8 DEF OpenFails, FindClosed, Exceptions
    <3> QED
      BY <3>1, Raising DEF DataOK
  <2> QED
    BY <1>1, <1>2, <2>1, <2>2, NothingAsked
<1>9. CASE EachEnds \/ Reopen \/ Retry
  <2>1. ids' = ids /\ at' # "calling"
    BY <1>9 DEF EachEnds, Reopen, Retry, Return, state
  <2>2. ToSet(outbox') \subseteq ToSet(outbox) /\ ToSet(inbox') \subseteq ToSet(inbox)
    BY <1>9, NoElements DEF EachEnds, Reopen, Retry, Disconnect, connection
  <2> QED
    BY <1>1, <1>2, <2>1, <2>2, NothingAsked
<1>10. CASE Serve
  BY <1>10, ServeAnswers
<1>11. CASE Drop
  <2>1. PICK k \in 0 .. Len(inbox) : inbox' = SubSeq(inbox, 1, k)
    BY <1>11 DEF Drop
  <2>2. ToSet(inbox') \subseteq ToSet(inbox)
    BY <1>1, <2>1 DEF ToSet
  <2>3. ids' = ids /\ pending' = pending /\ ws' = "dead" /\ outbox' = <<>>
    BY <1>11 DEF Drop, state, task
  <2> QED
    BY <1>1, <2>2, <2>3, NothingAsked, NoElements
<1>12. CASE Waiting \/ UNCHANGED vars
  <2>1. UNCHANGED <<ws, inbox, outbox, knows, serves, ids, at, pending>>
    BY <1>12 DEF Waiting, vars, connection, state, task
  <2> QED
    BY <2>1 DEF Answers, Fresh, Answered, Served, Matches
<1> QED
  BY <1>3, <1>4, <1>5, <1>6, <1>7, <1>8, <1>9, <1>10, <1>11, <1>12 DEF Next, Client

\* Nothing is asked for before the first call.
LEMMA InitAnswers == Init => Answers
<1> SUFFICES ASSUME Init PROVE Answers
  OBVIOUS
<1>1. Fresh
  BY NoElements DEF Init, Fresh, NoRequest
<1>2. Answered
  BY DEF Init, Answered
<1> QED
  BY <1>1, <1>2 DEF Answers

\* A request that is with the server, or has been answered, is not in vain.
LEMMA AnsweredIsComing == Shape /\ Answers => AnswerIsComing
<1> SUFFICES ASSUME Shape, Answers, at = "calling", ws = "open", outbox # <<>>
             PROVE  pending \in ToSet(outbox)
  BY DEF Answers, Answered, AnswerIsComing
<1>1. outbox[Len(outbox)] = pending
  BY DEF Answers, Answered
<1>2. outbox \in Seq(Requests) /\ Len(outbox) \in DOMAIN outbox
  BY DEF Shape, ConnectionOK
<1> QED
  BY <1>1, <1>2 DEF ToSet

\* _call, which has no timeout, only waits while its answer can come: its
\* request is with the server or its answer among the frames (realtime.py:374-387).
THEOREM AnswersAreComing == Spec => []AnswerIsComing
<1>1. Init => Shape /\ Answers
  BY InitShape, InitAnswers
<1>2. Shape /\ Answers /\ [Next]_vars => (Shape /\ Answers)'
  BY NextShape, NextAnswers
<1>3. Shape /\ Answers => AnswerIsComing
  BY AnsweredIsComing
<1> QED
  BY <1>1, <1>2, <1>3, PTL DEF Spec
-----------------------------------------------------------------------------
(* `subscriptions` and what the server did *)

\* Where `subscriptions` change: an answer that is recorded, or a connection
\* that is found cut.
LEMMA NamesChange ==
  ASSUME Shape, [Next]_vars, ws = "open", subscribed' # subscribed
  PROVE  AnswerArrives /\ Head(inbox).good /\ pending.method # "auth"
<1> USE DEF Shape
<1>1. ASSUME NEW e \in Exceptions, e # "closed", Raise(e)
      PROVE  subscribed' = subscribed
  BY <1>1, Raising DEF DataOK
<1>2. ~ Opened
  BY DEF Opened, PlacesOK
<1>3. ~ AskNext
  <2> SUFFICES ASSUME AskNext PROVE FALSE
    OBVIOUS
  <2>1. ws' = "open"
    BY DEF AskNext
  <2>2. CASE Raise("rpc")
    BY <1>1, <2>2 DEF Exceptions
  <2>3. CASE Ask(Asking, Head(todo))
    BY <2>1, <2>3 DEF Ask
  <2> QED
    BY <2>2, <2>3, AskNextThread
<1>4. ~ OpenFails
  BY <1>1 DEF OpenFails, Exceptions
<1>5. ~ FindClosed
  BY DEF FindClosed
<1>6. AnswerArrives
  BY <1>2, <1>3, <1>4, <1>5
  DEF Next, User, Client, CallEach, CallConnect, CallClose, CallNext, EachEnds,
      OtherArrives, Drain, Receive, Reopen, Retry, Serve, Push, Drop, Waiting, vars, state
<1>7. Head(inbox).good
  BY <1>1, <1>6 DEF AnswerArrives, Exceptions
<1>8. pending.method # "auth"
  BY <1>6, <1>7 DEF AnswerArrives
<1> QED
  BY <1>6, <1>7, <1>8

\* An answer on an open connection tells what the server has just done.
LEMMA AnswersTell ==
  ASSUME Shape, Answers, AnswerArrives, ws = "open", Head(inbox).good
  PROVE  Served(pending)
<1>1. at = "calling" /\ inbox # <<>> /\ Matches(Head(inbox)) /\ inbox \in Seq(Frames)
  BY DEF AnswerArrives, Shape, ConnectionOK
<1>2. Head(inbox) \in ToSet(inbox)
  BY <1>1, HeadAndTail
<1> QED
  BY <1>1, <1>2 DEF Answers, Answered

\* `subscriptions` change with what the server did, never ahead of it or on an
\* answer to something else (_record, realtime.py:198-204).
THEOREM NamesFollowTheServer == Spec => RecordsWhatTheServerDid
<1> DEFINE Recorded ==
      ws = "open" =>
        /\ ToSet(subscribed') \ ToSet(subscribed) \subseteq serves
        /\ (ToSet(subscribed) \ ToSet(subscribed')) \cap serves = {}
<1>1. Shape /\ Answers /\ [Next]_vars => Recorded
  <2> SUFFICES ASSUME Shape, Answers, [Next]_vars, ws = "open", subscribed' # subscribed
               PROVE  Recorded
    OBVIOUS
  <2>1. AnswerArrives /\ Head(inbox).good /\ pending.method # "auth"
    BY NamesChange
  <2>2. Served(pending)
    BY <2>1, AnswersTell
  <2>3. /\ pending.method \in {"subscribe", "unsubscribe"}
        /\ ToSet(subscribed') = IF pending.method = "subscribe"
                                THEN ToSet(subscribed) \cup {pending.channel}
                                ELSE ToSet(subscribed) \ {pending.channel}
    BY <2>1, AnswerRecorded, Recording
  <2> QED
    BY <2>2, <2>3 DEF Served
<1>2. Init => Shape /\ Answers
  BY InitShape, InitAnswers
<1>3. Shape /\ Answers /\ [Next]_vars => (Shape /\ Answers)'
  BY NextShape, NextAnswers
<1>4. Shape /\ Answers /\ [Next]_vars => [Recorded]_vars
  BY <1>1
<1> QED
  BY <1>2, <1>3, <1>4, PTL DEF Spec, RecordsWhatTheServerDid
-----------------------------------------------------------------------------
(* Private channels *)

\* On an open connection the flag means what it says, and nothing private is
\* under way on a connection that the server has not authenticated.
Guarded ==
  /\ authenticated /\ ws = "open" => knows
  /\ \A c \in serves : c \in PrivateChannels => knows
  /\ \A request \in ToSet(outbox) :
       request.method = "subscribe" /\ request.channel \in PrivateChannels => knows

\* Nothing changes hands: the connection is the same, or there is none.
LEMMA NothingGranted ==
  ASSUME Shape', Guarded,
         \/ ws' # "open"
         \/ UNCHANGED <<ws, outbox, knows, serves, authenticated>>
  PROVE  Guarded'
<1>1. CASE ws' # "open"
  <2>1. outbox' = <<>> /\ serves' = {}
    BY <1>1 DEF Shape, ConnectionOK
  <2> QED
    BY <1>1, <2>1, NoElements DEF Guarded
<1>2. CASE UNCHANGED <<ws, outbox, knows, serves, authenticated>>
  BY <1>2 DEF Guarded
<1> QED
  BY <1>1, <1>2

\* Every step keeps private channels guarded.
LEMMA NextGuarded ==
  ASSUME Shape, Shape', Answers, Guarded, [Next]_vars
  PROVE  Guarded'
<1>1. CASE Opened
  <2>1. ws = "none" /\ outbox = <<>> /\ serves = {}
    BY <1>1 DEF Opened, Shape, PlacesOK, ConnectionOK
  <2>2. serves' = {} /\ ~ authenticated'
    BY <1>1, <2>1 DEF Opened
  <2>3. \A request \in ToSet(outbox') : request.method = "auth"
    <3>1. CASE outbox' = outbox
      BY <2>1, <3>1, NoElements
    <3>2. CASE outbox' = Append(outbox, Request("auth", "none"))
      <4>1. Request("auth", "none") \in Requests /\ Request("auth", "none").method = "auth"
        BY DEF Request, Requests, Shape, DataOK
      <4>2. ToSet(outbox') = ToSet(outbox) \cup {Request("auth", "none")}
        <5>1. outbox \in Seq(Requests)
          BY DEF Shape, ConnectionOK
        <5> QED
          BY <3>2, <4>1, <5>1, Appended
      <4>3. ToSet(outbox) = {}
        BY <2>1, NoElements
      <4> QED
        BY <4>1, <4>2, <4>3
    <3> QED
      BY <1>1, <3>1, <3>2 DEF Opened, Ask, Request
  <2> QED
    BY <2>2, <2>3 DEF Guarded
<1>2. CASE AskNext
  <2>1. UNCHANGED <<ws, knows, serves, authenticated>> /\ outbox \in Seq(Requests)
    BY <1>2 DEF AskNext, Shape, ConnectionOK
  <2>2. CASE outbox' = outbox
    BY <2>1, <2>2 DEF Guarded
  <2>3. CASE outbox' # outbox
    <3>1. PICK request \in Requests :
            /\ request.method = Asking /\ request.channel = Head(todo)
            /\ outbox' = Append(outbox, request) /\ ws = "open"
            /\ Asking = "subscribe" /\ Head(todo) \in PrivateChannels => authenticated
      <4>1. /\ Ask(Asking, Head(todo)) /\ Request(Asking, Head(todo)) \in Requests
            /\ Asking = "subscribe" /\ Head(todo) \in PrivateChannels => authenticated
        BY <1>2, <2>3, AskNextThread DEF Shape
      <4>2. outbox' = Append(outbox, Request(Asking, Head(todo))) /\ ws = "open"
        BY <2>1, <2>3, <4>1 DEF Ask, Request
      <4> QED
        BY <4>1, <4>2 DEF Request
    <3>2. ToSet(outbox') = ToSet(outbox) \cup {request}
      BY <2>1, <3>1, Appended
    <3> QED
      BY <2>1, <3>1, <3>2 DEF Guarded
  <2> QED
    BY <2>2, <2>3
<1>3. CASE AnswerArrives
  <2>1. UNCHANGED <<ws, outbox, knows, serves>>
    BY <1>3 DEF AnswerArrives
  <2>2. \/ authenticated' = authenticated
        \/ Head(inbox).good /\ pending.method = "auth"
    BY <1>3 DEF AnswerArrives
  <2>3. ws = "open" /\ Head(inbox).good /\ pending.method = "auth" => knows
    BY <1>3, AnswersTell DEF Served
  <2> QED
    BY <2>1, <2>2, <2>3 DEF Guarded
<1>4. CASE Serve
  <2>1. PICK request \in ToSet(outbox) :
          /\ knows => knows'
          /\ ToSet(outbox') \subseteq ToSet(outbox)
          /\ serves' = serves \/ serves' = serves \ {request.channel}
               \/ (request.method = "subscribe" /\ serves' = serves \cup {request.channel})
    <3>1. /\ outbox # <<>> /\ outbox \in Seq(Requests) /\ outbox' = Tail(outbox)
      BY <1>4 DEF Serve, Shape, ConnectionOK
    <3>2. Head(outbox) \in ToSet(outbox) /\ ToSet(outbox') \subseteq ToSet(outbox)
      BY <3>1, HeadAndTail
    <3>3. knows => knows'
      BY <1>4 DEF Serve
    <3>4. \/ serves' = serves \/ serves' = serves \ {Head(outbox).channel}
          \/ (/\ Head(outbox).method = "subscribe"
              /\ serves' = serves \cup {Head(outbox).channel})
      BY <1>4 DEF Serve
    <3> QED
      BY <3>2, <3>3, <3>4
  <2>2. ws' = ws /\ authenticated' = authenticated
    BY <1>4 DEF Serve, state
  <2> QED
    BY <2>1, <2>2 DEF Guarded
<1>5. CASE User
  BY <1>5, NothingGranted
  DEF User, CallEach, CallConnect, CallClose, CallNext, Disconnect, connection, state
<1>6. CASE \/ OpenFails \/ EachEnds \/ OtherArrives \/ Drain \/ Receive \/ Reopen
           \/ FindClosed \/ Retry
  BY <1>6, NothingGranted
  DEF OpenFails, EachEnds, OtherArrives, Drain, Receive, Reopen, FindClosed, Retry,
      Disconnect, connection, state
<1>7. CASE Push \/ Drop \/ Waiting \/ UNCHANGED vars
  BY <1>7, NothingGranted DEF Push, Drop, Waiting, vars, connection, state
<1> QED
  BY <1>1, <1>2, <1>3, <1>4, <1>5, <1>6, <1>7 DEF Next, Client

\* Guarded is PrivateNeedsAuth and more.
LEMMA GuardedIsPrivate == Guarded => PrivateNeedsAuth
BY DEF Guarded, PrivateNeedsAuth

\* No private channel is asked for or served on a connection that the server has
\* not authenticated, however the connections before it failed (_check_private,
\* realtime.py:191-196).
THEOREM PrivateChannelsNeedAuth == Spec => []PrivateNeedsAuth
<1>1. Init => Shape /\ Answers /\ Guarded
  BY InitShape, InitAnswers, NoElements DEF Init, Guarded
<1>2. Shape /\ Answers /\ Guarded /\ [Next]_vars => (Shape /\ Answers /\ Guarded)'
  BY NextShape, NextAnswers, NextGuarded
<1>3. Guarded => PrivateNeedsAuth
  BY GuardedIsPrivate
<1> QED
  BY <1>1, <1>2, <1>3, PTL DEF Spec
===============================================================================
