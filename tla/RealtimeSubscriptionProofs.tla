----------------------- MODULE RealtimeSubscriptionProofs -----------------------
(***************************************************************************)
(* What a reconnect does to the subscriptions: it forgets none silently,   *)
(* and restores all of them before listen() goes on.                       *)
(***************************************************************************)
EXTENDS RealtimeProofs

-----------------------------------------------------------------------------
(* A reconnect that goes on forgets nothing *)

\* Once the handshake is over, what a reconnect wants is either subscribed to
\* again or among the names still to be asked for.
Replays ==
  attempt > 0 /\ at \notin {"opening", "backoff"} /\ pending.method # "auth"
    => ToSet(wanted) \subseteq ToSet(subscribed) \cup ToSet(todo)

\* Every step keeps that, whether the attempt it belongs to succeeds or fails.
LEMMA NextReplays ==
  ASSUME Shape, Replays, [Next]_vars
  PROVE  Replays'
<1> USE DEF Shape
<1>1. ASSUME attempt' = 0 \/ at' = "backoff" \/ at' = "opening"
      PROVE  Replays'
  BY <1>1 DEF Replays
<1>2. ASSUME NEW e \in Exceptions, Raise(e)
      PROVE  Replays'
  BY <1>1, <1>2, Raising DEF DataOK
<1>3. ASSUME UNCHANGED <<at, task, subscribed>>
      PROVE  Replays'
  BY <1>3 DEF Replays, task
<1>4. ASSUME Connected, at \in {"opening", "calling"}, UNCHANGED wanted
      PROVE  Replays'
  <2>1. (at' = "each" /\ todo' = wanted') \/ attempt' = 0
    BY <1>4 DEF Connected, ThreadOK
  <2> QED
    BY <1>1, <2>1 DEF Replays
<1>5. CASE User
  <2>1. at = "user" /\ attempt' = attempt
    BY <1>5 DEF User, CallEach, CallConnect, CallClose, CallNext, task
  <2>2. attempt = 0
    BY <2>1 DEF ThreadOK
  <2> QED
    BY <1>1, <2>1, <2>2
<1>6. CASE Opened
  <2>1. CASE Keyed
    <3>1. Ask("auth", "none")
      BY <1>6, <2>1 DEF Opened
    <3>2. \/ pending' = Request("auth", "none")
          \/ Raise("closed") /\ "closed" \in Exceptions
      BY <3>1 DEF Ask, Request, Exceptions
    <3>3. CASE pending' = Request("auth", "none")
      BY <3>3 DEF Replays, Request
    <3> QED
      BY <1>2, <3>2, <3>3
  <2>2. CASE ~ Keyed
    BY <1>4, <1>6, <2>2 DEF Opened
  <2> QED
    BY <2>1, <2>2
<1>7. CASE AskNext
  <2>1. CASE Raise("rpc")
    BY <1>2, <2>1 DEF Exceptions
  <2>2. CASE Ask(Asking, Head(todo))
    <3>1. CASE Raise("closed")
      BY <1>2, <3>1 DEF Exceptions
    <3>2. CASE UNCHANGED <<todo, attempt, wanted, subscribed>>
      <4>1. at = "each" /\ pending = NoRequest
        BY <1>7 DEF AskNext, ThreadOK
      <4>2. attempt > 0 => ToSet(wanted) \subseteq ToSet(subscribed) \cup ToSet(todo)
        BY <4>1 DEF Replays, NoRequest
      <4> QED
        BY <3>2, <4>2 DEF Replays
    <3> QED
      BY <2>2, <3>1, <3>2 DEF Ask
  <2> QED
    BY <1>7, <2>1, <2>2, AskNextThread
<1>8. CASE AnswerArrives
  <2>1. CASE ~ Head(inbox).good
    <3>1. Raise("rpc") /\ "rpc" \in Exceptions
      BY <1>8, <2>1 DEF AnswerArrives, Exceptions
    <3> QED
      BY <1>2, <3>1
  <2>2. CASE Head(inbox).good /\ pending.method = "auth"
    BY <1>4, <1>8, <2>2 DEF AnswerArrives
  <2>3. CASE Head(inbox).good /\ pending.method # "auth"
    <3>1. /\ at = "calling" /\ todo' = Tail(todo) /\ UNCHANGED <<attempt, wanted>>
      BY <1>8, <2>3 DEF AnswerArrives
    <3>2. /\ todo # <<>> /\ todo \in Seq(Channels) /\ pending.channel = Head(todo)
          /\ pending.method = Asking
          /\ ToSet(subscribed') = IF pending.method = "subscribe"
                                  THEN ToSet(subscribed) \cup {pending.channel}
                                  ELSE ToSet(subscribed) \ {pending.channel}
      BY <1>8, <2>3, AnswerRecorded, Recording DEF ThreadOK
    <3>3. ToSet(todo) = {Head(todo)} \cup ToSet(todo')
      BY <3>1, <3>2, HeadAndTail
    <3>4. ASSUME attempt > 0
          PROVE  ToSet(wanted) \subseteq ToSet(subscribed') \cup ToSet(todo')
      <4>1. ToSet(wanted) \subseteq ToSet(subscribed) \cup ToSet(todo)
        BY <2>3, <3>1, <3>4 DEF Replays
      <4>2. ToSet(subscribed') = ToSet(subscribed) \cup {Head(todo)}
        BY <3>2, <3>4 DEF Asking
      <4> QED
        BY <3>3, <4>1, <4>2
    <3>5. /\ ToSet(wanted)' = ToSet(wanted) /\ ToSet(todo)' = ToSet(todo')
          /\ ToSet(subscribed)' = ToSet(subscribed')
      BY <3>1 DEF ToSet
    <3> QED
      BY <3>1, <3>4, <3>5 DEF Replays
  <2> QED
    BY <2>1, <2>2, <2>3
<1>9. CASE EachEnds
  BY <1>1, <1>9 DEF EachEnds, Return
<1>10. CASE Drain \/ Receive
  <2>1. attempt = 0
    BY <1>10 DEF Drain, Receive, Reading, ThreadOK
  <2>2. attempt' = attempt \/ attempt' = 0
    BY <1>10, Yielding DEF Drain, Receive, Reading
  <2> QED
    BY <1>1, <2>1, <2>2
<1>11. CASE Reopen \/ Retry
  BY <1>1, <1>11 DEF Reopen, Retry
<1>12. CASE OpenFails \/ FindClosed
  <2>1. \E e \in Exceptions : Raise(e)
    BY <1>12 DEF OpenFails, FindClosed, Exceptions
  <2> QED
    BY <1>2, <2>1
<1>13. CASE OtherArrives \/ Serve \/ Push \/ Drop \/ Waiting \/ UNCHANGED vars
  <2>1. UNCHANGED <<at, task, subscribed>>
    BY <1>13 DEF OtherArrives, Serve, Push, Drop, Waiting, vars, state
  <2> QED
    BY <1>3, <2>1
<1> QED
  BY <1>5, <1>6, <1>7, <1>8, <1>9, <1>10, <1>11, <1>12, <1>13 DEF Next, Client

\* The channels the client is to be subscribed to: during a reconnect, those it
\* wants back.
Owed == ToSet(IF attempt = 0 THEN subscribed ELSE wanted)

\* An exception leaves that alone, or ends a reconnect that gives up or overflows.
LEMMA RaisingLoudly ==
  ASSUME ThreadOK, NEW e \in Exceptions, Raise(e)
  PROVE  \/ /\ raised' \in {"gave up", "overflow"} /\ attempt' = 0
            /\ MaxAttempts # Forever \/ attempt > MaxExponent
         \/ /\ attempt = 0 /\ attempt' = 0 /\ at' = "user" /\ subscribed' = subscribed
            /\ ~ (stream = "running" /\ job = "next" /\ e = "closed" /\ reconnect)
         \/ /\ attempt = 0 /\ attempt' = 1 /\ at' = "backoff" /\ wanted' = subscribed
            /\ subscribed' = <<>> /\ e = "closed" /\ todo' = <<>> /\ pending' = NoRequest
         \/ /\ attempt > 0 /\ attempt' = attempt + 1 /\ at' = "backoff" /\ wanted' = wanted
            /\ subscribed' = subscribed /\ todo' = <<>> /\ pending' = NoRequest
<1>1. MaxExponent \in Nat /\ attempt \in Nat
  BY RealtimeAssumption DEF ThreadOK
<1>2. ASSUME NEW k \in Nat \ {0}, NEW names, StartAttempt(k, names)
      PROVE  \/ /\ raised' \in {"gave up", "overflow"} /\ attempt' = 0
                /\ MaxAttempts # Forever \/ k - 1 > MaxExponent
             \/ /\ at' = "backoff" /\ attempt' = k /\ wanted' = names
                /\ todo' = <<>> /\ pending' = NoRequest
  BY <1>2 DEF StartAttempt, Return
<1>3. CASE attempt > 0
  <2>1. StartAttempt(attempt + 1, wanted) /\ subscribed' = subscribed
    BY <1>3 DEF Raise
  <2>2. attempt + 1 \in Nat \ {0} /\ (attempt + 1) - 1 = attempt
    BY <1>1
  <2> QED
    BY <1>2, <1>3, <2>1, <2>2
<1>4. CASE attempt = 0 /\ stream = "running" /\ job = "next" /\ e = "closed" /\ reconnect
  <2>1. StartAttempt(1, subscribed) /\ subscribed' = <<>>
    BY <1>4 DEF Raise
  <2>2. 1 \in Nat \ {0} /\ ~ (1 - 1 > MaxExponent)
    BY <1>1
  <2>3. \/ /\ raised' \in {"gave up", "overflow"} /\ attempt' = 0 /\ MaxAttempts # Forever
        \/ /\ at' = "backoff" /\ attempt' = 1 /\ wanted' = subscribed
           /\ todo' = <<>> /\ pending' = NoRequest
    BY <1>2, <2>1, <2>2
  <2> QED
    BY <1>4, <2>1, <2>3
<1>5. CASE /\ ~ (attempt > 0)
           /\ ~ (attempt = 0 /\ stream = "running" /\ job = "next" /\ e = "closed"
                 /\ reconnect)
  <2>1. Return(e) /\ subscribed' = subscribed /\ attempt = 0
    BY <1>1, <1>5 DEF Raise
  <2> QED
    BY <1>5, <2>1 DEF Return
<1> QED
  BY <1>3, <1>4, <1>5

\* What a step does to it: a recorded answer and the end of a reconnect are the
\* only changes that do not raise.
LEMMA OwedChanges ==
  ASSUME Shape, Replays, [Next]_vars
  PROVE  \/ /\ raised' \in {"gave up", "overflow"} /\ attempt' = 0
            /\ MaxAttempts # Forever \/ attempt > MaxExponent
         \/ Owed' = Owed /\ confirmed' = confirmed
         \/ EachEnds /\ attempt > 0 /\ Owed \subseteq Owed' /\ confirmed' = confirmed
         \/ /\ AnswerArrives /\ Head(inbox).good /\ pending.method # "auth"
            /\ attempt = 0 /\ attempt' = 0
<1> USE DEF Shape
<1> DEFINE Loud == /\ raised' \in {"gave up", "overflow"} /\ attempt' = 0
                   /\ MaxAttempts # Forever \/ attempt > MaxExponent
<1>1. ASSUME UNCHANGED <<subscribed, wanted, attempt>>
      PROVE  Owed' = Owed
  BY <1>1 DEF Owed
<1>2. ASSUME NEW e \in Exceptions, Raise(e)
      PROVE  Loud \/ Owed' = Owed
  <2>1. CASE attempt = 0 /\ attempt' = 0 /\ subscribed' = subscribed
    BY <2>1 DEF Owed
  <2>2. CASE attempt = 0 /\ attempt' = 1 /\ wanted' = subscribed
    BY <2>2 DEF Owed
  <2>3. CASE attempt > 0 /\ attempt' = attempt + 1 /\ wanted' = wanted
    <3>1. attempt # 0 /\ attempt' # 0
      BY <2>3 DEF ThreadOK
    <3> QED
      BY <2>3, <3>1 DEF Owed
  <2> QED
    BY <1>2, <2>1, <2>2, <2>3, RaisingLoudly
<1>3. CASE User
  <2>1. UNCHANGED <<subscribed, wanted, attempt, confirmed>>
    BY <1>3 DEF User, CallEach, CallConnect, CallClose, CallNext, state, task, history
  <2> QED
    BY <1>1, <2>1
<1>4. CASE Opened
  <2>1. confirmed' = confirmed
    BY <1>4 DEF Opened, history
  <2>2. \/ UNCHANGED <<subscribed, wanted, attempt>>
        \/ Raise("closed") /\ "closed" \in Exceptions
    BY <1>4 DEF Opened, Ask, Connected, Exceptions
  <2> QED
    BY <1>1, <1>2, <2>1, <2>2
<1>5. CASE AskNext
  <2>1. confirmed' = confirmed
    BY <1>5 DEF AskNext, history
  <2>2. \/ UNCHANGED <<subscribed, wanted, attempt>>
        \/ Raise("closed") /\ "closed" \in Exceptions
        \/ Raise("rpc") /\ "rpc" \in Exceptions
    BY <1>5 DEF AskNext, Ask, Exceptions
  <2> QED
    BY <1>1, <1>2, <2>1, <2>2
<1>6. CASE OpenFails \/ FindClosed
  <2>1. confirmed' = confirmed
    BY <1>6 DEF OpenFails, FindClosed, history
  <2>2. \E e \in Exceptions : Raise(e)
    BY <1>6 DEF OpenFails, FindClosed, Exceptions
  <2> QED
    BY <1>2, <2>1, <2>2
<1>7. CASE EachEnds
  <2>1. at = "each" /\ todo = <<>> /\ UNCHANGED <<subscribed, confirmed>> /\ attempt' = 0
    BY <1>7 DEF EachEnds, Return, state, history
  <2>2. CASE attempt = 0
    BY <2>1, <2>2 DEF Owed
  <2>3. CASE attempt # 0
    <3>1. attempt > 0 /\ pending = NoRequest
      BY <2>1, <2>3 DEF ThreadOK
    <3>2. ToSet(wanted) \subseteq ToSet(subscribed)
      BY <2>1, <3>1, NoElements DEF Replays, NoRequest
    <3> QED
      BY <1>7, <2>1, <2>3, <3>1, <3>2 DEF Owed
  <2> QED
    BY <2>1, <2>2, <2>3
<1>8. CASE AnswerArrives
  <2>1. CASE ~ Head(inbox).good
    <3>1. Raise("rpc") /\ confirmed' = confirmed /\ "rpc" \in Exceptions
      BY <1>8, <2>1 DEF AnswerArrives, Exceptions
    <3> QED
      BY <1>2, <3>1
  <2>2. CASE Head(inbox).good /\ pending.method = "auth"
    <3>1. UNCHANGED <<subscribed, wanted, attempt, confirmed>>
      BY <1>8, <2>2 DEF AnswerArrives, Connected
    <3> QED
      BY <1>1, <3>1
  <2>3. CASE Head(inbox).good /\ pending.method # "auth"
    <3>1. UNCHANGED <<wanted, attempt>>
      BY <1>8, <2>3 DEF AnswerArrives
    <3>2. CASE attempt = 0
      BY <1>8, <2>3, <3>1, <3>2
    <3>3. CASE attempt # 0
      <4>1. confirmed' = confirmed
        BY <1>8, <2>3, <3>3, AnswerRecorded DEF ThreadOK
      <4> QED
        BY <3>1, <3>3, <4>1 DEF Owed
    <3> QED
      BY <3>2, <3>3
  <2> QED
    BY <2>1, <2>2, <2>3
<1>9. CASE Drain \/ Receive
  <2>1. attempt = 0 /\ UNCHANGED <<subscribed, confirmed>>
    BY <1>9 DEF Drain, Receive, Reading, state, ThreadOK
  <2>2. attempt' = 0
    BY <1>9, <2>1, Yielding DEF Drain, Receive, Reading
  <2> QED
    BY <2>1, <2>2 DEF Owed
<1>10. CASE OtherArrives \/ Reopen \/ Retry \/ Serve \/ Push \/ Drop \/ Waiting
            \/ UNCHANGED vars
  <2>1. UNCHANGED <<subscribed, wanted, attempt, confirmed>>
    BY <1>10
    DEF OtherArrives, Reopen, Retry, Serve, Push, Drop, Waiting, vars, state, task, history
  <2> QED
    BY <1>1, <2>1
<1> QED
  BY <1>3, <1>4, <1>5, <1>6, <1>7, <1>8, <1>9, <1>10 DEF Next, Client

\* An answer that is recorded outside a reconnect changes what the user has
\* subscribed to and `subscriptions` alike.
LEMMA AnswerConfirmed ==
  ASSUME Shape, AnswerArrives, Head(inbox).good, pending.method # "auth", attempt = 0
  PROVE  /\ confirmed \subseteq ToSet(subscribed) => confirmed' \subseteq ToSet(subscribed')
         /\ confirmed = ToSet(subscribed) => confirmed' = ToSet(subscribed')
<1>1. /\ pending.method = job
      /\ pending.method \in {"subscribe", "unsubscribe"}
      /\ ToSet(subscribed') = IF pending.method = "subscribe"
                              THEN ToSet(subscribed) \cup {pending.channel}
                              ELSE ToSet(subscribed) \ {pending.channel}
  BY AnswerRecorded, Recording DEF Asking
<1>2. confirmed' = IF job = "subscribe" THEN confirmed \cup {pending.channel}
                   ELSE confirmed \ {pending.channel}
  BY AnswerRecorded
<1> QED
  BY <1>1, <1>2

\* Only a reconnect that gives up or whose delay overflows forgets.
LEMMA ForgettingIsLoud ==
  ASSUME Shape, Replays, [Next]_vars, KeepsSubscriptions
  PROVE  KeepsSubscriptions' \/ raised' \in {"gave up", "overflow"}
<1>1. CASE Owed \subseteq Owed' /\ confirmed' = confirmed
  BY <1>1 DEF Owed, KeepsSubscriptions
<1>2. CASE /\ AnswerArrives /\ Head(inbox).good /\ pending.method # "auth"
           /\ attempt = 0 /\ attempt' = 0
  <2>1. confirmed' \subseteq ToSet(subscribed')
    BY <1>2, AnswerConfirmed DEF KeepsSubscriptions
  <2> QED
    BY <1>2, <2>1 DEF KeepsSubscriptions
<1> QED
  BY <1>1, <1>2, OwedChanges

\* A channel that was subscribed to is only forgotten by a call that raises
\* because a reconnect gave up, its delay overflowed, or it was cancelled;
\* whatever other failures a reconnect meets, it forgets none (_reconnect_now,
\* realtime.py:345-372).
THEOREM NothingForgottenSilently == Spec => ForgetsOnlyLoudly
<1> DEFINE Loudly == KeepsSubscriptions /\ ~ KeepsSubscriptions'
                       => raised' \in {"gave up", "overflow", "cancelled"}
<1>1. Init => Shape /\ Replays
  BY InitShape DEF Init, Replays
<1>2. Shape /\ Replays /\ [Next]_vars => (Shape /\ Replays)'
  BY NextShape, NextReplays
<1>3. Shape /\ Replays /\ [Next]_vars => [Loudly]_vars
  BY ForgettingIsLoud
<1> QED
  BY <1>1, <1>2, <1>3, PTL DEF Spec, ForgetsOnlyLoudly
-----------------------------------------------------------------------------
(* A reconnect that ends has restored what it wanted *)

\* A reconnect subscribes to nothing but what it wants, asks the server to stop
\* nothing, and has what is in `subscriptions` again served, or asks for it.
Restores ==
  attempt > 0 =>
    /\ ToSet(subscribed) \cup ToSet(todo) \subseteq ToSet(wanted)
    /\ ws = "open" =>
         /\ \A request \in ToSet(outbox) : request.method # "unsubscribe"
         /\ at = "each" \/ (at = "calling" /\ pending.method # "auth")
              => ToSet(subscribed) \subseteq serves \cup ToSet(todo)

\* An attempt that fails, and the first one, start with nothing asked for: the
\* first one only because the connection was cut.
LEMMA RaisingRestores ==
  ASSUME Shape, Restores, NEW e \in Exceptions, Raise(e), UNCHANGED <<ws, outbox>>,
         e = "closed" => ws # "open"
  PROVE  Restores'
<1>1. CASE attempt' = 0
  BY <1>1 DEF Restores
<1>2. CASE /\ attempt = 0 /\ subscribed' = <<>> /\ e = "closed" /\ todo' = <<>>
  BY <1>2, NoElements DEF Restores
<1>3. CASE /\ attempt > 0 /\ at' = "backoff" /\ UNCHANGED <<wanted, subscribed>>
           /\ todo' = <<>>
  <2>1. ToSet(subscribed) \subseteq ToSet(wanted)
    BY <1>3 DEF Restores
  <2>2. ToSet(subscribed') \cup ToSet(todo') \subseteq ToSet(wanted')
    BY <1>3, <2>1, NoElements
  <2> QED
    BY <1>3, <2>2 DEF Restores
<1> QED
  BY <1>1, <1>2, <1>3, RaisingLoudly DEF Shape

\* A handshake starts over with all that is wanted.
LEMMA ConnectedRestores ==
  ASSUME Shape, Restores, Connected, at \in {"opening", "calling"},
         UNCHANGED <<subscribed, wanted, outbox>>, ws' = ws \/ outbox = <<>>
  PROVE  Restores'
<1>1. CASE attempt' = 0
  BY <1>1 DEF Restores
<1>2. CASE attempt' = attempt /\ attempt > 0 /\ todo' = wanted
  <2>1. ToSet(subscribed) \subseteq ToSet(wanted)
    BY <1>2 DEF Restores
  <2>2. /\ ToSet(subscribed') \cup ToSet(todo') \subseteq ToSet(wanted')
        /\ ToSet(subscribed') \subseteq serves' \cup ToSet(todo')
    BY <1>2, <2>1
  <2>3. ws' = "open" => \A request \in ToSet(outbox') : request.method # "unsubscribe"
    BY <1>2, NoElements DEF Restores
  <2> QED
    BY <2>2, <2>3 DEF Restores
<1> QED
  BY <1>1, <1>2 DEF Connected, Shape, ThreadOK

\* The server only ever takes back what it was asked to.
LEMMA ServeRestores ==
  ASSUME Shape, Restores, Serve
  PROVE  Restores'
<1>1. /\ ws = "open" /\ UNCHANGED <<ws, at, attempt, todo, pending, wanted, subscribed>>
      /\ outbox # <<>> /\ outbox \in Seq(Requests) /\ outbox' = Tail(outbox)
  BY DEF Serve, task, state, Shape, ConnectionOK
<1>2. Head(outbox) \in ToSet(outbox) /\ ToSet(outbox') \subseteq ToSet(outbox)
  BY <1>1, HeadAndTail
<1>3. Head(outbox).method # "unsubscribe" => serves \subseteq serves'
  BY DEF Serve
<1> QED
  BY <1>1, <1>2, <1>3 DEF Restores

\* An answer that is recorded takes a channel from the names to ask for to the
\* channels that are served and subscribed to.
LEMMA RecordRestores ==
  ASSUME Shape, Answers, Restores, AnswerArrives, Head(inbox).good,
         pending.method # "auth", attempt > 0
  PROVE  Restores'
<1>1. /\ at = "calling" /\ todo' = Tail(todo) /\ at' = "each"
      /\ UNCHANGED <<attempt, wanted, ws, outbox, serves>>
  BY DEF AnswerArrives
<1>2. PICK c \in Channels : c = Head(todo)
  BY AnswerRecorded
<1>3. ToSet(todo) = {c} \cup ToSet(todo')
  BY <1>1, <1>2, AnswerRecorded, HeadAndTail DEF Shape, ThreadOK
<1>4. pending.method = "subscribe" /\ pending.channel = c
  BY <1>2, AnswerRecorded DEF Asking
<1>5. ToSet(subscribed') = ToSet(subscribed) \cup {c}
  BY <1>4, AnswerRecorded, Recording
<1>6. ws = "open" => c \in serves
  BY <1>4, AnswersTell DEF Served
<1>7. /\ ToSet(subscribed) \cup ToSet(todo) \subseteq ToSet(wanted)
      /\ ws = "open" =>
           /\ \A request \in ToSet(outbox) : request.method # "unsubscribe"
           /\ ToSet(subscribed) \subseteq serves \cup ToSet(todo)
  BY <1>1 DEF Restores
<1>8. /\ ToSet(subscribed)' = ToSet(subscribed') /\ ToSet(todo)' = ToSet(todo')
      /\ ToSet(wanted)' = ToSet(wanted) /\ ToSet(outbox)' = ToSet(outbox)
  BY <1>1 DEF ToSet
<1> HIDE DEF ToSet
<1> QED
  BY <1>1, <1>3, <1>5, <1>6, <1>7, <1>8 DEF Restores

\* Every step keeps what a reconnect has restored.
LEMMA NextRestores ==
  ASSUME Shape, Answers, Restores, [Next]_vars
  PROVE  Restores'
<1> USE DEF Shape
<1>1. ASSUME attempt' = 0
      PROVE  Restores'
  BY <1>1 DEF Restores
<1>2. ASSUME UNCHANGED <<at, attempt, todo, pending, wanted, subscribed, ws, outbox, serves>>
      PROVE  Restores'
  BY <1>2 DEF Restores
<1>3. ASSUME ws' # "open", UNCHANGED <<attempt, todo, wanted, subscribed>>
      PROVE  Restores'
  BY <1>3 DEF Restores
<1>4. CASE User
  <2>1. at = "user" /\ attempt' = attempt
    BY <1>4 DEF User, CallEach, CallConnect, CallClose, CallNext, task
  <2>2. attempt = 0
    BY <2>1 DEF ThreadOK
  <2> QED
    BY <1>1, <2>1, <2>2
<1>5. CASE Opened
  <2>1. at = "opening" /\ ws' = "open" /\ outbox = <<>> /\ outbox \in Seq(Requests)
    BY <1>5 DEF Opened, PlacesOK, ConnectionOK
  <2>2. CASE Keyed
    <3>1. PICK request \in Requests : request = Request("auth", "none")
      BY DEF DataOK, Request, Requests
    <3>2. /\ at' = "calling" /\ pending' = request /\ outbox' = Append(outbox, request)
          /\ UNCHANGED <<todo, attempt, wanted, subscribed>>
      BY <1>5, <2>1, <2>2, <3>1 DEF Opened, Ask, Request
    <3>3. ToSet(outbox') = {request}
      <4>1. ToSet(outbox') = ToSet(outbox) \cup {request}
        <5>1. outbox \in Seq(Requests)
          BY DEF ConnectionOK
        <5> QED
          BY <3>2, <5>1, Appended
      <4>2. ToSet(outbox) = {}
        BY <2>1, NoElements
      <4> QED
        BY <4>1, <4>2
    <3>4. request.method = "auth"
      BY <3>1 DEF Request
    <3>5. ASSUME attempt > 0
          PROVE  ToSet(subscribed') \cup ToSet(todo') \subseteq ToSet(wanted')
      BY <3>2, <3>5 DEF Restores
    <3> QED
      BY <3>2, <3>3, <3>4, <3>5 DEF Restores
  <2>3. CASE ~ Keyed
    <3>1. Connected /\ UNCHANGED <<subscribed, wanted, outbox>>
      BY <1>5, <2>3 DEF Opened
    <3> QED
      BY <2>1, <3>1, ConnectedRestores
  <2> QED
    BY <2>2, <2>3
<1>6. CASE OpenFails \/ FindClosed
  <2>1. UNCHANGED <<ws, outbox>>
    BY <1>6 DEF OpenFails, FindClosed, connection
  <2>2. \E e \in Exceptions : Raise(e) /\ (e = "closed" => ws # "open")
    BY <1>6 DEF OpenFails, FindClosed, Exceptions
  <2> QED
    BY <2>1, <2>2, RaisingRestores
<1>7. CASE AskNext
  <2>1. at = "each" /\ UNCHANGED <<ws, serves>> /\ todo # <<>> /\ outbox \in Seq(Requests)
        /\ pending = NoRequest
    BY <1>7 DEF AskNext, ConnectionOK, ThreadOK
  <2>2. CASE Raise("rpc") /\ outbox' = outbox
    BY <2>1, <2>2, RaisingRestores DEF Exceptions
  <2>3. CASE Ask(Asking, Head(todo)) /\ Request(Asking, Head(todo)) \in Requests
    <3>1. CASE ws = "dead" /\ outbox' = outbox /\ Raise("closed")
      BY <2>1, <3>1, RaisingRestores DEF Exceptions
    <3>2. CASE /\ outbox' = IF ws' = "open" THEN Append(outbox, Request(Asking, Head(todo)))
                            ELSE outbox
               /\ UNCHANGED <<todo, attempt, wanted, subscribed>>
      <4>1. CASE ws' # "open"
        BY <1>3, <3>2, <4>1
      <4>2. CASE attempt > 0 /\ ws' = "open"
        <5>1. PICK request \in Requests :
                request.method = "subscribe" /\ outbox' = Append(outbox, request)
          BY <2>3, <3>2, <4>2 DEF Request, Asking
        <5>2. ToSet(outbox') = ToSet(outbox) \cup {request}
          BY <2>1, <5>1, Appended
        <5>3. /\ ToSet(subscribed) \cup ToSet(todo) \subseteq ToSet(wanted)
              /\ \A r \in ToSet(outbox) : r.method # "unsubscribe"
              /\ ToSet(subscribed) \subseteq serves \cup ToSet(todo)
          BY <2>1, <4>2 DEF Restores
        <5> QED
          BY <2>1, <3>2, <5>1, <5>2, <5>3 DEF Restores
      <4>3. CASE ~ (attempt > 0)
        BY <3>2, <4>3 DEF Restores
      <4> QED
        BY <4>1, <4>2, <4>3
    <3> QED
      BY <2>1, <2>3, <3>1, <3>2 DEF Ask, Request
  <2> QED
    BY <1>7, <2>2, <2>3, AskNextThread
<1>8. CASE EachEnds
  BY <1>1, <1>8 DEF EachEnds, Return
<1>9. CASE AnswerArrives
  <2>1. at = "calling" /\ UNCHANGED <<ws, outbox>>
    BY <1>9 DEF AnswerArrives
  <2>2. CASE ~ Head(inbox).good
    <3>1. Raise("rpc") /\ "rpc" \in Exceptions
      BY <1>9, <2>2 DEF AnswerArrives, Exceptions
    <3> QED
      BY <2>1, <3>1, RaisingRestores
  <2>3. CASE Head(inbox).good /\ pending.method = "auth"
    <3>1. Connected /\ UNCHANGED <<subscribed, wanted>>
      BY <1>9, <2>3 DEF AnswerArrives
    <3> QED
      BY <2>1, <3>1, ConnectedRestores
  <2>4. CASE Head(inbox).good /\ pending.method # "auth"
    <3>1. CASE attempt > 0
      BY <1>9, <2>4, <3>1, RecordRestores
    <3>2. CASE ~ (attempt > 0)
      <4>1. attempt' = 0
        BY <1>9, <2>4, <3>2 DEF AnswerArrives, ThreadOK
      <4> QED
        BY <1>1, <4>1
    <3> QED
      BY <3>1, <3>2
  <2> QED
    BY <2>2, <2>3, <2>4
<1>10. CASE Drain \/ Receive \/ Reopen
  <2>1. attempt = 0
    BY <1>10 DEF Drain, Receive, Reading, Reopen, ThreadOK
  <2>2. attempt' = attempt \/ attempt' = 0
    BY <1>10, Yielding DEF Drain, Receive, Reading, Reopen, task
  <2> QED
    BY <1>1, <2>1, <2>2
<1>11. CASE Retry \/ Drop
  <2>1. ws' # "open" /\ UNCHANGED <<attempt, todo, wanted, subscribed>>
    BY <1>11 DEF Retry, Drop, Disconnect, task, state
  <2> QED
    BY <1>3, <2>1
<1>12. CASE Serve
  BY <1>12, ServeRestores
<1>13. CASE OtherArrives \/ Push \/ Waiting \/ UNCHANGED vars
  <2>1. UNCHANGED <<at, attempt, todo, pending, wanted, subscribed, ws, outbox, serves>>
    BY <1>13 DEF OtherArrives, Push, Waiting, vars, connection, state, task
  <2> QED
    BY <1>2, <2>1
<1> QED
  BY <1>4, <1>5, <1>6, <1>7, <1>8, <1>9, <1>10, <1>11, <1>12, <1>13 DEF Next, Client
-----------------------------------------------------------------------------
(* What it takes to fail an attempt *)

\* A client without credentials has nothing private to restore, and one with
\* credentials has used them by the time a reconnect asks for a channel.
Credentials ==
  /\ ~ Keyed =>
       /\ ~ authenticated /\ pending.method # "auth"
       /\ pending.method = "subscribe" => pending.channel \notin PrivateChannels
       /\ \A c \in ToSet(subscribed) \cup ToSet(wanted) : c \notin PrivateChannels
  /\ Keyed /\ attempt > 0 /\ at \in {"each", "calling"} /\ pending.method # "auth"
       => authenticated

\* An exception adds nothing to what is to be restored.
LEMMA RaisingCredentials ==
  ASSUME Shape, Credentials, NEW e \in Exceptions, Raise(e), ~ Keyed => ~ authenticated'
  PROVE  Credentials'
<1> USE DEF Shape
<1>1. ThreadOK' /\ at' \in {"user", "backoff"}
  BY Raising DEF DataOK
<1>2. pending' = NoRequest
  BY <1>1 DEF ThreadOK
<1>3. subscribed' \in {subscribed, <<>>} /\ wanted' \in {wanted, subscribed, <<>>}
  <2>1. subscribed' \in {subscribed, <<>>}
    BY Raising DEF DataOK
  <2>2. attempt' = 0 => wanted' = <<>>
    BY <1>1 DEF ThreadOK
  <2> QED
    BY <2>1, <2>2, Raising DEF DataOK
<1>4. \A c \in ToSet(subscribed') \cup ToSet(wanted') :
        c \in ToSet(subscribed) \cup ToSet(wanted)
  BY <1>3, NoElements
<1> QED
  BY <1>1, <1>2, <1>4 DEF Credentials, NoRequest

\* Every step keeps track of who may ask for what.
LEMMA NextCredentials ==
  ASSUME Shape, Credentials, [Next]_vars
  PROVE  Credentials'
<1> USE DEF Shape
<1>1. ASSUME UNCHANGED <<authenticated, pending, subscribed, wanted>>,
             attempt' = 0 \/ at' \notin {"each", "calling"} \/ (attempt' = attempt /\ at' = at)
      PROVE  Credentials'
  BY <1>1 DEF Credentials
<1>2. CASE User
  <2>1. /\ at = "user" /\ UNCHANGED <<attempt, pending, subscribed, wanted>>
        /\ authenticated' => authenticated
    BY <1>2 DEF User, CallEach, CallConnect, CallClose, CallNext, Disconnect, state, task
  <2>2. attempt = 0
    BY <2>1 DEF ThreadOK
  <2> QED
    BY <2>1, <2>2 DEF Credentials
<1>3. CASE Opened
  <2>1. ~ authenticated' /\ at = "opening"
    BY <1>3 DEF Opened
  <2>2. CASE Keyed
    <3>1. Ask("auth", "none")
      BY <1>3, <2>2 DEF Opened
    <3>2. CASE Raise("closed")
      BY <2>1, <3>2, RaisingCredentials DEF Exceptions
    <3>3. CASE pending' = Request("auth", "none")
      BY <2>2, <3>3 DEF Credentials, Request
    <3> QED
      BY <3>1, <3>2, <3>3 DEF Ask, Request
  <2>3. CASE ~ Keyed
    BY <1>3, <2>1, <2>3 DEF Opened, Credentials
  <2> QED
    BY <2>2, <2>3
<1>4. CASE OpenFails \/ FindClosed
  <2>1. authenticated' = authenticated
    BY <1>4 DEF OpenFails, FindClosed
  <2>2. \E e \in Exceptions : Raise(e)
    BY <1>4 DEF OpenFails, FindClosed, Exceptions
  <2> QED
    BY <2>1, <2>2, RaisingCredentials DEF Credentials
<1>5. CASE AskNext
  <2>1. at = "each" /\ authenticated' = authenticated /\ pending = NoRequest
    BY <1>5 DEF AskNext, ThreadOK
  <2>2. ASSUME NEW e \in Exceptions, Raise(e)
        PROVE  Credentials'
    BY <2>1, <2>2, RaisingCredentials DEF Credentials
  <2>3. CASE Raise("rpc")
    BY <2>2, <2>3 DEF Exceptions
  <2>4. CASE /\ Ask(Asking, Head(todo)) /\ Request(Asking, Head(todo)) \in Requests
             /\ Asking = "subscribe" /\ Head(todo) \in PrivateChannels => authenticated
    <3>1. CASE Raise("closed")
      BY <2>2, <3>1 DEF Exceptions
    <3>2. CASE /\ pending' = Request(Asking, Head(todo))
               /\ UNCHANGED <<attempt, wanted, subscribed>>
      <4>1. pending'.method = Asking /\ pending'.channel = Head(todo)
        BY <3>2 DEF Request
      <4>2. Asking # "auth"
        BY <1>5, <2>1 DEF Asking, ThreadOK
      <4>3. Keyed /\ attempt > 0 => authenticated
        BY <2>1 DEF Credentials, NoRequest
      <4> QED
        BY <2>1, <2>4, <3>2, <4>1, <4>2, <4>3 DEF Credentials
    <3> QED
      BY <2>4, <3>1, <3>2 DEF Ask, Request
  <2> QED
    BY <1>5, <2>3, <2>4, AskNextThread
<1>6. CASE EachEnds
  <2>1. /\ attempt' = 0 /\ wanted' = <<>> /\ pending' = pending
        /\ UNCHANGED <<authenticated, subscribed>>
    <3>1. pending = NoRequest /\ attempt' = 0
      BY <1>6 DEF EachEnds, Return, ThreadOK
    <3> QED
      BY <1>6, <3>1 DEF EachEnds, Return, state
  <2>2. ToSet(wanted') = {}
    BY <2>1, NoElements
  <2> QED
    BY <2>1, <2>2 DEF Credentials
<1>7. CASE AnswerArrives
  <2>1. CASE ~ Head(inbox).good
    <3>1. Raise("rpc") /\ authenticated' = authenticated /\ "rpc" \in Exceptions
      BY <1>7, <2>1 DEF AnswerArrives, Exceptions
    <3> QED
      BY <3>1, RaisingCredentials DEF Credentials
  <2>2. CASE Head(inbox).good /\ pending.method = "auth"
    BY <1>7, <2>2 DEF AnswerArrives, Credentials, NoRequest
  <2>3. CASE Head(inbox).good /\ pending.method # "auth"
    <3>1. /\ at = "calling" /\ pending' = NoRequest
          /\ UNCHANGED <<authenticated, attempt, wanted>>
      BY <1>7, <2>3 DEF AnswerArrives
    <3>2. \A c \in ToSet(subscribed') :
            c \in ToSet(subscribed) \/ (pending.method = "subscribe" /\ c = pending.channel)
      BY <1>7, <2>3, AnswerRecorded, Recording
    <3> QED
      BY <2>3, <3>1, <3>2 DEF Credentials, NoRequest
  <2> QED
    BY <2>1, <2>2, <2>3
<1>8. CASE Drain \/ Receive
  <2>1. at \in {"listening", "reading"} /\ UNCHANGED <<authenticated, subscribed>>
    BY <1>8 DEF Drain, Receive, Reading, state
  <2>2. attempt = 0 /\ wanted = <<>> /\ pending = NoRequest
    BY <2>1 DEF ThreadOK
  <2>3. ThreadOK' /\ attempt' = 0 /\ at' # "calling"
    BY <1>8, <2>1, <2>2, Yielding DEF Drain, Receive
  <2>4. wanted' = <<>> /\ pending' = NoRequest
    BY <2>3 DEF ThreadOK
  <2> QED
    BY <1>1, <2>1, <2>2, <2>3, <2>4
<1>9. CASE Reopen
  <2>1. UNCHANGED <<authenticated, pending, subscribed, wanted>> /\ at' = "opening"
    BY <1>9 DEF Reopen, state, task
  <2> QED
    BY <1>1, <2>1
<1>10. CASE Retry
  BY <1>10 DEF Retry, Disconnect, task, Credentials
<1>11. CASE OtherArrives \/ Serve \/ Push \/ Drop \/ Waiting \/ UNCHANGED vars
  <2>1. UNCHANGED <<authenticated, pending, subscribed, wanted, at, attempt>>
    BY <1>11 DEF OtherArrives, Serve, Push, Drop, Waiting, vars, state, task
  <2> QED
    BY <1>1, <2>1
<1> QED
  BY <1>2, <1>3, <1>4, <1>5, <1>6, <1>7, <1>8, <1>9, <1>10, <1>11 DEF Next, Client

\* So a reconnect is never refused by the client's own check for credentials.
LEMMA NeverRefused ==
  ASSUME Shape, Restores, Credentials, AskNext, attempt > 0
  PROVE  ~ (Head(todo) \in PrivateChannels /\ ~ authenticated)
<1>1. at = "each" /\ todo # <<>> /\ pending = NoRequest /\ todo \in Seq(Channels)
  BY DEF AskNext, Shape, ThreadOK
<1>2. CASE Keyed
  BY <1>1, <1>2 DEF Credentials, NoRequest
<1>3. CASE ~ Keyed
  <2>1. Head(todo) \in ToSet(todo)
    BY <1>1, HeadAndTail
  <2> QED
    BY <1>3, <2>1 DEF Restores, Credentials
<1> QED
  BY <1>2, <1>3

\* The answer that _call waits for has come, and is an error.
Refused == at = "calling" /\ \E frame \in ToSet(inbox) : Matches(frame) /\ ~ frame.good

\* Every attempt has cost a fault, and where the next one is about to fail, it
\* has been paid for.
Affordable ==
  /\ attempt <= faults /\ faults <= MaxFaults
  /\ at # "backoff" /\ (ws = "dead" \/ Refused) => attempt < faults

\* An attempt that has been paid for may fail.
LEMMA RaisingAffordable ==
  ASSUME Shape, Affordable, NEW e \in Exceptions, Raise(e), at # "backoff",
         faults' \in Nat, faults <= faults', faults' <= MaxFaults, ws' = ws,
         attempt > 0 \/ e = "closed" => attempt < faults'
  PROVE  Affordable'
<1>1. attempt \in Nat /\ faults \in Nat /\ MaxFaults \in Nat
  BY RealtimeAssumption DEF Shape, ThreadOK, DataOK
<1>2. CASE attempt' = 0 /\ at' # "calling"
  <2>1. ws = "dead" => 0 < faults'
    BY <1>1 DEF Affordable
  <2> QED
    BY <1>1, <1>2, <2>1 DEF Affordable, Refused
<1>3. CASE attempt' = attempt + 1 /\ at' = "backoff" /\ attempt < faults'
  BY <1>1, <1>3 DEF Affordable, Refused
<1>4. at' # "calling"
  BY Raising DEF Shape, DataOK
<1>5. ThreadOK
  BY DEF Shape
<1>6. \/ attempt' = 0
      \/ attempt' = attempt + 1 /\ at' = "backoff" /\ (attempt > 0 \/ e = "closed")
  <2>1. 0 + 1 = 1
    OBVIOUS
  <2> QED
    BY <1>5, <2>1, RaisingLoudly
<1> QED
  BY <1>2, <1>3, <1>4, <1>6

\* Every step keeps the account.
LEMMA NextAffordable ==
  ASSUME Shape, Answers, Restores, Credentials, Affordable, [Next]_vars
  PROVE  Affordable'
<1> USE DEF Shape
<1>1. /\ attempt \in Nat /\ faults \in Nat /\ MaxFaults \in Nat
      /\ inbox \in Seq(Frames) /\ outbox \in Seq(Requests)
  BY RealtimeAssumption DEF ThreadOK, DataOK, ConnectionOK
<1>2. ASSUME faults' = faults, attempt' = attempt, ws' = ws \/ ws' # "dead",
             at # "backoff" \/ ws' # "dead", Refused' => Refused /\ at # "backoff"
      PROVE  Affordable'
  <2>1. attempt <= faults /\ faults <= MaxFaults
    BY DEF Affordable
  <2>2. at # "backoff" /\ ws = "dead" => attempt < faults
    BY DEF Affordable
  <2>3. at # "backoff" /\ Refused => attempt < faults
    BY DEF Affordable
  <2>4. ws' = "dead" \/ Refused' => attempt < faults
    BY <1>2, <2>2, <2>3
  <2> QED
    BY <1>2, <2>1, <2>4 DEF Affordable
<1>3. ASSUME faults' = faults + 1, faults < MaxFaults, attempt' = attempt
      PROVE  Affordable'
  BY <1>1, <1>3 DEF Affordable
<1>4. ASSUME faults' = faults, attempt' = attempt, UNCHANGED <<ws, at, inbox, pending>>
      PROVE  Affordable'
  BY <1>4 DEF Affordable, Refused, Matches
<1>5. CASE User
  <2>1. at = "user" /\ at' # "calling" /\ faults' = faults /\ attempt' = attempt
        /\ (ws' = ws \/ ws' # "dead")
    BY <1>5
    DEF User, CallEach, CallConnect, CallClose, CallNext, Disconnect, connection, task, history
  <2> QED
    BY <1>2, <2>1 DEF Refused
<1>6. CASE Opened
  <2>1. /\ at = "opening" /\ ws' = "open" /\ faults' = faults
        /\ inbox' = <<>>
    BY <1>6 DEF Opened, history, PlacesOK, ConnectionOK
  <2>2. attempt' = attempt
    BY <1>6, <2>1 DEF Opened, Ask, Connected
  <2>3. ~ Refused'
    BY <2>1, NoElements DEF Refused
  <2> QED
    BY <1>2, <2>1, <2>2, <2>3
<1>7. CASE OpenFails
  <2>1. /\ at = "opening" /\ faults < MaxFaults /\ faults' = faults + 1 /\ ws' = ws
        /\ Raise("os") /\ "os" \in Exceptions
    BY <1>7 DEF OpenFails, connection, Exceptions
  <2>2. attempt < faults' /\ faults' \in Nat /\ faults <= faults' /\ faults' <= MaxFaults
    BY <1>1, <2>1 DEF Affordable
  <2> QED
    BY <2>1, <2>2, RaisingAffordable
<1>8. CASE AskNext
  <2>1. /\ at = "each" /\ faults' = faults /\ ws' = ws /\ inbox' = inbox
        /\ faults \in Nat /\ faults <= faults /\ faults <= MaxFaults
    BY <1>1, <1>8 DEF AskNext, history, Affordable
  <2>2. CASE Raise("rpc") /\ Head(todo) \in PrivateChannels /\ ~ authenticated
    <3>1. ~ (attempt > 0)
      BY <1>8, <2>2, NeverRefused
    <3>2. "rpc" \in Exceptions /\ "rpc" # "closed"
      BY DEF Exceptions
    <3> QED
      BY <2>1, <2>2, <3>1, <3>2, RaisingAffordable
  <2>3. CASE Ask(Asking, Head(todo))
    <3>1. CASE ws = "dead" /\ Raise("closed")
      <4>1. attempt < faults /\ "closed" \in Exceptions
        BY <2>1, <3>1 DEF Affordable, Exceptions
      <4> QED
        BY <2>1, <3>1, <4>1, RaisingAffordable
    <3>2. CASE attempt' = attempt /\ pending' = Request(Asking, Head(todo))
      <4>1. pending'.id = ids /\ ids \in Nat
        BY <3>2 DEF Request, DataOK
      <4>2. \A frame \in ToSet(inbox) : frame.n \in Nat
        <5>1. ToSet(inbox) \subseteq Frames
          BY <1>1 DEF ToSet
        <5> QED
          BY <5>1 DEF Frames
      <4>3. \A frame \in ToSet(inbox) : IsPush(frame) \/ frame.n < ids
        BY DEF Answers, Fresh
      <4>4. \A frame \in ToSet(inbox) : IsPush(frame) \/ frame.n # ids
        <5>1. \A n \in Nat : n < ids => n # ids
          BY <4>1
        <5> QED
          BY <4>2, <4>3, <5>1
      <4>5. ~ Refused'
        BY <2>1, <4>1, <4>4 DEF Refused, Matches
      <4> QED
        BY <1>2, <2>1, <3>2, <4>5
    <3> QED
      BY <2>1, <2>3, <3>1, <3>2 DEF Ask, Request
  <2> QED
    BY <1>8, <2>2, <2>3, AskNextThread
<1>9. CASE EachEnds
  <2>1. at = "each" /\ faults' = faults /\ ws' = ws /\ attempt' = 0 /\ at' # "calling"
    BY <1>9 DEF EachEnds, Return, history, connection
  <2>2. ws = "dead" => 0 < faults
    BY <1>1, <2>1 DEF Affordable
  <2> QED
    BY <1>1, <2>1, <2>2 DEF Affordable, Refused
<1>10. CASE AnswerArrives
  <2>1. /\ at = "calling" /\ inbox # <<>> /\ Matches(Head(inbox)) /\ ws' = ws
        /\ faults' = faults /\ faults <= faults /\ faults <= MaxFaults
    BY <1>1, <1>10 DEF AnswerArrives, Affordable
  <2>2. CASE ~ Head(inbox).good
    <3>1. Refused
      BY <1>1, <2>1, <2>2, HeadAndTail DEF Refused
    <3>2. attempt < faults
      BY <2>1, <3>1 DEF Affordable
    <3>3. Raise("rpc") /\ "rpc" \in Exceptions
      BY <1>10, <2>2 DEF AnswerArrives, Exceptions
    <3> QED
      BY <1>1, <2>1, <3>2, <3>3, RaisingAffordable
  <2>3. CASE Head(inbox).good
    <3>1. attempt' = attempt /\ at' # "calling"
      BY <1>10, <2>3 DEF AnswerArrives, Connected
    <3> QED
      BY <1>2, <2>1, <3>1 DEF Refused
  <2> QED
    BY <2>2, <2>3
<1>11. CASE OtherArrives
  <2>1. /\ at = "calling" /\ inbox # <<>> /\ inbox' = Tail(inbox)
        /\ UNCHANGED <<ws, at, attempt, pending, faults>>
    BY <1>11 DEF OtherArrives, task, history
  <2>2. ToSet(inbox') \subseteq ToSet(inbox)
    BY <1>1, <2>1, HeadAndTail
  <2>3. Refused' => Refused
    BY <2>1, <2>2 DEF Refused, Matches
  <2> QED
    BY <1>2, <2>1, <2>3
<1>12. CASE Drain \/ Receive
  <2>1. at \in {"listening", "reading"} /\ ws' = ws /\ faults' = faults
    BY <1>12 DEF Drain, Receive, Reading, connection
  <2>2. attempt = 0 /\ attempt' = 0 /\ at' # "calling"
    BY <1>12, <2>1, Yielding DEF Drain, Receive, ThreadOK
  <2> QED
    BY <1>2, <2>1, <2>2 DEF Refused
<1>13. CASE Reopen
  BY <1>2, <1>13 DEF Reopen, connection, task, history, Refused
<1>14. CASE FindClosed
  <2>1. /\ at # "backoff" /\ ws = "dead" /\ ws' = ws /\ faults' = faults /\ Raise("closed")
        /\ "closed" \in Exceptions
    BY <1>14 DEF FindClosed, Reading, connection, history, Exceptions
  <2>2. attempt < faults /\ faults <= faults /\ faults <= MaxFaults
    BY <1>1, <2>1 DEF Affordable
  <2> QED
    BY <1>1, <2>1, <2>2, RaisingAffordable
<1>15. CASE Retry
  <2>1. ws' = "none" /\ at' = "opening" /\ attempt' = attempt /\ faults' = faults
    BY <1>15 DEF Retry, Disconnect, task
  <2> QED
    BY <1>2, <2>1 DEF Refused
<1>16. CASE Serve
  <2>1. attempt' = attempt /\ UNCHANGED <<ws, at, pending>> /\ Head(outbox) \in Requests
    BY <1>1, <1>16 DEF Serve, task
  <2>2. CASE faults' = faults + 1 /\ faults < MaxFaults
    BY <1>3, <2>1, <2>2
  <2>3. CASE faults' = faults /\ inbox' = Append(inbox, Frame("reply", Head(outbox).id, TRUE))
    <3>1. PICK frame \in Frames : frame.good /\ inbox' = Append(inbox, frame)
      <4>1. Frame("reply", Head(outbox).id, TRUE) \in Frames
        BY <2>1 DEF Frame, Frames, Requests
      <4> QED
        BY <2>3, <4>1 DEF Frame
    <3>2. ToSet(inbox') = ToSet(inbox) \cup {frame}
      BY <1>1, <3>1, Appended
    <3>3. Refused' => Refused
      BY <2>1, <3>1, <3>2 DEF Refused, Matches
    <3> QED
      BY <2>1, <2>3, <3>3 DEF Affordable, Refused
  <2> QED
    BY <1>16, <2>2, <2>3 DEF Serve
<1>17. CASE Push
  <2>1. attempt' = attempt /\ UNCHANGED <<ws, at, pending>> /\ pushed' \in Nat
    BY <1>17 DEF Push, task, DataOK
  <2>2. CASE faults' = faults + 1 /\ faults < MaxFaults
    BY <1>3, <2>1, <2>2
  <2>3. CASE faults' = faults /\ inbox' = Append(inbox, Frame("push", pushed', TRUE))
    <3>1. PICK frame \in Frames : IsPush(frame) /\ inbox' = Append(inbox, frame)
      <4>1. Frame("push", pushed', TRUE) \in Frames
        BY <2>1 DEF Frame, Frames
      <4> QED
        BY <2>3, <4>1 DEF Frame, IsPush
    <3>2. ToSet(inbox') = ToSet(inbox) \cup {frame}
      BY <1>1, <3>1, Appended
    <3>3. Refused' => Refused
      BY <2>1, <3>1, <3>2 DEF Refused, Matches
    <3> QED
      BY <2>1, <2>3, <3>3 DEF Affordable, Refused
  <2> QED
    BY <1>17, <2>2, <2>3 DEF Push
<1>18. CASE Drop
  BY <1>3, <1>18 DEF Drop, task
<1>19. CASE Waiting \/ UNCHANGED vars
  BY <1>4, <1>19 DEF Waiting, vars, connection, task, history
<1> QED
  BY <1>5, <1>6, <1>7, <1>8, <1>9, <1>10, <1>11, <1>12, <1>13, <1>14, <1>15, <1>16, <1>17,
     <1>18, <1>19
  DEF Next, Client
-----------------------------------------------------------------------------
(* What listen() goes on with *)

\* The end of a reconnect: everything that was wanted is subscribed to, and
\* served unless the connection is cut already.
LEMMA ReconnectEnding ==
  ASSUME Shape, Replays, Restores, EachEnds, attempt > 0
  PROVE  /\ ToSet(subscribed) = ToSet(wanted) /\ ws' = ws /\ subscribed' = subscribed
         /\ serves' = serves /\ ws \in {"open", "dead"}
         /\ ws = "open" => ToSet(subscribed) \subseteq serves
<1>1. /\ at = "each" /\ todo = <<>> /\ pending = NoRequest /\ ws \in {"open", "dead"}
      /\ UNCHANGED <<ws, subscribed, serves>>
  BY DEF EachEnds, connection, state, Shape, ThreadOK, PlacesOK, ConnectionOK
<1>2. ToSet(todo) = {}
  BY <1>1, NoElements
<1>3. ToSet(wanted) \subseteq ToSet(subscribed)
  BY <1>1, <1>2 DEF Replays, NoRequest
<1>4. /\ ToSet(subscribed) \subseteq ToSet(wanted)
      /\ ws = "open" => ToSet(subscribed) \subseteq serves
  BY <1>1, <1>2 DEF Restores
<1> QED
  BY <1>1, <1>3, <1>4

\* Only the end of _each takes a reconnect back to listen().
LEMMA ReconnectEndsThere ==
  ASSUME Shape, [Next]_vars, attempt > 0, at' = "listening"
  PROVE  EachEnds
<1> USE DEF Shape
<1>1. at \notin {"listening", "reading", "user"}
  BY DEF ThreadOK
<1>2. ASSUME NEW e \in Exceptions
      PROVE  ~ Raise(e)
  BY Raising DEF DataOK
<1>3. ~ Raise("os") /\ ~ Raise("rpc") /\ ~ Raise("closed")
  BY <1>2 DEF Exceptions
<1>4. ~ (AnswerArrives /\ Head(inbox).good)
  BY DEF AnswerArrives, Connected
<1>5. ~ AnswerArrives
  BY <1>3, <1>4 DEF AnswerArrives
<1>6. ~ Opened /\ ~ AskNext
  BY <1>3 DEF Opened, AskNext, Ask, Connected
<1>7. ~ OpenFails /\ ~ FindClosed
  BY <1>3 DEF OpenFails, FindClosed
<1>8. ~ User /\ ~ OtherArrives /\ ~ Drain /\ ~ Receive /\ ~ Reopen /\ ~ Retry
  BY <1>1
  DEF User, CallEach, CallConnect, CallClose, CallNext, OtherArrives, Drain, Receive,
      Reading, Reopen, Retry
<1>9. ~ Serve /\ ~ Push /\ ~ Drop /\ ~ Waiting /\ ~ UNCHANGED vars
  BY <1>1 DEF Serve, Push, Drop, Waiting, vars
<1> QED
  BY <1>5, <1>6, <1>7, <1>8, <1>9 DEF Next, Client

\* All that reconnects rest on.
Reconnects == Shape /\ Answers /\ Replays /\ Restores /\ Credentials /\ Affordable

\* It holds before the first call.
LEMMA InitReconnects == Init => Reconnects
<1> SUFFICES ASSUME Init PROVE Reconnects
  OBVIOUS
<1>1. MaxFaults \in Nat
  BY RealtimeAssumption
<1>2. Replays /\ Restores
  BY DEF Init, Replays, Restores
<1>3. Credentials
  BY NoElements DEF Init, Credentials, NoRequest
<1>4. Affordable
  BY <1>1, NoElements DEF Init, Affordable, Refused
<1> QED
  BY <1>2, <1>3, <1>4, InitShape, InitAnswers DEF Reconnects

\* Every step keeps it.
LEMMA NextReconnects == Reconnects /\ [Next]_vars => Reconnects'
BY NextShape, NextAnswers, NextReplays, NextRestores, NextCredentials, NextAffordable
DEF Reconnects

\* listen() goes on after a reconnect only with every channel the reconnect was
\* to restore subscribed to, and served on a connection that is not cut
\* meanwhile, whatever the settings are and whatever failed on the way
\* (_reconnect_now, realtime.py:345-372).
THEOREM ReconnectsRestore ==
  Spec => [][attempt > 0 /\ at' = "listening"
             => /\ ToSet(subscribed') = ToSet(wanted)
                /\ ws' = "open" => ToSet(wanted) \subseteq serves']_vars
<1> DEFINE Restored == attempt > 0 /\ at' = "listening"
                         => /\ ToSet(subscribed') = ToSet(wanted)
                            /\ ws' = "open" => ToSet(wanted) \subseteq serves'
<1>1. Reconnects /\ [Next]_vars => [Restored]_vars
  BY ReconnectEnding, ReconnectEndsThere DEF Reconnects
<1> QED
  BY <1>1, InitReconnects, NextReconnects, PTL DEF Spec

\* The client is subscribed to what the user subscribed to, or will be again.
Follows == confirmed = Owed

\* A client that retries forever, with delays that can be computed, follows the
\* user's calls.
LEMMA NextFollows ==
  ASSUME MaxAttempts = Forever, MaxFaults <= MaxExponent,
         Reconnects, Follows, [Next]_vars
  PROVE  Follows'
<1>1. ~ (MaxAttempts # Forever \/ attempt > MaxExponent)
  <2>1. attempt <= faults /\ faults <= MaxFaults
    BY DEF Reconnects, Affordable
  <2>2. {attempt, faults, MaxFaults, MaxExponent} \subseteq Nat
    BY RealtimeAssumption DEF Reconnects, Shape, ThreadOK, DataOK
  <2> QED
    BY <2>1, <2>2
<1>2. CASE Owed' = Owed /\ confirmed' = confirmed
  BY <1>2 DEF Follows
<1>3. CASE EachEnds /\ attempt > 0 /\ confirmed' = confirmed
  <2>1. ToSet(subscribed) = ToSet(wanted) /\ subscribed' = subscribed /\ attempt' = 0
    BY <1>3, ReconnectEnding DEF Reconnects, EachEnds, Return
  <2>2. attempt # 0
    BY <1>3 DEF Reconnects, Shape, ThreadOK
  <2> QED
    BY <1>3, <2>1, <2>2 DEF Follows, Owed
<1>4. CASE /\ AnswerArrives /\ Head(inbox).good /\ pending.method # "auth"
           /\ attempt = 0 /\ attempt' = 0
  <2>1. confirmed' = ToSet(subscribed')
    BY <1>4, AnswerConfirmed DEF Reconnects, Follows, Owed
  <2> QED
    BY <1>4, <2>1 DEF Follows, Owed
<1> QED
  BY <1>1, <1>2, <1>3, <1>4, OwedChanges DEF Reconnects

\* A channel that was subscribed to is in `subscriptions`, or in what a reconnect
\* under way will subscribe to, as long as max_reconnect_attempts is None and
\* no more attempts fail than 2.0 ** e has exponents for (realtime.py:345-372).
THEOREM SubscriptionsAreKept ==
  ASSUME MaxAttempts = Forever, MaxFaults <= MaxExponent
  PROVE  Spec => []KeepsSubscriptions
<1>1. Init => Reconnects /\ Follows
  BY InitReconnects, NoElements DEF Init, Follows, Owed
<1>2. Reconnects /\ Follows /\ [Next]_vars => (Reconnects /\ Follows)'
  BY NextReconnects, NextFollows
<1>3. Follows => KeepsSubscriptions
  BY DEF Follows, Owed, KeepsSubscriptions
<1> QED
  BY <1>1, <1>2, <1>3, PTL DEF Spec

\* With the same settings listen() goes on after a reconnect only when the server
\* serves again all that the user subscribed to, unless the connection it goes
\* on with is cut already (realtime.py:345-372, 389-426).
THEOREM SubscriptionsAreRestored ==
  ASSUME MaxAttempts = Forever, MaxFaults <= MaxExponent
  PROVE  Spec => RestoresSubscriptions
<1> DEFINE Restored == attempt > 0 /\ at' = "listening"
                         => ws' = "dead" \/ (ToSet(subscribed') = confirmed
                                             /\ confirmed \subseteq serves')
<1>1. Init => Reconnects /\ Follows
  BY InitReconnects, NoElements DEF Init, Follows, Owed
<1>2. Reconnects /\ Follows /\ [Next]_vars => (Reconnects /\ Follows)'
  BY NextReconnects, NextFollows
<1>3. Reconnects /\ Follows /\ [Next]_vars => [Restored]_vars
  <2> SUFFICES ASSUME Reconnects, Follows, [Next]_vars, attempt > 0, at' = "listening"
               PROVE  Restored
    OBVIOUS
  <2>1. confirmed = ToSet(wanted)
    BY DEF Follows, Owed, Reconnects, Shape, ThreadOK
  <2>2. EachEnds
    BY ReconnectEndsThere DEF Reconnects
  <2> QED
    BY <2>1, <2>2, ReconnectEnding DEF Reconnects
<1> QED
  BY <1>1, <1>2, <1>3, PTL DEF Spec, RestoresSubscriptions
=============================================================================
