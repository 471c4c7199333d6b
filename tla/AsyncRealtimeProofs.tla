-------------------------- MODULE AsyncRealtimeProofs --------------------------
(***************************************************************************)
(* What cancellation does not break: the invariants that the proofs about  *)
(* Realtime rest on survive a CancelledError at any await, so the async    *)
(* client keeps all that does not depend on a reconnect running to its end. *)
(***************************************************************************)
EXTENDS AsyncRealtime, RealtimeStreamProofs, RealtimeSubscriptionProofs

\* Cancelled is where the thread waits, and back with the user, empty-handed.
LEMMA CancelReturns ==
  ASSUME Shape, Cancel
  PROVE  /\ ThreadOK' /\ at' = "user" /\ attempt' = 0 /\ raised' = "cancelled"
         /\ pending' = NoRequest /\ todo' = <<>> /\ wanted' = <<>>
         /\ UNCHANGED <<ws, inbox, outbox, knows, serves, authenticated, subscribed,
                        buffer, ids, pushed, delivered, lost, confirmed, faults>>
<1>1. Return("cancelled") /\ "cancelled" \in Exceptions
  BY DEF Cancel, Exceptions
<1>2. ThreadOK'
  BY <1>1, Returning DEF Shape
<1>3. UNCHANGED <<ws, inbox, outbox, knows, serves, authenticated, subscribed,
                  buffer, ids, pushed, delivered, lost, confirmed, faults>>
  BY DEF Cancel, connection, state
<1> QED
  BY <1>1, <1>2, <1>3 DEF Return

\* It leaves the thread, the connection and the data in order.
LEMMA CancelShape ==
  ASSUME Shape, Cancel
  PROVE  Shape'
<1>1. ThreadOK'
  BY CancelReturns
<1>2. ConnectionOK'
  BY CancelReturns DEF Shape, ConnectionOK
<1>3. DataOK'
  BY CancelReturns DEF Shape, DataOK
<1>4. PlacesOK'
  BY CancelReturns DEF Shape, PlacesOK
<1> QED
  BY <1>1, <1>2, <1>3, <1>4 DEF Shape

\* The answer to a request nobody waits for any more bears an id that no later
\* request will have.
LEMMA CancelAnswers ==
  ASSUME Shape, Answers, Cancel
  PROVE  Answers'
<1>1. /\ ids' = ids /\ pending' = NoRequest /\ at' # "calling"
      /\ ToSet(outbox') \subseteq ToSet(outbox) /\ ToSet(inbox') \subseteq ToSet(inbox)
  BY CancelReturns
<1>2. ids \in Nat \ {0}
  BY DEF Shape, DataOK
<1> QED
  BY <1>1, <1>2, NothingAsked

\* Nothing is granted by it.
LEMMA CancelGuarded ==
  ASSUME Shape, Guarded, Cancel
  PROVE  Guarded'
<1>1. UNCHANGED <<ws, outbox, knows, serves, authenticated>>
  BY CancelReturns
<1> QED
  BY <1>1 DEF Guarded

\* The frame that recv() was about to return stays where it is.
LEMMA CancelInOrder ==
  ASSUME Shape, InOrder, Cancel
  PROVE  InOrder' /\ UNCHANGED Stream!feed
<1>1. UNCHANGED <<buffer, inbox, pushed, delivered, lost>>
  BY CancelReturns
<1>2. /\ Ordered(buffer') /\ Numbers(buffer') = Numbers(buffer)
      /\ Ordered(inbox') /\ Numbers(inbox') = Numbers(inbox)
  <2>1. Ordered(buffer) /\ Ordered(inbox)
    BY DEF InOrder
  <2> QED
    BY <1>1, <2>1
<1> QED
  BY <1>1, <1>2, MessagesStay

\* A connect() that is cancelled has no recv() after it.
LEMMA CancelUnread ==
  ASSUME Shape, Cancel
  PROVE  Unread'
BY CancelReturns DEF Unread, Reopening

\* A reconnect that is cancelled is over, and what it has cost stays paid.
LEMMA CancelReconnects ==
  ASSUME Reconnects, Cancel
  PROVE  Reconnects'
<1>1. Shape /\ Answers
  BY DEF Reconnects
<1>2. Replays' /\ Restores'
  BY <1>1, CancelReturns DEF Replays, Restores
<1>3. Credentials'
  <2>1. /\ attempt' = 0 /\ pending' = NoRequest /\ wanted' = <<>>
        /\ UNCHANGED <<authenticated, subscribed>>
    BY <1>1, CancelReturns
  <2>2. ToSet(wanted') = {}
    BY <2>1, NoElements
  <2> QED
    BY <2>1, <2>2 DEF Reconnects, Credentials, NoRequest
<1>4. Affordable'
  <2>1. at' = "user" /\ attempt' = 0 /\ ws' = ws /\ faults' = faults
    BY <1>1, CancelReturns
  <2>2. attempt \in Nat /\ faults \in Nat /\ (at = "backoff" => attempt > 0)
    BY <1>1 DEF Shape, ThreadOK, DataOK
  <2>3. ws = "dead" => 0 < faults
    BY <2>2 DEF Reconnects, Affordable
  <2> QED
    BY <2>1, <2>2, <2>3 DEF Reconnects, Affordable, Refused
<1> QED
  BY <1>1, <1>2, <1>3, <1>4, CancelShape, CancelAnswers DEF Reconnects
-----------------------------------------------------------------------------
(* All of it together *)

IInv == Reconnects /\ Guarded /\ InOrder /\ Unread

\* It holds before the first call.
LEMMA InitIInv == Init => IInv
<1>1. Init => Guarded
  BY NoElements DEF Init, Guarded
<1> QED
  BY <1>1, InitReconnects, InitInOrder DEF IInv

\* Every step keeps it, cancelled or not.
LEMMA NextIInv == IInv /\ [AsyncNext]_vars => IInv'
<1> SUFFICES ASSUME IInv, [AsyncNext]_vars PROVE IInv'
  OBVIOUS
<1>1. CASE [Next]_vars
  BY <1>1, NextReconnects, NextGuarded, NextInOrder, NextUnread DEF IInv, Reconnects
<1>2. CASE Cancel
  BY <1>2, CancelReconnects, CancelGuarded, CancelInOrder, CancelUnread DEF IInv, Reconnects
<1> QED
  BY <1>1, <1>2 DEF AsyncNext

\* The task is where the code can be, with what it holds there, wherever the calls
\* before it were cancelled (realtime.py:429-558).
THEOREM AsyncTypeCorrect == AsyncSpec => []TypeOK
<1>1. IInv => TypeOK
  BY ShapeIsTyped DEF IInv, Reconnects
<1> QED
  BY <1>1, InitIInv, NextIInv, PTL DEF AsyncSpec

\* A call that is cancelled while it waits takes no message with it, and leaves
\* none out of order (listen() and _call of the async client).
THEOREM AsyncStreamIsIntact == AsyncSpec => []StreamIntact
<1>1. IInv => StreamIntact
  BY InOrderIsIntact DEF IInv, Reconnects
<1> QED
  BY <1>1, InitIInv, NextIInv, PTL DEF AsyncSpec

\* The async client is a feed as well: a cancelled call does not show in it.
THEOREM AsyncRealtimeIsAFeed == AsyncSpec => StaysInFeed
<1>1. Init => Stream!Init
  BY InitInOrder
<1>2. IInv /\ [AsyncNext]_vars => [Stream!Next]_(Stream!feed)
  <2>1. IInv /\ [Next]_vars => [Stream!Next]_(Stream!feed)
    BY NextInOrder DEF IInv, Reconnects
  <2>2. IInv /\ Cancel => [Stream!Next]_(Stream!feed)
    BY CancelInOrder DEF IInv, Reconnects
  <2> QED
    BY <2>1, <2>2 DEF AsyncNext
<1> QED
  BY <1>1, <1>2, InitIInv, NextIInv, PTL DEF AsyncSpec, StaysInFeed, Stream!Spec

\* No private channel is asked for or served on a connection that the server has
\* not authenticated, also after an authentication that was cancelled.
THEOREM AsyncPrivateChannelsNeedAuth == AsyncSpec => []PrivateNeedsAuth
<1>1. IInv => PrivateNeedsAuth
  BY GuardedIsPrivate DEF IInv
<1> QED
  BY <1>1, InitIInv, NextIInv, PTL DEF AsyncSpec

\* _call only waits while its answer can come, also when answers to requests
\* that were cancelled come first.
THEOREM AsyncAnswersAreComing == AsyncSpec => []AnswerIsComing
<1>1. IInv => AnswerIsComing
  BY AnsweredIsComing DEF IInv, Reconnects
<1> QED
  BY <1>1, InitIInv, NextIInv, PTL DEF AsyncSpec

\* The answer to a request that was cancelled never changes `subscriptions`: a
\* later request does not take it for its own (_match, realtime.py:173-189).
THEOREM AsyncNamesFollowTheServer == AsyncSpec => RecordsWhatTheServerDid
<1> DEFINE Recorded ==
      ws = "open" =>
        /\ ToSet(subscribed') \ ToSet(subscribed) \subseteq serves
        /\ (ToSet(subscribed) \ ToSet(subscribed')) \cap serves = {}
<1>1. IInv /\ [AsyncNext]_vars => [Recorded]_vars
  <2> SUFFICES ASSUME IInv, [AsyncNext]_vars, ws = "open", subscribed' # subscribed
               PROVE  Recorded
    OBVIOUS
  <2>1. Shape /\ Answers
    BY DEF IInv, Reconnects
  <2>2. [Next]_vars
    BY <2>1, CancelReturns DEF AsyncNext
  <2>3. AnswerArrives /\ Head(inbox).good /\ pending.method # "auth"
    BY <2>1, <2>2, NamesChange
  <2>4. Served(pending)
    BY <2>1, <2>3, AnswersTell
  <2>5. /\ pending.method \in {"subscribe", "unsubscribe"}
        /\ ToSet(subscribed') = IF pending.method = "subscribe"
                                THEN ToSet(subscribed) \cup {pending.channel}
                                ELSE ToSet(subscribed) \ {pending.channel}
    BY <2>1, <2>3, AnswerRecorded, Recording
  <2> QED
    BY <2>4, <2>5 DEF Served
<1> QED
  BY <1>1, InitIInv, NextIInv, PTL DEF AsyncSpec, RecordsWhatTheServerDid

\* Subscriptions are forgotten only by a call that raises: gave up, overflowed, or
\* was cancelled (_reconnect_now of the async client).
THEOREM AsyncNothingForgottenSilently == AsyncSpec => ForgetsOnlyLoudly
<1> DEFINE Loudly == KeepsSubscriptions /\ ~ KeepsSubscriptions'
                       => raised' \in {"gave up", "overflow", "cancelled"}
<1>1. IInv /\ [AsyncNext]_vars => [Loudly]_vars
  <2> SUFFICES ASSUME IInv, [AsyncNext]_vars, KeepsSubscriptions
               PROVE  KeepsSubscriptions' \/ raised' \in {"gave up", "overflow", "cancelled"}
    OBVIOUS
  <2>1. Shape /\ Replays
    BY DEF IInv, Reconnects
  <2>2. CASE Cancel
    BY <2>1, <2>2, CancelReturns
  <2>3. CASE [Next]_vars
    BY <2>1, <2>3, ForgettingIsLoud
  <2> QED
    BY <2>2, <2>3 DEF AsyncNext
<1> QED
  BY <1>1, InitIInv, NextIInv, PTL DEF AsyncSpec, ForgetsOnlyLoudly

\* A reconnect that is not cancelled restores what it wanted, whatever was
\* cancelled before it.
THEOREM AsyncReconnectsRestore ==
  AsyncSpec => [][attempt > 0 /\ at' = "listening"
                  => /\ ToSet(subscribed') = ToSet(wanted)
                     /\ ws' = "open" => ToSet(wanted) \subseteq serves']_vars
<1> DEFINE Restored == attempt > 0 /\ at' = "listening"
                         => /\ ToSet(subscribed') = ToSet(wanted)
                            /\ ws' = "open" => ToSet(wanted) \subseteq serves'
<1>1. IInv /\ [AsyncNext]_vars => [Restored]_vars
  <2> SUFFICES ASSUME IInv, [AsyncNext]_vars, attempt > 0, at' = "listening"
               PROVE  Restored
    OBVIOUS
  <2>1. Shape /\ Replays /\ Restores
    BY DEF IInv, Reconnects
  <2>2. [Next]_vars
    BY <2>1, CancelReturns DEF AsyncNext
  <2> QED
    BY <2>1, <2>2, ReconnectEnding, ReconnectEndsThere
<1> QED
  BY <1>1, InitIInv, NextIInv, PTL DEF AsyncSpec
=============================================================================
