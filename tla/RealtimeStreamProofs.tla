-------------------------- MODULE RealtimeStreamProofs --------------------------
(***************************************************************************)
(* That Realtime implements Feed: what no request, reconnect or cut does   *)
(* to the stream of messages.                                              *)
(***************************************************************************)
EXTENDS RealtimeProofs

-----------------------------------------------------------------------------
(* The stream of messages *)

\* The messages among some frames are in the order of their numbers.
Ordered(frames) ==
  \A i, j \in DOMAIN frames :
    i < j /\ IsPush(frames[i]) /\ IsPush(frames[j]) => frames[i].n < frames[j].n

\* The message a frame may be.
NumberOf(frame) == IF IsPush(frame) THEN {frame.n} ELSE {}

\* Whatever comes before the head of a queue, it is the first of its messages.
LEMMA NumbersOfTail ==
  ASSUME NEW frames \in Seq(Frames), frames # <<>>, Ordered(frames)
  PROVE  /\ Ordered(Tail(frames))
         /\ Numbers(frames) = NumberOf(Head(frames)) \cup Numbers(Tail(frames))
         /\ \A m \in NumberOf(Head(frames)), n \in Numbers(Tail(frames)) : m < n
<1> DEFINE t == Tail(frames)
           l == Len(frames)
<1>1. /\ t \in Seq(Frames) /\ Len(t) = l - 1 /\ Head(frames) = frames[1]
      /\ \A i \in 1 .. l - 1 : t[i] = frames[i + 1]
  BY HeadAndTail
<1>2. DOMAIN frames = 1 .. l /\ DOMAIN t = 1 .. l - 1 /\ l \in Nat \ {0}
  BY <1>1
<1> HIDE DEF t, l
<1>3. \A i \in 1 .. l - 1 : i + 1 \in 1 .. l /\ 1 < i + 1
  BY <1>2
<1>4. \A i \in 1 .. l : i = 1 \/ (i - 1 \in 1 .. l - 1 /\ frames[i] = t[i - 1])
  <2> SUFFICES ASSUME NEW i \in 1 .. l, i # 1
               PROVE  i - 1 \in 1 .. l - 1 /\ frames[i] = t[i - 1]
    OBVIOUS
  <2>1. i - 1 \in 1 .. l - 1 /\ (i - 1) + 1 = i
    BY <1>2
  <2> QED
    BY <1>1, <2>1 DEF t, l
<1>5. Ordered(t)
  <2> SUFFICES ASSUME NEW i \in 1 .. l - 1, NEW j \in 1 .. l - 1, i < j,
                      IsPush(t[i]), IsPush(t[j])
               PROVE  t[i].n < t[j].n
    BY <1>2 DEF Ordered
  <2>1. t[i] = frames[i + 1] /\ t[j] = frames[j + 1] /\ i + 1 < j + 1
    BY <1>1, <1>2 DEF t, l
  <2> QED
    BY <1>2, <1>3, <2>1 DEF Ordered
<1>6. \A m \in NumberOf(frames[1]), n \in Numbers(t) : m < n
  <2> SUFFICES ASSUME IsPush(frames[1]), NEW i \in 1 .. l - 1, IsPush(t[i])
               PROVE  frames[1].n < t[i].n
    BY <1>2 DEF NumberOf, Numbers
  <2>1. t[i] = frames[i + 1] /\ 1 \in 1 .. l
    BY <1>1, <1>2 DEF t, l
  <2> QED
    BY <1>2, <1>3, <2>1 DEF Ordered
<1>7. Numbers(frames) = NumberOf(frames[1]) \cup Numbers(t)
  <2>1. Numbers(t) \subseteq Numbers(frames)
    <3> SUFFICES ASSUME NEW i \in 1 .. l - 1, IsPush(t[i])
                 PROVE  t[i].n \in Numbers(frames)
      BY <1>2 DEF Numbers
    <3>1. t[i] = frames[i + 1]
      BY <1>1, <1>2 DEF t, l
    <3> QED
      BY <1>2, <1>3, <3>1 DEF Numbers
  <2>2. NumberOf(frames[1]) \subseteq Numbers(frames)
    <3>1. 1 \in 1 .. l
      BY <1>2
    <3> QED
      BY <1>2, <3>1 DEF NumberOf, Numbers
  <2>3. Numbers(frames) \subseteq NumberOf(frames[1]) \cup Numbers(t)
    <3> SUFFICES ASSUME NEW i \in 1 .. l, IsPush(frames[i])
                 PROVE  frames[i].n \in NumberOf(frames[1]) \cup Numbers(t)
      BY <1>2 DEF Numbers
    <3> QED
      BY <1>2, <1>4 DEF NumberOf, Numbers
  <2> QED
    BY <2>1, <2>2, <2>3
<1> QED
  BY <1>1, <1>5, <1>6, <1>7 DEF t

\* A frame that is appended comes after what is there.
LEMMA NumbersOfAppend ==
  ASSUME NEW frames \in Seq(Frames), NEW frame \in Frames, Ordered(frames),
         \A m \in Numbers(frames), n \in NumberOf(frame) : m < n
  PROVE  /\ Ordered(Append(frames, frame))
         /\ Numbers(Append(frames, frame)) = Numbers(frames) \cup NumberOf(frame)
<1> DEFINE t == Append(frames, frame)
           l == Len(frames)
<1>1. /\ t \in Seq(Frames) /\ Len(t) = l + 1 /\ t[l + 1] = frame
      /\ \A i \in 1 .. l : t[i] = frames[i]
  BY Appended
<1>2. DOMAIN frames = 1 .. l /\ DOMAIN t = 1 .. l + 1 /\ l \in Nat
  BY <1>1
<1> HIDE DEF t, l
<1>3. \A i \in 1 .. l + 1 : i \in 1 .. l \/ i = l + 1
  BY <1>2
<1>4. l + 1 \in 1 .. l + 1 /\ \A i \in 1 .. l : i \in 1 .. l + 1 /\ i < l + 1
  BY <1>2
<1>5. t[l + 1] = frame /\ \A i \in 1 .. l : t[i] = frames[i]
  BY <1>1 DEF t, l
<1>6. Ordered(t)
  <2> SUFFICES ASSUME NEW i \in 1 .. l + 1, NEW j \in 1 .. l + 1, i < j,
                      IsPush(t[i]), IsPush(t[j])
               PROVE  t[i].n < t[j].n
    BY <1>2 DEF Ordered
  <2>1. i \in 1 .. l
    BY <1>2
  <2>2. CASE j \in 1 .. l
    BY <1>2, <1>5, <2>1, <2>2 DEF Ordered
  <2>3. CASE j = l + 1
    BY <1>2, <1>5, <2>1, <2>3 DEF Numbers, NumberOf
  <2> QED
    BY <1>3, <2>2, <2>3
<1>7. Numbers(t) = Numbers(frames) \cup NumberOf(frame)
  <2>1. Numbers(t) \subseteq Numbers(frames) \cup NumberOf(frame)
    BY <1>2, <1>3, <1>5 DEF Numbers, NumberOf
  <2>2. NumberOf(frame) \subseteq Numbers(t)
    BY <1>2, <1>4, <1>5 DEF Numbers, NumberOf
  <2>3. Numbers(frames) \subseteq Numbers(t)
    BY <1>2, <1>4, <1>5 DEF Numbers
  <2> QED
    BY <2>1, <2>2, <2>3
<1> QED
  BY <1>6, <1>7 DEF t

\* A connection that is cut keeps the first messages and loses the others.
LEMMA NumbersOfPrefix ==
  ASSUME NEW frames \in Seq(Frames), Ordered(frames), NEW k \in 0 .. Len(frames)
  PROVE  /\ Ordered(SubSeq(frames, 1, k))
         /\ Numbers(SubSeq(frames, 1, k))
              = Numbers(frames) \ Numbers(SubSeq(frames, k + 1, Len(frames)))
         /\ Numbers(SubSeq(frames, k + 1, Len(frames))) \subseteq Numbers(frames)
<1> DEFINE l == Len(frames)
           front == SubSeq(frames, 1, k)
           back == SubSeq(frames, k + 1, l)
<1>1. DOMAIN front = 1 .. k /\ \A i \in 1 .. k : front[i] = frames[i]
  OBVIOUS
<1>2. DOMAIN back = 1 .. l - k /\ \A i \in 1 .. l - k : back[i] = frames[i + k]
  OBVIOUS
<1>3. DOMAIN frames = 1 .. l /\ l \in Nat /\ k \in 0 .. l
  OBVIOUS
<1>4. \A i \in 1 .. l : frames[i].n \in Nat
  <2>1. \A frame \in Frames : frame.n \in Nat
    BY DEF Frames
  <2> QED
    BY <2>1
<1> HIDE DEF l, front, back
<1>5. 1 .. k \subseteq 1 .. l
  BY <1>3
<1>6. \A i \in 1 .. l - k : i + k \in 1 .. l /\ \A j \in 1 .. k : j < i + k
  BY <1>3
<1>7. \A i \in 1 .. l : i \in 1 .. k \/ (i - k \in 1 .. l - k /\ frames[i] = back[i - k])
  <2> SUFFICES ASSUME NEW i \in 1 .. l, i \notin 1 .. k
               PROVE  i - k \in 1 .. l - k /\ frames[i] = back[i - k]
    OBVIOUS
  <2>1. i - k \in 1 .. l - k /\ (i - k) + k = i
    BY <1>3
  <2> QED
    BY <1>2, <2>1
<1>8. Ordered(front)
  BY <1>1, <1>3, <1>5 DEF Ordered
<1>9. Numbers(front) \subseteq Numbers(frames)
  BY <1>1, <1>3, <1>5 DEF Numbers
<1>10. Numbers(back) \subseteq Numbers(frames)
  BY <1>2, <1>3, <1>6 DEF Numbers
<1>11. Numbers(frames) \subseteq Numbers(front) \cup Numbers(back)
  <2> SUFFICES ASSUME NEW i \in 1 .. l, IsPush(frames[i])
               PROVE  frames[i].n \in Numbers(front) \cup Numbers(back)
    BY <1>3 DEF Numbers
  <2>1. CASE i \in 1 .. k
    BY <1>1, <2>1 DEF Numbers
  <2>2. CASE i - k \in 1 .. l - k /\ frames[i] = back[i - k]
    BY <1>2, <2>2 DEF Numbers
  <2> QED
    BY <1>7, <2>1, <2>2
<1>12. ASSUME NEW i \in 1 .. k, IsPush(front[i]), NEW j \in 1 .. l - k, IsPush(back[j])
       PROVE  front[i].n # back[j].n
  <2>1. front[i] = frames[i] /\ back[j] = frames[j + k]
    BY <1>1, <1>2
  <2>2. i \in 1 .. l /\ j + k \in 1 .. l /\ i < j + k
    BY <1>5, <1>6
  <2>3. frames[i].n < frames[j + k].n
    BY <1>3, <1>12, <2>1, <2>2 DEF Ordered
  <2> QED
    BY <1>4, <2>1, <2>2, <2>3
<1>13. Numbers(front) \cap Numbers(back) = {}
  BY <1>1, <1>2, <1>12 DEF Numbers
<1> QED
  BY <1>8, <1>9, <1>10, <1>11, <1>13 DEF l, front, back
-----------------------------------------------------------------------------
(* What the stream of messages is, at any time *)

\* What was pushed and is not lost is delivered, kept in the buffer, or still in
\* the frames to be read, in the order of the numbers and once in all of them.
InOrder ==
  /\ \A i, j \in DOMAIN delivered : i < j => delivered[i] < delivered[j]
  /\ Ordered(buffer) /\ Ordered(inbox)
  /\ \A m \in Numbers(buffer), n \in Numbers(inbox) : m < n
  /\ \A m \in ToSet(delivered), n \in Numbers(buffer) \cup Numbers(inbox) : m < n
  /\ ToSet(delivered) \cup Numbers(buffer) \cup Numbers(inbox) = (1 .. pushed) \ lost
  /\ lost \subseteq 1 .. pushed

\* What Feed holds back is what the client has yet to look at.
LEMMA Undelivered ==
  ASSUME Shape, InOrder
  PROVE  /\ Stream!Outstanding = Numbers(buffer) \cup Numbers(inbox)
         /\ Stream!Outstanding \subseteq Nat
<1>1. pushed \in Nat
  BY DEF Shape, DataOK
<1>2. Stream!Outstanding = (1 .. pushed) \ (lost \cup ToSet(delivered))
  BY DEF Stream!Outstanding, Stream!ToSet, ToSet
<1>3. \A m \in ToSet(delivered), n \in Numbers(buffer) \cup Numbers(inbox) : m # n
  <2>1. \A m \in 1 .. pushed, n \in 1 .. pushed : m < n => m # n
    BY <1>1
  <2> QED
    BY <2>1 DEF InOrder
<1>4. Stream!Outstanding = Numbers(buffer) \cup Numbers(inbox)
  BY <1>2, <1>3 DEF InOrder
<1>5. Stream!Outstanding \subseteq Nat
  BY <1>1, <1>2
<1> QED
  BY <1>4, <1>5

\* A step that leaves the messages where they are does not show.
LEMMA MessagesStay ==
  ASSUME InOrder, UNCHANGED <<pushed, delivered, lost>>,
         Ordered(buffer'), Numbers(buffer') = Numbers(buffer),
         Ordered(inbox'), Numbers(inbox') = Numbers(inbox)
  PROVE  InOrder' /\ UNCHANGED Stream!feed
BY DEF InOrder, Stream!feed, Ordered, Numbers

\* Messages that go down with a connection, or do not parse, are lost, and
\* nothing else changes.
LEMMA MessagesLost ==
  ASSUME Shape, InOrder, NEW gone, gone \subseteq Numbers(buffer) \cup Numbers(inbox),
         lost' = lost \cup gone, UNCHANGED <<pushed, delivered>>,
         Ordered(buffer'), Numbers(buffer') = Numbers(buffer) \ gone,
         Ordered(inbox'), Numbers(inbox') = Numbers(inbox) \ gone
  PROVE  InOrder' /\ Stream!Lose
<1>1. Stream!Outstanding = Numbers(buffer) \cup Numbers(inbox)
  BY Undelivered
<1>2. Stream!Lose
  BY <1>1 DEF Stream!Lose
<1>3. \A m \in ToSet(delivered), n \in gone : m # n
  <2>1. \A m \in 1 .. pushed, n \in 1 .. pushed : m < n => m # n
    BY DEF Shape, DataOK
  <2> QED
    BY <2>1 DEF InOrder
<1>4. InOrder'
  <2>1. ToSet(delivered) \cup (Numbers(buffer) \ gone) \cup (Numbers(inbox) \ gone)
          = (1 .. pushed) \ (lost \cup gone)
    BY <1>3 DEF InOrder
  <2>2. lost \cup gone \subseteq 1 .. pushed
    BY DEF InOrder
  <2>3. Numbers(buffer') \subseteq Numbers(buffer) /\ Numbers(inbox') \subseteq Numbers(inbox)
    OBVIOUS
  <2>4. /\ \A i, j \in DOMAIN delivered : i < j => delivered[i] < delivered[j]
        /\ \A m \in Numbers(buffer'), n \in Numbers(inbox') : m < n
        /\ \A m \in ToSet(delivered), n \in Numbers(buffer') \cup Numbers(inbox') : m < n
    BY <2>3 DEF InOrder
  <2>5. Numbers(buffer)' = Numbers(buffer') /\ Numbers(inbox)' = Numbers(inbox')
    BY DEF Numbers
  <2>6. Ordered(buffer)' /\ Ordered(inbox)'
    BY DEF Ordered
  <2> QED
    BY <2>1, <2>2, <2>4, <2>5, <2>6 DEF InOrder
<1> QED
  BY <1>2, <1>4

\* The next message is delivered: the first of those that are outstanding.
LEMMA MessageDelivered ==
  ASSUME Shape, InOrder, NEW first \in Nat,
         delivered' = Append(delivered, first), UNCHANGED <<pushed, lost>>,
         Ordered(buffer'), Ordered(inbox'),
         \A m \in Numbers(buffer'), n \in Numbers(inbox') : m < n,
         Numbers(buffer) \cup Numbers(inbox)
           = {first} \cup Numbers(buffer') \cup Numbers(inbox'),
         \A n \in Numbers(buffer') \cup Numbers(inbox') : first < n
  PROVE  InOrder' /\ Stream!Deliver
<1> DEFINE left == Numbers(buffer') \cup Numbers(inbox')
<1>1. /\ Stream!Outstanding = {first} \cup left
      /\ left \subseteq Nat
  BY Undelivered
<1>2. Stream!Min(Stream!Outstanding) = first
  <2>1. \A n \in {first} \cup left : first <= n
    BY <1>1
  <2>2. \A x \in {first} \cup left : (\A n \in {first} \cup left : x <= n) => x = first
    BY <1>1, <2>1
  <2> HIDE DEF left
  <2>3. (CHOOSE x \in {first} \cup left : \A n \in {first} \cup left : x <= n) = first
    BY <2>1, <2>2
  <2> QED
    BY <1>1, <2>3 DEF Stream!Min
<1>3. Stream!Deliver
  BY <1>1, <1>2 DEF Stream!Deliver
<1>4. delivered \in Seq(Nat)
  BY DEF Shape, DataOK
<1>5. /\ Len(delivered') = Len(delivered) + 1 /\ delivered'[Len(delivered) + 1] = first
      /\ \A i \in 1 .. Len(delivered) : delivered'[i] = delivered[i]
      /\ ToSet(delivered') = ToSet(delivered) \cup {first}
  BY <1>4, Appended
<1>6. \A m \in ToSet(delivered) : m < first
  BY DEF InOrder
<1>7. \A i, j \in DOMAIN delivered' : i < j => delivered'[i] < delivered'[j]
  <2>1. DOMAIN delivered = 1 .. Len(delivered) /\ Len(delivered) \in Nat
    BY <1>4
  <2>2. DOMAIN delivered' = 1 .. Len(delivered) + 1
    BY <1>4
  <2>3. \A i \in 1 .. Len(delivered) : delivered[i] < first
    BY <1>6, <2>1 DEF ToSet
  <2> SUFFICES ASSUME NEW i \in 1 .. Len(delivered) + 1, NEW j \in 1 .. Len(delivered) + 1,
                      i < j
               PROVE  delivered'[i] < delivered'[j]
    BY <2>2
  <2>4. i \in 1 .. Len(delivered)
    BY <2>1
  <2>5. CASE j = Len(delivered) + 1
    BY <1>5, <2>3, <2>4, <2>5
  <2>6. CASE j \in 1 .. Len(delivered)
    BY <1>5, <2>1, <2>4, <2>6 DEF InOrder
  <2> QED
    BY <2>1, <2>5, <2>6
<1>8. ToSet(delivered') \cup left = (1 .. pushed) \ lost
  BY <1>5 DEF InOrder
<1>9. \A m \in ToSet(delivered'), n \in left : m < n
  BY <1>5 DEF InOrder
<1>10. Numbers(buffer)' = Numbers(buffer') /\ Numbers(inbox)' = Numbers(inbox')
       /\ ToSet(delivered)' = ToSet(delivered')
  BY DEF Numbers, ToSet
<1>11. Ordered(buffer)' /\ Ordered(inbox)'
  BY DEF Ordered
<1>12. InOrder'
  BY <1>7, <1>8, <1>9, <1>10, <1>11 DEF InOrder
<1> QED
  BY <1>3, <1>12

\* A message that is pushed comes after all others.
LEMMA MessagePushed ==
  ASSUME Shape, InOrder, Push
  PROVE  InOrder' /\ Stream!Push
<1>1. pushed \in Nat /\ pushed' = pushed + 1 /\ UNCHANGED <<buffer, delivered, lost>>
  BY DEF Push, state, Shape, DataOK
<1>2. PICK frame \in Frames :
        IsPush(frame) /\ frame.n = pushed + 1 /\ inbox' = Append(inbox, frame)
  <2>1. \A good \in BOOLEAN :
          /\ Frame("push", pushed + 1, good) \in Frames
          /\ IsPush(Frame("push", pushed + 1, good))
          /\ Frame("push", pushed + 1, good).n = pushed + 1
    BY <1>1 DEF Frame, Frames, IsPush
  <2>2. inbox' \in {Append(inbox, Frame("push", pushed + 1, good)) : good \in BOOLEAN}
    BY <1>1 DEF Push
  <2> QED
    BY <2>1, <2>2
<1>3. Stream!Push
  BY <1>1 DEF Stream!Push
<1>4. \A n \in ToSet(delivered) \cup Numbers(buffer) \cup Numbers(inbox) : n < pushed + 1
  BY <1>1 DEF InOrder
<1>5. NumberOf(frame) = {pushed + 1}
  BY <1>2 DEF NumberOf
<1>6. /\ Ordered(inbox') /\ Numbers(inbox') = Numbers(inbox) \cup {pushed + 1}
  <2>1. inbox \in Seq(Frames) /\ Ordered(inbox)
    BY DEF Shape, ConnectionOK, InOrder
  <2> QED
    BY <1>2, <1>4, <1>5, <2>1, NumbersOfAppend
<1>7. 1 .. pushed + 1 = (1 .. pushed) \cup {pushed + 1} /\ pushed + 1 \notin lost
  <2>1. 1 .. pushed + 1 = (1 .. pushed) \cup {pushed + 1}
    BY <1>1
  <2>2. pushed + 1 \notin 1 .. pushed
    BY <1>1
  <2> QED
    BY <2>1, <2>2 DEF InOrder
<1>8. /\ \A m \in Numbers(buffer), n \in Numbers(inbox') : m < n
      /\ \A m \in ToSet(delivered), n \in Numbers(buffer) \cup Numbers(inbox') : m < n
      /\ ToSet(delivered) \cup Numbers(buffer) \cup Numbers(inbox') = (1 .. pushed + 1) \ lost
      /\ lost \subseteq 1 .. pushed + 1
  BY <1>4, <1>6, <1>7 DEF InOrder
<1>9. Numbers(inbox)' = Numbers(inbox') /\ Numbers(buffer)' = Numbers(buffer)
      /\ ToSet(delivered)' = ToSet(delivered)
  BY <1>1 DEF Numbers, ToSet
<1>10. Ordered(inbox)' /\ Ordered(buffer)'
  BY <1>1, <1>6 DEF Ordered, InOrder
<1>11. InOrder'
  BY <1>1, <1>8, <1>9, <1>10 DEF InOrder
<1> QED
  BY <1>3, <1>11

\* Whatever listen() looks at next is the first of what is outstanding: it is
\* delivered, lost because it does not parse, or was no message.
LEMMA FrameYielded ==
  ASSUME Shape, InOrder, NEW frame \in Frames, Yield(frame), pushed' = pushed,
         Ordered(buffer'), Ordered(inbox'),
         Numbers(buffer') \subseteq Numbers(buffer),
         Numbers(inbox') \subseteq Numbers(inbox),
         Numbers(buffer) \subseteq NumberOf(frame) \cup Numbers(buffer'),
         Numbers(inbox) \subseteq NumberOf(frame) \cup Numbers(inbox'),
         NumberOf(frame) \subseteq Numbers(buffer) \cup Numbers(inbox),
         \A m \in NumberOf(frame), n \in Numbers(buffer') \cup Numbers(inbox') : m < n
  PROVE  InOrder' /\ [Stream!Next]_(Stream!feed)
<1>1. Numbers(buffer) \cup Numbers(inbox) \subseteq Nat
  BY Undelivered
<1>2. frame.n \in Nat
  BY DEF Frames
<1>3. CASE ~ IsPush(frame)
  <2>1. UNCHANGED <<delivered, lost>>
    BY <1>3 DEF Yield
  <2>2. Numbers(buffer') = Numbers(buffer) /\ Numbers(inbox') = Numbers(inbox)
    BY <1>3 DEF NumberOf
  <2> QED
    BY <2>1, <2>2, MessagesStay
<1>4. CASE IsPush(frame) /\ frame.good
  <2>1. delivered' = Append(delivered, frame.n) /\ lost' = lost
    BY <1>4 DEF Yield
  <2>2. /\ Numbers(buffer) \cup Numbers(inbox)
             = {frame.n} \cup Numbers(buffer') \cup Numbers(inbox')
        /\ \A n \in Numbers(buffer') \cup Numbers(inbox') : frame.n < n
    BY <1>4 DEF NumberOf
  <2>3. \A m \in Numbers(buffer'), n \in Numbers(inbox') : m < n
    BY DEF InOrder
  <2>4. InOrder' /\ Stream!Deliver
    BY <1>2, <2>1, <2>2, <2>3, MessageDelivered
  <2> QED
    BY <2>4 DEF Stream!Next
<1>5. CASE IsPush(frame) /\ ~ frame.good
  <2>1. delivered' = delivered /\ lost' = lost \cup {frame.n}
    BY <1>5 DEF Yield
  <2>2. \A n \in Numbers(buffer') \cup Numbers(inbox') : n # frame.n
    <3>1. \A n \in Nat : frame.n < n => n # frame.n
      BY <1>2
    <3> QED
      BY <1>1, <1>5, <3>1 DEF NumberOf
  <2>3. /\ Numbers(buffer') = Numbers(buffer) \ {frame.n}
        /\ Numbers(inbox') = Numbers(inbox) \ {frame.n}
        /\ {frame.n} \subseteq Numbers(buffer) \cup Numbers(inbox)
    BY <1>5, <2>2 DEF NumberOf
  <2>4. InOrder' /\ Stream!Lose
    BY <2>1, <2>3, MessagesLost
  <2> QED
    BY <2>4 DEF Stream!Next
<1> QED
  BY <1>3, <1>4, <1>5

-----------------------------------------------------------------------------
(* A connection that the loop of listen() opens for recv() *)

\* The loop of listen() is in a connect() of its own.
Reopening ==
  job = "next" /\ attempt = 0 /\ stream = "running" /\ at \in {"opening", "calling"}

\* Nothing is subscribed to on that connection.
Silent ==
  /\ Numbers(buffer) = {} /\ Numbers(inbox) = {} /\ serves = {}
  /\ \A request \in ToSet(outbox) : request.method # "subscribe"

\* No message is kept when that connect() begins, and none can come before it
\* ends, so the recv() after it may pass over what is in the buffer.
Unread ==
  /\ Reopening => Silent
  /\ at = "reading" => Numbers(buffer) = {}

\* A frame that is read past on that connection is no message.
LEMMA PassingUnread ==
  ASSUME Shape, InOrder, Unread, OtherArrives
  PROVE  Unread'
<1>1. /\ buffer \in Seq(Frames) /\ inbox \in Seq(Frames)
      /\ Ordered(buffer) /\ Ordered(inbox)
  BY DEF Shape, ConnectionOK, DataOK, InOrder
<1>2. /\ at = "calling" /\ at' = at /\ inbox # <<>> /\ inbox' = Tail(inbox)
      /\ buffer' = Append(buffer, Head(inbox)) /\ Head(inbox) \in Frames
      /\ UNCHANGED <<job, attempt, stream, serves, outbox>>
  BY <1>1, HeadAndTail DEF OtherArrives, Buffered, task
<1>3. PICK frame \in Frames : frame = Head(inbox)
  BY <1>2
<1>4. Numbers(inbox) = NumberOf(frame) \cup Numbers(inbox')
  BY <1>1, <1>2, <1>3, NumbersOfTail
<1>5. ASSUME Silent
      PROVE  Silent'
  <2>1. NumberOf(frame) = {} /\ Numbers(inbox') = {}
    BY <1>4, <1>5 DEF Silent
  <2>2. Numbers(buffer') = Numbers(buffer) \cup NumberOf(frame)
    BY <1>1, <1>2, <1>3, <2>1, NumbersOfAppend
  <2>3. Numbers(buffer)' = Numbers(buffer') /\ Numbers(inbox)' = Numbers(inbox')
    BY DEF Numbers
  <2> QED
    BY <1>2, <1>5, <2>1, <2>2, <2>3 DEF Silent
<1> QED
  BY <1>2, <1>5 DEF Unread, Reopening

\* Nothing the server does on that connection is a message.
LEMMA ServingUnread ==
  ASSUME Shape, InOrder, Unread, Serve \/ Push \/ Drop
  PROVE  Unread'
<1>1. inbox \in Seq(Frames) /\ Ordered(inbox) /\ outbox \in Seq(Requests)
  BY DEF Shape, ConnectionOK, InOrder
<1>2. UNCHANGED <<buffer, at, job, attempt, stream>>
  BY DEF Serve, Push, Drop, state, task
<1>3. Numbers(buffer)' = Numbers(buffer) /\ Numbers(inbox)' = Numbers(inbox')
  BY <1>2 DEF Numbers
<1>4. ASSUME Silent
      PROVE  Silent'
  <2>1. CASE Serve
    <3>1. /\ outbox # <<>> /\ outbox' = Tail(outbox) /\ Head(outbox) \in Requests
          /\ ToSet(outbox) = {Head(outbox)} \cup ToSet(outbox')
      BY <1>1, <2>1, HeadAndTail DEF Serve
    <3>2. PICK frame \in Frames : ~ IsPush(frame) /\ inbox' = Append(inbox, frame)
      <4>1. \A good \in BOOLEAN :
              /\ Frame("reply", Head(outbox).id, good) \in Frames
              /\ ~ IsPush(Frame("reply", Head(outbox).id, good))
        BY <3>1 DEF Frame, Frames, Requests, IsPush
      <4>2. inbox' \in {Append(inbox, Frame("reply", Head(outbox).id, good)) : good \in BOOLEAN}
        BY <2>1 DEF Serve
      <4> QED
        BY <4>1, <4>2
    <3>3. NumberOf(frame) = {}
      BY <3>2 DEF NumberOf
    <3>4. Numbers(inbox') = Numbers(inbox)
      BY <1>1, <3>2, <3>3, NumbersOfAppend
    <3>5. Head(outbox).method # "subscribe"
      BY <1>4, <3>1 DEF Silent
    <3>6. serves' \subseteq serves
      BY <2>1, <3>5 DEF Serve
    <3> QED
      BY <1>3, <1>4, <3>1, <3>4, <3>6 DEF Silent
  <2>2. CASE Push
    BY <1>4, <2>2 DEF Push, Silent
  <2>3. CASE Drop
    <3>1. PICK k \in 0 .. Len(inbox) : inbox' = SubSeq(inbox, 1, k)
      BY <2>3 DEF Drop
    <3>2. Numbers(inbox') \subseteq Numbers(inbox)
      BY <1>1, <3>1, NumbersOfPrefix
    <3>3. outbox' = <<>> /\ serves' = {}
      BY <2>3 DEF Drop
    <3> QED
      BY <1>3, <1>4, <3>2, <3>3, NoElements DEF Silent
  <2> QED
    BY <2>1, <2>2, <2>3
<1> QED
  BY <1>2, <1>3, <1>4 DEF Unread, Reopening

\* So recv() never leaves an older message behind it in the buffer.
LEMMA NextUnread ==
  ASSUME Shape, InOrder, Unread, [Next]_vars
  PROVE  Unread'
<1> USE DEF Shape
<1>1. ASSUME ~ Reopening', at' # "reading"
      PROVE  Unread'
  BY <1>1 DEF Unread
<1>2. ASSUME NEW e \in Exceptions, Raise(e)
      PROVE  Unread'
  BY <1>1, <1>2, Raising DEF DataOK, Reopening
<1>3. "closed" \in Exceptions /\ "os" \in Exceptions /\ "rpc" \in Exceptions
  BY DEF Exceptions
<1>4. CASE User
  <2>1. ~ Reopening' /\ at' # "reading"
    BY <1>4 DEF User, CallEach, CallConnect, CallClose, CallNext, Reopening
  <2> QED
    BY <1>1, <2>1
<1>5. CASE Opened
  <2>1. at = "opening" /\ ws' = "open" /\ UNCHANGED <<inbox, serves, buffer>>
    BY <1>5 DEF Opened
  <2>2. CASE Keyed
    <3>1. /\ at' = "calling" /\ UNCHANGED <<job, attempt, stream>>
          /\ outbox' = Append(outbox, Request("auth", "none"))
      BY <1>5, <2>1, <2>2 DEF Opened, Ask, Request
    <3>2. Request("auth", "none") \in Requests /\ outbox \in Seq(Requests)
      BY DEF DataOK, ConnectionOK, Request, Requests
    <3>3. ToSet(outbox') = ToSet(outbox) \cup {Request("auth", "none")}
      BY <3>1, <3>2, Appended
    <3>4. Request("auth", "none").method = "auth"
      BY DEF Request
    <3>5. Numbers(buffer)' = Numbers(buffer) /\ Numbers(inbox)' = Numbers(inbox)
      BY <2>1 DEF Numbers
    <3>6. Silent => Silent'
      BY <2>1, <3>3, <3>4, <3>5 DEF Silent
    <3> QED
      BY <2>1, <3>1, <3>6 DEF Unread, Reopening
  <2>3. CASE ~ Keyed
    <3>1. Connected /\ job' = job
      BY <1>5, <2>3 DEF Opened
    <3> QED
      BY <2>1, <3>1 DEF Unread, Reopening, Silent, Connected, ThreadOK, Numbers
  <2> QED
    BY <2>2, <2>3
<1>6. CASE AskNext
  <2>1. at = "each"
    BY <1>6 DEF AskNext
  <2>2. CASE Raise("rpc") \/ Raise("closed")
    BY <1>2, <1>3, <2>2
  <2>3. CASE at' = "calling" /\ UNCHANGED <<job, attempt>>
    BY <1>1, <2>1, <2>3 DEF Reopening, ThreadOK
  <2> QED
    BY <1>6, <2>2, <2>3, AskNextThread DEF Ask
<1>7. CASE AnswerArrives
  <2>1. at = "calling" /\ UNCHANGED buffer
    BY <1>7 DEF AnswerArrives
  <2>2. CASE ~ Head(inbox).good
    BY <1>2, <1>3, <1>7, <2>2 DEF AnswerArrives
  <2>3. CASE Head(inbox).good /\ pending.method = "auth"
    <3>1. Connected /\ job' = job
      BY <1>7, <2>3 DEF AnswerArrives
    <3> QED
      BY <2>1, <3>1 DEF Unread, Reopening, Silent, Connected, ThreadOK, Numbers
  <2>4. CASE Head(inbox).good /\ pending.method # "auth"
    BY <1>1, <1>7, <2>4 DEF AnswerArrives, Reopening
  <2> QED
    BY <2>2, <2>3, <2>4
<1>8. CASE OpenFails \/ FindClosed
  BY <1>2, <1>3, <1>8 DEF OpenFails, FindClosed
<1>9. CASE EachEnds \/ Retry
  BY <1>1, <1>9 DEF EachEnds, Return, Retry, task, Reopening, ThreadOK
<1>10. CASE Drain \/ Receive
  <2>1. at' \in {"listening", "user"}
    BY <1>10, Yielding DEF Drain, Receive, Reading
  <2> QED
    BY <1>1, <2>1 DEF Reopening
<1>11. CASE Reopen
  <2>1. /\ at' = "opening" /\ ws = "none" /\ buffer = <<>>
        /\ UNCHANGED <<buffer, inbox, serves, outbox>>
    BY <1>11 DEF Reopen, Drained, connection, state
  <2>2. inbox = <<>> /\ serves = {} /\ outbox = <<>>
    BY <2>1 DEF ConnectionOK
  <2>3. Numbers(<<>>) = {}
    BY DEF Numbers
  <2>4. Numbers(buffer)' = {} /\ Numbers(inbox)' = {}
    BY <2>1, <2>2, <2>3
  <2>5. Silent'
    BY <2>1, <2>2, <2>4, NoElements DEF Silent
  <2> QED
    BY <2>1, <2>5 DEF Unread
<1>12. CASE Waiting \/ UNCHANGED vars
  <2>1. UNCHANGED <<buffer, inbox, serves, outbox, at, job, attempt, stream>>
    BY <1>12 DEF Waiting, vars, connection, state, task
  <2> QED
    BY <2>1 DEF Unread, Reopening, Silent, Numbers
<1> QED
  BY <1>4, <1>5, <1>6, <1>7, <1>8, <1>9, <1>10, <1>11, <1>12, PassingUnread, ServingUnread
  DEF Next, Client

-----------------------------------------------------------------------------
(* What each step does to it *)

\* The loop of listen() reads the buffer first, and a connection only when there
\* is no message in the buffer.
LEMMA ReadingInOrder ==
  ASSUME Shape, InOrder, Unread, Drain \/ Receive
  PROVE  InOrder' /\ [Stream!Next]_(Stream!feed)
<1>1. /\ buffer \in Seq(Frames) /\ inbox \in Seq(Frames)
      /\ Ordered(buffer) /\ Ordered(inbox)
  BY DEF Shape, ConnectionOK, DataOK, InOrder
<1>2. CASE Drain
  <2>1. /\ buffer # <<>> /\ buffer' = Tail(buffer) /\ inbox' = inbox
        /\ Yield(Head(buffer)) /\ pushed' = pushed /\ Head(buffer) \in Frames
    BY <1>1, <1>2, HeadAndTail DEF Drain, connection
  <2>2. /\ Ordered(buffer')
        /\ Numbers(buffer) = NumberOf(Head(buffer)) \cup Numbers(buffer')
        /\ \A m \in NumberOf(Head(buffer)), n \in Numbers(buffer') : m < n
    BY <1>1, <2>1, NumbersOfTail
  <2>3. \A m \in NumberOf(Head(buffer)), n \in Numbers(inbox) : m < n
    BY <2>2 DEF InOrder
  <2>4. Ordered(inbox') /\ Numbers(inbox') = Numbers(inbox)
    BY <1>1, <2>1
  <2> QED
    BY <2>1, <2>2, <2>3, <2>4, FrameYielded
<1>3. CASE Receive
  <2>1. /\ inbox # <<>> /\ inbox' = Tail(inbox) /\ buffer' = buffer
        /\ Yield(Head(inbox)) /\ pushed' = pushed /\ Head(inbox) \in Frames
        /\ at = "reading" \/ buffer = <<>>
    BY <1>1, <1>3, HeadAndTail DEF Receive, Reading, Drained, state
  <2>2. /\ Ordered(inbox')
        /\ Numbers(inbox) = NumberOf(Head(inbox)) \cup Numbers(inbox')
        /\ \A m \in NumberOf(Head(inbox)), n \in Numbers(inbox') : m < n
    BY <1>1, <2>1, NumbersOfTail
  <2>3. Numbers(buffer) = {} /\ Numbers(buffer') = {} /\ Ordered(buffer')
    <3>1. Numbers(<<>>) = {}
      BY DEF Numbers
    <3> QED
      BY <1>1, <2>1, <3>1 DEF Unread
  <2> QED
    BY <2>1, <2>2, <2>3, FrameYielded
<1> QED
  BY <1>2, <1>3

\* A wait for an answer keeps what it reads past, in the order of arrival.
LEMMA WaitingInOrder ==
  ASSUME Shape, InOrder, AnswerArrives \/ OtherArrives
  PROVE  InOrder' /\ UNCHANGED Stream!feed
<1>1. /\ buffer \in Seq(Frames) /\ inbox \in Seq(Frames)
      /\ Ordered(buffer) /\ Ordered(inbox)
  BY DEF Shape, ConnectionOK, DataOK, InOrder
<1>2. /\ inbox # <<>> /\ inbox' = Tail(inbox) /\ Head(inbox) \in Frames
      /\ UNCHANGED <<pushed, delivered, lost>>
  BY <1>1, HeadAndTail DEF AnswerArrives, OtherArrives, history
<1>3. PICK frame \in Frames : frame = Head(inbox)
  BY <1>2
<1>4. /\ Ordered(inbox')
      /\ Numbers(inbox) = NumberOf(frame) \cup Numbers(inbox')
      /\ \A m \in NumberOf(frame), n \in Numbers(inbox') : m < n
  BY <1>1, <1>2, <1>3, NumbersOfTail
<1>5. CASE AnswerArrives
  <2>1. NumberOf(frame) = {} /\ buffer' = buffer
    BY <1>3, <1>5 DEF AnswerArrives, Matches, NumberOf
  <2>2. Ordered(buffer') /\ Numbers(buffer') = Numbers(buffer)
    BY <1>1, <2>1
  <2>3. Numbers(inbox') = Numbers(inbox)
    BY <1>4, <2>1
  <2> QED
    BY <1>2, <1>4, <2>2, <2>3, MessagesStay
<1>6. CASE OtherArrives
  <2>1. buffer' = Append(buffer, frame)
    BY <1>3, <1>6 DEF OtherArrives, Buffered
  <2>2. \A m \in Numbers(buffer), n \in NumberOf(frame) : m < n
    BY <1>4 DEF InOrder
  <2>3. Ordered(buffer') /\ Numbers(buffer') = Numbers(buffer) \cup NumberOf(frame)
    BY <1>1, <2>1, <2>2, NumbersOfAppend
  <2>4. \A m \in Numbers(buffer'), n \in Numbers(inbox') : m < n
    BY <1>4, <2>3 DEF InOrder
  <2>5. Numbers(buffer') \cup Numbers(inbox') = Numbers(buffer) \cup Numbers(inbox)
    BY <1>4, <2>3
  <2>6. /\ Numbers(buffer)' = Numbers(buffer') /\ Numbers(inbox)' = Numbers(inbox')
        /\ ToSet(delivered)' = ToSet(delivered)
    BY <1>2 DEF Numbers, ToSet
  <2>7. Ordered(buffer)' /\ Ordered(inbox)'
    BY <1>4, <2>3 DEF Ordered
  <2>8. /\ \A m \in ToSet(delivered), n \in Numbers(buffer') \cup Numbers(inbox') : m < n
        /\ ToSet(delivered) \cup Numbers(buffer') \cup Numbers(inbox') = (1 .. pushed) \ lost
    BY <2>5 DEF InOrder
  <2>9. InOrder'
    BY <1>2, <2>4, <2>6, <2>7, <2>8 DEF InOrder
  <2> QED
    BY <1>2, <2>9 DEF Stream!feed
<1> QED
  BY <1>5, <1>6

\* A connection that goes down, at once or after the first frames, takes its
\* messages with it and no other.
LEMMA ConnectionLost ==
  ASSUME Shape, InOrder, Disconnect \/ Drop, UNCHANGED <<buffer, pushed, delivered>>
  PROVE  InOrder' /\ [Stream!Next]_(Stream!feed)
<1>1. /\ buffer \in Seq(Frames) /\ inbox \in Seq(Frames)
      /\ Ordered(buffer) /\ Ordered(inbox)
  BY DEF Shape, ConnectionOK, DataOK, InOrder
<1>2. Numbers(buffer) \cap Numbers(inbox) = {}
  <2>1. Numbers(buffer) \subseteq Nat /\ Numbers(inbox) \subseteq Nat
    BY <1>1, NumbersAreNat
  <2>2. \A m, n \in Nat : m < n => m # n
    OBVIOUS
  <2> QED
    BY <2>1, <2>2 DEF InOrder
<1>3. PICK gone \in SUBSET Numbers(inbox) :
        /\ lost' = lost \cup gone
        /\ Ordered(inbox') /\ Numbers(inbox') = Numbers(inbox) \ gone
  <2>1. CASE Disconnect
    <3>1. inbox' = <<>> /\ lost' = lost \cup Numbers(inbox)
      BY <2>1 DEF Disconnect
    <3>2. Ordered(<<>>) /\ Numbers(<<>>) = {}
      BY DEF Ordered, Numbers
    <3> QED
      BY <3>1, <3>2
  <2>2. CASE Drop
    <3>1. PICK k \in 0 .. Len(inbox) :
            /\ inbox' = SubSeq(inbox, 1, k)
            /\ lost' = lost \cup Numbers(SubSeq(inbox, k + 1, Len(inbox)))
      BY <2>2 DEF Drop
    <3> DEFINE rest == Numbers(SubSeq(inbox, k + 1, Len(inbox)))
    <3>2. /\ Ordered(inbox') /\ Numbers(inbox') = Numbers(inbox) \ rest
          /\ rest \subseteq Numbers(inbox)
      BY <1>1, <3>1, NumbersOfPrefix
    <3>3. lost' = lost \cup rest
      BY <3>1
    <3> HIDE DEF rest
    <3> QED
      BY <3>2, <3>3
  <2> QED
    BY <2>1, <2>2
<1>4. Ordered(buffer') /\ Numbers(buffer') = Numbers(buffer) \ gone
  BY <1>1, <1>2, <1>3
<1>5. gone \subseteq Numbers(buffer) \cup Numbers(inbox)
  BY <1>3
<1>6. InOrder' /\ Stream!Lose
  BY <1>3, <1>4, <1>5, MessagesLost
<1> QED
  BY <1>6 DEF Stream!Next

\* Whatever a step does, the feed stays in order and does as Feed allows.
LEMMA NextInOrder ==
  ASSUME Shape, InOrder, Unread, [Next]_vars
  PROVE  InOrder' /\ [Stream!Next]_(Stream!feed)
<1>1. /\ buffer \in Seq(Frames) /\ inbox \in Seq(Frames)
      /\ Ordered(buffer) /\ Ordered(inbox)
  BY DEF Shape, ConnectionOK, DataOK, InOrder
<1>2. ASSUME UNCHANGED <<buffer, inbox, pushed, delivered, lost>>
      PROVE  InOrder' /\ UNCHANGED Stream!feed
  <2>1. /\ Ordered(buffer') /\ Numbers(buffer') = Numbers(buffer)
        /\ Ordered(inbox') /\ Numbers(inbox') = Numbers(inbox)
    BY <1>1, <1>2
  <2> QED
    BY <1>2, <2>1, MessagesStay
<1>3. CASE User
  <2>1. \/ UNCHANGED <<buffer, inbox, pushed, delivered, lost>>
        \/ Disconnect /\ UNCHANGED <<buffer, pushed, delivered>>
    BY <1>3 DEF User, CallEach, CallConnect, CallClose, CallNext, connection, state, history
  <2> QED
    BY <1>2, <2>1, ConnectionLost
<1>4. CASE Drain \/ Receive
  BY <1>4, ReadingInOrder
<1>5. CASE AnswerArrives \/ OtherArrives
  BY <1>5, WaitingInOrder
<1>6. CASE Retry
  <2>1. Disconnect /\ UNCHANGED <<buffer, pushed, delivered>>
    BY <1>6 DEF Retry
  <2> QED
    BY <2>1, ConnectionLost
<1>7. CASE Opened \/ OpenFails \/ AskNext \/ EachEnds \/ Reopen \/ FindClosed
  <2>1. UNCHANGED <<buffer, inbox, pushed, delivered, lost>>
    BY <1>7
    DEF Opened, OpenFails, AskNext, EachEnds, Reopen, FindClosed, connection, state, history
  <2> QED
    BY <1>2, <2>1
<1>8. CASE Serve
  <2>1. /\ outbox # <<>> /\ UNCHANGED <<buffer, pushed, delivered, lost>>
        /\ Head(outbox) \in Requests
    BY <1>8 DEF Serve, state, Shape, ConnectionOK
  <2>2. PICK frame \in Frames : ~ IsPush(frame) /\ inbox' = Append(inbox, frame)
    <3>1. \A good \in BOOLEAN :
            /\ Frame("reply", Head(outbox).id, good) \in Frames
            /\ ~ IsPush(Frame("reply", Head(outbox).id, good))
      BY <2>1 DEF Frame, Frames, Requests, IsPush
    <3>2. inbox' \in {Append(inbox, Frame("reply", Head(outbox).id, good)) : good \in BOOLEAN}
      BY <1>8 DEF Serve
    <3> QED
      BY <3>1, <3>2
  <2>3. NumberOf(frame) = {}
    BY <2>2 DEF NumberOf
  <2>4. Ordered(inbox') /\ Numbers(inbox') = Numbers(inbox)
    BY <1>1, <2>2, <2>3, NumbersOfAppend
  <2>5. Ordered(buffer') /\ Numbers(buffer') = Numbers(buffer)
    BY <1>1, <2>1
  <2> QED
    BY <2>1, <2>4, <2>5, MessagesStay
<1>9. CASE Push
  BY <1>9, MessagePushed DEF Stream!Next
<1>10. CASE Drop
  <2>1. UNCHANGED <<buffer, pushed, delivered>>
    BY <1>10 DEF Drop, state
  <2> QED
    BY <1>10, <2>1, ConnectionLost
<1>11. CASE Waiting \/ UNCHANGED vars
  <2>1. UNCHANGED <<buffer, inbox, pushed, delivered, lost>>
    BY <1>11 DEF Waiting, vars, connection, state, history
  <2> QED
    BY <1>2, <2>1
<1> QED
  BY <1>3, <1>4, <1>5, <1>6, <1>7, <1>8, <1>9, <1>10, <1>11 DEF Next, Client

\* The stream starts empty.
LEMMA InitInOrder == Init => InOrder /\ Unread /\ Stream!Init
<1> SUFFICES ASSUME Init PROVE InOrder /\ Unread /\ Stream!Init
  OBVIOUS
<1>1. Ordered(<<>>) /\ Numbers(<<>>) = {}
  BY DEF Ordered, Numbers
<1>2. (1 .. 0) \ {} = {}
  OBVIOUS
<1>3. InOrder
  BY <1>1, <1>2, NoElements DEF Init, InOrder
<1>4. Stream!Init
  BY DEF Init, Stream!Init
<1>5. Unread
  BY DEF Init, Unread, Reopening
<1> QED
  BY <1>3, <1>4, <1>5

\* In order one by one is in order one behind the other.
LEMMA InOrderIsIntact == Shape /\ InOrder => StreamIntact
<1> SUFFICES ASSUME Shape, InOrder PROVE StreamIntact
  OBVIOUS
<1> DEFINE coming == buffer \o inbox
           k == Len(buffer)
           l == Len(inbox)
<1>1. /\ DOMAIN buffer = 1 .. k /\ DOMAIN inbox = 1 .. l /\ k \in Nat /\ l \in Nat
      /\ DOMAIN coming = 1 .. k + l
      /\ \A i \in 1 .. k : coming[i] = buffer[i]
      /\ \A i \in 1 .. l : coming[k + i] = inbox[i]
  BY DEF Shape, ConnectionOK, DataOK
<1> HIDE DEF coming, k, l
<1>2. \A i \in 1 .. l : k + i \in 1 .. k + l /\ 1 .. k \subseteq 1 .. k + l
  BY <1>1
<1>3. \A i \in 1 .. k + l : i \in 1 .. k \/ i - k \in 1 .. l
  BY <1>1
<1>4. \A i \in 1 .. k + l : i - k \in 1 .. l => coming[i] = inbox[i - k]
  <2> SUFFICES ASSUME NEW i \in 1 .. k + l, i - k \in 1 .. l
               PROVE  coming[i] = inbox[i - k]
    OBVIOUS
  <2>1. k + (i - k) = i
    BY <1>1
  <2> QED
    BY <1>1, <2>1
<1>5. \A i \in 1 .. k + l : IsPush(coming[i]) =>
        coming[i].n \in Numbers(buffer) \cup Numbers(inbox)
  <2> SUFFICES ASSUME NEW i \in 1 .. k + l, IsPush(coming[i])
               PROVE  coming[i].n \in Numbers(buffer) \cup Numbers(inbox)
    OBVIOUS
  <2>1. CASE i \in 1 .. k
    BY <1>1, <2>1 DEF Numbers
  <2>2. CASE i - k \in 1 .. l
    BY <1>1, <1>4, <2>2 DEF Numbers
  <2> QED
    BY <1>3, <2>1, <2>2
<1>6. Numbers(coming) = Numbers(buffer) \cup Numbers(inbox)
  <2>1. Numbers(coming) \subseteq Numbers(buffer) \cup Numbers(inbox)
    BY <1>1, <1>5 DEF Numbers
  <2>2. Numbers(buffer) \subseteq Numbers(coming)
    <3> SUFFICES ASSUME NEW i \in 1 .. k, IsPush(buffer[i])
                 PROVE  buffer[i].n \in Numbers(coming)
      BY <1>1 DEF Numbers
    <3>1. i \in 1 .. k + l /\ coming[i] = buffer[i]
      BY <1>1
    <3> QED
      BY <1>1, <3>1 DEF Numbers
  <2>3. Numbers(inbox) \subseteq Numbers(coming)
    <3> SUFFICES ASSUME NEW i \in 1 .. l, IsPush(inbox[i])
                 PROVE  inbox[i].n \in Numbers(coming)
      BY <1>1 DEF Numbers
    <3>1. k + i \in 1 .. k + l /\ coming[k + i] = inbox[i]
      BY <1>1, <1>2
    <3> QED
      BY <1>1, <3>1 DEF Numbers
  <2> QED
    BY <2>1, <2>2, <2>3
<1>7. ASSUME NEW i \in 1 .. k + l, NEW j \in 1 .. k + l, i < j,
             IsPush(coming[i]), IsPush(coming[j])
      PROVE  coming[i].n < coming[j].n
  <2>1. CASE i \in 1 .. k /\ j \in 1 .. k
    <3>1. coming[i] = buffer[i] /\ coming[j] = buffer[j]
      BY <1>1, <2>1
    <3> QED
      BY <1>1, <1>7, <2>1, <3>1 DEF InOrder, Ordered
  <2>2. CASE i - k \in 1 .. l /\ j - k \in 1 .. l
    <3>1. coming[i] = inbox[i - k] /\ coming[j] = inbox[j - k] /\ i - k < j - k
      BY <1>1, <1>4, <1>7, <2>2
    <3> QED
      BY <1>1, <1>7, <2>2, <3>1 DEF InOrder, Ordered
  <2>3. CASE i \in 1 .. k /\ j - k \in 1 .. l
    <3>1. coming[i] = buffer[i] /\ coming[j] = inbox[j - k]
      BY <1>1, <1>4, <2>3
    <3>2. coming[i].n \in Numbers(buffer) /\ coming[j].n \in Numbers(inbox)
      BY <1>1, <1>7, <2>3, <3>1 DEF Numbers
    <3> QED
      BY <3>2 DEF InOrder
  <2>4. ~ (i - k \in 1 .. l /\ j \in 1 .. k)
    BY <1>1, <1>7
  <2> QED
    BY <1>3, <2>1, <2>2, <2>3, <2>4
<1>8. \A i \in DOMAIN delivered, j \in 1 .. k + l :
        IsPush(coming[j]) => delivered[i] < coming[j].n
  BY <1>5 DEF InOrder, ToSet
<1>9. ToSet(delivered) \cup Numbers(coming) = (1 .. pushed) \ lost
  BY <1>6 DEF InOrder
<1>10. \A i, j \in DOMAIN delivered : i < j => delivered[i] < delivered[j]
  BY DEF InOrder
<1>11. \A i, j \in {m \in 1 .. k + l : IsPush(coming[m])} : i < j => coming[i].n < coming[j].n
  BY <1>7
<1> QED
  BY <1>1, <1>8, <1>9, <1>10, <1>11 DEF StreamIntact, coming

\* Requests, reconnects and cuts never reorder, repeat or lose a message but
\* those that go down with a connection or do not parse (_buffer, listen() and
\* _call, realtime.py:374-426).
THEOREM TheStreamIsIntact == Spec => []StreamIntact
<1>1. Init => Shape /\ InOrder /\ Unread
  BY InitShape, InitInOrder
<1>2. Shape /\ InOrder /\ Unread /\ [Next]_vars => (Shape /\ InOrder /\ Unread)'
  BY NextShape, NextInOrder, NextUnread
<1>3. Shape /\ InOrder => StreamIntact
  BY InOrderIsIntact
<1> QED
  BY <1>1, <1>2, <1>3, PTL DEF Spec

\* The client does nothing to the stream that the abstract feed does not do:
\* every step of it is a push, a loss, a delivery of the first message that is
\* outstanding, or does not show (realtime.py:389-426).
THEOREM RealtimeIsAFeed == Spec => StaysInFeed
<1>1. Init => Shape /\ InOrder /\ Unread /\ Stream!Init
  BY InitShape, InitInOrder
<1>2. Shape /\ InOrder /\ Unread /\ [Next]_vars
        => (Shape /\ InOrder /\ Unread)' /\ [Stream!Next]_(Stream!feed)
  BY NextShape, NextInOrder, NextUnread
<1> QED
  BY <1>1, <1>2, PTL DEF Spec, StaysInFeed, Stream!Spec
=============================================================================
