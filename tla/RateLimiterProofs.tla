-------------------------- MODULE RateLimiterProofs --------------------------
(***************************************************************************)
(* Machine-checked facts about RateLimiter, for every limit and period.    *)
(***************************************************************************)
EXTENDS RateLimiter, FiniteSetTheorems, TLAPS

-----------------------------------------------------------------------------
(* wait_for's pruning loop *)

\* The loop always stops somewhere: some number of pops leaves an empty deque
\* or a live head (_ratelimit.py:20-22).  The counts that are still too few
\* form an interval 0..m, found by counting its members.
LEMMA PruningStops ==
  ASSUME NEW q \in Seq(Int), NEW t \in Int, Period \in Nat
  PROVE  \E k \in 0 .. Len(q) : Stale(q, t, k)
<1> DEFINE P == {k \in 0 .. Len(q) : \A i \in 1 .. k : q[i] <= t - Period}
           m == Cardinality(P) - 1
<1>1. P \subseteq 0 .. Len(q) /\ 0 \in P
  OBVIOUS
<1>2. \A k \in P : 0 .. k \subseteq P
  OBVIOUS
<1>3. IsFiniteSet(P) /\ Cardinality(P) \in Nat
  <2>1. IsFiniteSet(0 .. Len(q))
    BY FS_Interval
  <2> HIDE DEF P
  <2>2. IsFiniteSet(P)
    BY <1>1, <2>1, FS_Subset
  <2> QED
    BY <2>2, FS_CardinalityType
<1>4. Cardinality(P) # 0
  BY <1>1, <1>3, FS_EmptySet
<1> HIDE DEF P
<1>5. m \in Nat /\ Cardinality(P) = m + 1
  BY <1>3, <1>4
<1>6. m + 1 \notin P
  <2> SUFFICES ASSUME m + 1 \in P
               PROVE  FALSE
    OBVIOUS
  <2>1. Cardinality(0 .. m + 1) <= Cardinality(P)
    BY <1>2, <1>3, FS_Subset
  <2>2. Cardinality(0 .. m + 1) = m + 2
    BY <1>5, FS_Interval
  <2> QED
    BY <2>1, <2>2, <1>5
<1>7. P \subseteq 0 .. m
  BY <1>1, <1>2, <1>5, <1>6
<1>8. P = 0 .. m
  <2>1. IsFiniteSet(0 .. m) /\ Cardinality(0 .. m) = m + 1
    BY <1>5, FS_Interval
  <2> QED
    BY <2>1, <1>5, <1>7, FS_Subset
<1>9. m \in P
  BY <1>5, <1>8
<1> QED
  <2>1. m \in 0 .. Len(q) /\ \A i \in 1 .. m : q[i] <= t - Period
    BY <1>9 DEF P
  <2>2. m < Len(q) => q[m + 1] > t - Period
    <3> SUFFICES ASSUME m < Len(q), ~ (q[m + 1] > t - Period)
                 PROVE  m + 1 \in P
      BY <1>6
    <3>1. m + 1 \in 0 .. Len(q)
      BY <1>5
    <3>2. \A i \in 1 .. m + 1 : q[i] <= t - Period
      BY <1>5, <2>1
    <3> QED
      BY <3>1, <3>2 DEF P
  <2> HIDE DEF m
  <2> QED
    BY <2>1, <2>2 DEF Stale

\* What pruning returns: the deque without some expired entries at its front,
\* and no expired entry at its head.
LEMMA LiveIsTail ==
  ASSUME NEW q \in Seq(Nat), NEW t \in Nat, Period \in Nat
  PROVE  \E k \in 0 .. Len(q) :
           /\ \A i \in 1 .. k : q[i] <= t - Period
           /\ Live(q, t) \in Seq(Nat)
           /\ Len(Live(q, t)) = Len(q) - k
           /\ \A i \in 1 .. Len(q) - k : Live(q, t)[i] = q[k + i]
           /\ Len(Live(q, t)) > 0 => Live(q, t)[1] > t - Period
<1> DEFINE k == CHOOSE i \in 0 .. Len(q) : Stale(q, t, i)
<1>1. q \in Seq(Int) /\ t \in Int
  OBVIOUS
<1>2. k \in 0 .. Len(q) /\ Stale(q, t, k)
  BY <1>1, PruningStops
<1>3. Live(q, t) = SubSeq(q, k + 1, Len(q))
  BY DEF Live
<1> HIDE DEF k
<1>4. /\ Live(q, t) \in Seq(Nat)
      /\ Len(Live(q, t)) = Len(q) - k
      /\ \A i \in 1 .. Len(q) - k : Live(q, t)[i] = q[k + i]
  BY <1>2, <1>3
<1>5. \A i \in 1 .. k : q[i] <= t - Period
  BY <1>2 DEF Stale
<1>6. Len(Live(q, t)) > 0 => Live(q, t)[1] > t - Period
  BY <1>2, <1>4 DEF Stale
<1> QED
  BY <1>2, <1>4, <1>5, <1>6

\* Pruning keeps a deque a tail of the history.
LEMMA PruningKeepsTail ==
  ASSUME NEW q \in Seq(Nat), NEW l \in Seq(Nat), NEW t \in Nat, Period \in Nat,
         IsTail(q, l, t)
  PROVE  /\ Live(q, t) \in Seq(Nat)
         /\ Len(Live(q, t)) <= Len(q)
         /\ IsTail(Live(q, t), l, t)
<1>1. PICK k \in 0 .. Len(q) :
           /\ \A i \in 1 .. k : q[i] <= t - Period
           /\ Live(q, t) \in Seq(Nat)
           /\ Len(Live(q, t)) = Len(q) - k
           /\ \A i \in 1 .. Len(q) - k : Live(q, t)[i] = q[k + i]
  BY LiveIsTail
<1> DEFINE d == Len(l) - Len(q)
           h == Live(q, t)
           e == Len(l) - Len(h)
<1> HIDE DEF h
<1>2. /\ d \in Nat
      /\ \A i \in 1 .. Len(q) : q[i] = l[d + i]
      /\ \A i \in 1 .. d : l[i] <= t - Period
  BY DEF IsTail
<1>3. e = d + k /\ e \in Nat
  BY <1>1, <1>2 DEF h
<1> HIDE DEF d, e
<1>4. ASSUME NEW i \in 1 .. Len(h)
      PROVE  h[i] = l[e + i]
  <2>1. k + i \in 1 .. Len(q) /\ h[i] = q[k + i]
    BY <1>1 DEF h
  <2>2. q[k + i] = l[d + (k + i)]
    BY <1>2, <2>1
  <2>3. d + (k + i) = e + i
    BY <1>2, <1>3
  <2> QED
    BY <2>1, <2>2, <2>3
<1>5. ASSUME NEW i \in 1 .. e
      PROVE  l[i] <= t - Period
  <2>1. CASE i <= d
    BY <1>2, <2>1
  <2>2. CASE i > d
    <3>1. i - d \in 1 .. k /\ i - d \in 1 .. Len(q) /\ d + (i - d) = i
      BY <1>2, <1>3, <2>2
    <3>2. q[i - d] = l[d + (i - d)]
      BY <1>2, <3>1
    <3> QED
      BY <1>1, <3>1, <3>2
  <2> QED
    BY <1>2, <2>1, <2>2
<1> QED
  BY <1>1, <1>3, <1>4, <1>5 DEF IsTail, h, e

-----------------------------------------------------------------------------
(* What reserve() computes *)

\* The limit of a metered budget is a positive number.
LEMMA LimitType ==
  ASSUME NEW w \in Windows, Budget!Metered(w)
  PROVE  Limit[w] \in Nat \ {0}
BY BudgetAssumption DEF Windows, Limit, Budget!Windows, Budget!Limit, Budget!Metered

\* The inductive invariant, as of a time r after which reserve() has not been
\* called yet: the deques match the history, which is therefore within budget.
IInvAt(r) ==
  /\ r \in Nat
  /\ hits \in [Windows -> Seq(Nat)] /\ log \in [Windows -> Seq(Nat)]
  /\ \A w \in Windows :
       IF Budget!Metered(w) THEN Len(hits[w]) <= Limit[w] ELSE hits[w] = <<>>
  /\ \A w \in Windows : Budget!Metered(w) => Ordered(w, r) /\ IsTail(hits[w], log[w], r)
  /\ WithinBudget

IInv == IInvAt(now)

\* It says what the runs check of the limiter.
LEMMA InvariantMeans == IInv <=> TypeOK /\ DequesMatchLog /\ WithinBudget
BY DEF IInv, IInvAt, TypeOK, DequesMatchLog

\* Room for one more grant at time t, read off a history l.
Room(l, lim, t) == Len(l) < lim \/ l[Len(l) + 1 - lim] + Period <= t

\* The pruned deque knows when there is room: at once if it is short, and
\* exactly when its head expires if it is full.
LEMMA PrunedDequeTells ==
  ASSUME NEW l \in Seq(Nat), NEW h \in Seq(Nat), NEW t0 \in Nat,
         NEW lim \in Nat \ {0}, Period \in Nat,
         IsTail(h, l, t0), Len(h) <= lim,
         NEW t \in Nat, t >= t0
  PROVE  /\ Len(h) < lim => Room(l, lim, t)
         /\ Len(h) = lim => h[1] \in Nat /\ (Room(l, lim, t) <=> h[1] + Period <= t)
<1> DEFINE n == Len(l)
           first == n + 1 - lim
           d == n - Len(h)
<1>1. /\ n \in Nat /\ d \in Nat /\ Len(h) \in Nat
      /\ \A i \in 1 .. Len(h) : h[i] = l[d + i]
      /\ \A i \in 1 .. d : l[i] <= t0 - Period
  BY DEF IsTail
<1>2. \A i \in 1 .. n : l[i] \in Nat
  OBVIOUS
<1>3. n = d + Len(h)
  BY <1>1
<1>4. Room(l, lim, t) <=> n < lim \/ l[first] + Period <= t
  BY DEF Room
<1> HIDE DEF n, d
<1>5. ASSUME Len(h) < lim, ~ (n < lim)
      PROVE  l[first] + Period <= t
  <2>1. first \in 1 .. d /\ first \in 1 .. n
    BY <1>1, <1>3, <1>5
  <2>2. l[first] \in Nat /\ l[first] <= t0 - Period
    BY <1>1, <1>2, <2>1
  <2> HIDE DEF first
  <2> QED
    BY <2>2
<1>6. ASSUME Len(h) = lim
      PROVE  ~ (n < lim) /\ h[1] = l[first] /\ h[1] \in Nat
  <2>1. 1 \in 1 .. Len(h) /\ d + 1 = first /\ ~ (n < lim)
    BY <1>1, <1>3, <1>6
  <2> QED
    BY <1>1, <2>1
<1> QED
  BY <1>4, <1>5, <1>6

\* The heart of the limiter: the wait of one window is the distance to the
\* first instant at which the whole history has room for one more request.
LEMMA WaitForIsExact ==
  ASSUME NEW r \in Nat, IInvAt(r), NEW w \in Windows, Budget!Metered(w)
  PROVE  /\ WaitFor(w, r) \in Nat
         /\ \A t \in Nat :
              t >= r => (Budget!FitsAt(w, t) <=> t >= r + WaitFor(w, r))
<1>1. /\ hits[w] \in Seq(Nat) /\ log[w] \in Seq(Nat) /\ r \in Nat /\ Period \in Nat
      /\ Limit[w] \in Nat \ {0} /\ Len(hits[w]) <= Limit[w]
      /\ IsTail(hits[w], log[w], r)
  BY LimitType, BudgetAssumption DEF IInvAt
<1>2. /\ Live(hits[w], r) \in Seq(Nat)
      /\ Len(Live(hits[w], r)) <= Len(hits[w])
      /\ IsTail(Live(hits[w], r), log[w], r)
  BY <1>1, PruningKeepsTail
<1>3. Len(Live(hits[w], r)) > 0 => Live(hits[w], r)[1] > r - Period
  BY <1>1, LiveIsTail
<1>4. \A t \in Nat : Budget!FitsAt(w, t) <=> Room(log[w], Limit[w], t)
  BY DEF Budget!FitsAt, Room, Limit
<1> DEFINE live == Live(hits[w], r)
           lim == Limit[w]
<1>5. /\ live \in Seq(Nat) /\ lim \in Nat \ {0} /\ Len(live) <= lim
      /\ live = Live(hits[w], r) /\ lim = Limit[w]
  BY <1>1, <1>2
<1> HIDE DEF live, lim
<1>6. \A t \in Nat : t >= r =>
        /\ Len(live) < lim => Room(log[w], lim, t)
        /\ Len(live) = lim =>
             live[1] \in Nat /\ (Room(log[w], lim, t) <=> live[1] + Period <= t)
  BY <1>1, <1>2, <1>5, PrunedDequeTells
<1>7. WaitFor(w, r) = IF Len(live) < lim THEN 0 ELSE live[1] + Period - r
  BY <1>5 DEF WaitFor
<1> DEFINE Exact == /\ WaitFor(w, r) \in Nat
                    /\ \A t \in Nat : t >= r =>
                         (Room(log[w], lim, t) <=> t >= r + WaitFor(w, r))
<1>8. ASSUME Len(live) < lim
      PROVE  Exact
  BY <1>1, <1>6, <1>7, <1>8
<1>9. ASSUME Len(live) = lim
      PROVE  Exact
  <2>1. live[1] \in Nat /\ live[1] > r - Period
    BY <1>1, <1>3, <1>5, <1>6, <1>9
  <2>2. WaitFor(w, r) = live[1] + Period - r
    BY <1>7, <1>9
  <2>3. \A t \in Nat : t >= r => (Room(log[w], lim, t) <=> live[1] + Period <= t)
    BY <1>6, <1>9
  <2> QED
    BY <1>1, <2>1, <2>2, <2>3
<1> QED
  <2>1. Exact
    BY <1>5, <1>8, <1>9
  <2> QED
    BY <1>4, <1>5, <2>1

\* Two windows at most are consulted, so the longest wait exists.
LEMMA LongestExists ==
  ASSUME NEW S, NEW a \in Nat, NEW b \in Nat, 0 \in S, S \subseteq {0, a, b}
  PROVE  Max(S) \in S /\ \A x \in S : x <= Max(S)
<1>1. \E x \in S : \A y \in S : x >= y
  OBVIOUS
<1>2. Max(S) \in S /\ \A y \in S : Max(S) >= y
  BY <1>1 DEF Max
<1> QED
  BY <1>2

\* reserve() answers the longest of the consulted windows' waits, 0 for none.
LEMMA WaitIsLongest ==
  ASSUME NEW r \in Nat, IInvAt(r), NEW isOrder \in BOOLEAN
  PROVE  /\ Wait(isOrder, r) \in Nat
         /\ \A w \in Consulted(isOrder) :
              /\ w \in Windows /\ Budget!Metered(w)
              /\ WaitFor(w, r) <= Wait(isOrder, r)
         /\ \/ Wait(isOrder, r) = 0
            \/ \E w \in Consulted(isOrder) : Wait(isOrder, r) = WaitFor(w, r)
<1> DEFINE S == {0} \cup {WaitFor(w, r) : w \in Consulted(isOrder)}
           wait(w) == IF w \in Consulted(isOrder) THEN WaitFor(w, r) ELSE 0
<1>1. \A w \in Consulted(isOrder) : w \in Windows /\ Budget!Metered(w)
  BY DEF Consulted, Windows, Budget!Windows, Budget!Drawn
<1>2. \A w \in Consulted(isOrder) : WaitFor(w, r) \in Nat
  BY <1>1, WaitForIsExact
<1>3. wait("general") \in Nat /\ wait("order") \in Nat
  BY <1>2
<1>4. Consulted(isOrder) \subseteq {"general", "order"}
  BY <1>1 DEF Windows, Budget!Windows
<1>5. S \subseteq {0, wait("general"), wait("order")} /\ 0 \in S
  BY <1>4
<1>6. Max(S) \in S /\ \A x \in S : x <= Max(S)
  <2> HIDE DEF S, wait
  <2> QED
    BY <1>3, <1>5, LongestExists
<1>7. Wait(isOrder, r) = Max(S)
  BY DEF Wait
<1>8. \A x \in S : x = 0 \/ \E w \in Consulted(isOrder) : x = WaitFor(w, r)
  OBVIOUS
<1>9. \A w \in Consulted(isOrder) : WaitFor(w, r) \in S
  OBVIOUS
<1> HIDE DEF S, wait
<1>10. Wait(isOrder, r) \in Nat
  BY <1>2, <1>6, <1>7, <1>8
<1>11. \A w \in Consulted(isOrder) : WaitFor(w, r) <= Wait(isOrder, r)
  BY <1>6, <1>7, <1>9
<1>12. Wait(isOrder, r) = 0 \/ \E w \in Consulted(isOrder) : Wait(isOrder, r) = WaitFor(w, r)
  BY <1>6, <1>7, <1>8
<1> QED
  BY <1>1, <1>10, <1>11, <1>12

\* Whatever the deques, reserve()'s answer is the exact distance to the first
\* instant at which the request fits every budget it draws on.
LEMMA InvariantMakesWaitExact == IInv => WaitIsExact
<1> SUFFICES ASSUME NEW r \in Nat, r = now, IInvAt(r), NEW isOrder \in BOOLEAN
             PROVE  /\ Free(isOrder, r + Wait(isOrder, r))
                    /\ \A t \in r .. r + Wait(isOrder, r) - 1 : ~ Free(isOrder, t)
  BY DEF WaitIsExact, IInv, IInvAt
<1>1. r \in Nat
  OBVIOUS
<1>2. /\ Wait(isOrder, r) \in Nat
      /\ \A w \in Consulted(isOrder) : WaitFor(w, r) <= Wait(isOrder, r)
      /\ \/ Wait(isOrder, r) = 0
         \/ \E w \in Consulted(isOrder) : Wait(isOrder, r) = WaitFor(w, r)
  BY WaitIsLongest
<1>3. \A w \in Consulted(isOrder) :
        /\ WaitFor(w, r) \in Nat
        /\ \A t \in Nat :
             t >= r => (Budget!FitsAt(w, t) <=> t >= r + WaitFor(w, r))
  BY WaitIsLongest, WaitForIsExact
<1>4. Free(isOrder, r + Wait(isOrder, r))
  BY <1>1, <1>2, <1>3 DEF Free
<1>5. ASSUME NEW t \in r .. r + Wait(isOrder, r) - 1
      PROVE  ~ Free(isOrder, t)
  <2>1. t \in Nat /\ t >= r /\ t < r + Wait(isOrder, r)
    BY <1>1, <1>2
  <2>2. PICK w \in Consulted(isOrder) : Wait(isOrder, r) = WaitFor(w, r)
    BY <1>1, <1>2, <2>1
  <2>3. ~ Budget!FitsAt(w, t)
    BY <1>1, <1>3, <2>1, <2>2
  <2> QED
    BY <2>3 DEF Free
<1> QED
  BY <1>4, <1>5

-----------------------------------------------------------------------------
(* What one step does to one window *)

\* Recording the current time in both keeps a deque a tail of the history.
LEMMA RecordKeepsTail ==
  ASSUME NEW h \in Seq(Nat), NEW l \in Seq(Nat), NEW t \in Nat, IsTail(h, l, t)
  PROVE  IsTail(Append(h, t), Append(l, t), t)
<1> DEFINE k == Len(h)
           d == Len(l) - Len(h)
           g == Append(h, t)
           m == Append(l, t)
<1>1. /\ d \in Nat /\ k \in Nat
      /\ \A i \in 1 .. k : h[i] = l[d + i]
      /\ \A i \in 1 .. d : l[i] <= t - Period
  BY DEF IsTail
<1>2. /\ Len(m) = d + k + 1 /\ Len(g) = k + 1
      /\ \A i \in 1 .. k : g[i] = h[i]
      /\ \A i \in 1 .. d + k : m[i] = l[i]
      /\ g[k + 1] = t /\ m[d + k + 1] = t
  OBVIOUS
<1> HIDE DEF d, g, k, m
<1>3. ASSUME NEW i \in 1 .. k + 1
      PROVE  g[i] = m[d + i]
  <2>1. CASE i \in 1 .. k
    <3>1. d + i \in 1 .. d + k
      BY <1>1, <2>1
    <3> QED
      BY <1>1, <1>2, <2>1, <3>1
  <2>2. CASE i = k + 1
    <3>1. d + i = d + k + 1
      BY <1>1, <2>2
    <3> QED
      BY <1>2, <2>2, <3>1
  <2> QED
    BY <1>1, <2>1, <2>2
<1>4. \A i \in 1 .. d : m[i] <= t - Period
  BY <1>1, <1>2
<1>5. Len(m) - Len(g) = d
  BY <1>1, <1>2
<1>6. IsTail(g, m, t)
  BY <1>1, <1>2, <1>3, <1>4, <1>5 DEF IsTail
<1> QED
  BY <1>6 DEF g, m

\* What is expired stays expired as time passes.
LEMMA TimeKeepsTail ==
  ASSUME NEW h \in Seq(Nat), NEW l \in Seq(Nat), NEW t \in Nat, Period \in Nat,
         IsTail(h, l, t), NEW u \in Nat, t <= u
  PROVE  IsTail(h, l, u)
<1> DEFINE d == Len(l) - Len(h)
<1>1. /\ d \in Nat /\ d <= Len(l)
      /\ \A i \in 1 .. d : l[i] <= t - Period
  BY DEF IsTail
<1>2. \A i \in 1 .. d : l[i] <= u - Period
  <2> HIDE DEF d
  <2>1. \A i \in 1 .. d : l[i] \in Nat
    BY <1>1
  <2> QED
    BY <1>1, <2>1
<1> QED
  BY <1>2 DEF IsTail

\* A grant that fits leaves the history sorted and spaced.
LEMMA GrantKeepsBudget ==
  ASSUME NEW l \in Seq(Nat), NEW t \in Nat, NEW lim \in Nat \ {0}, Period \in Nat,
         \A i, j \in 1 .. Len(l) : i <= j => l[i] <= l[j],
         \A i \in 1 .. Len(l) : l[i] <= t,
         \A i \in 1 .. Len(l) - lim : l[i] + Period <= l[i + lim],
         Room(l, lim, t),
         NEW m, m = Append(l, t)
  PROVE  /\ \A i, j \in 1 .. Len(m) : i <= j => m[i] <= m[j]
         /\ \A i \in 1 .. Len(m) : m[i] <= t
         /\ \A i \in 1 .. Len(m) - lim : m[i] + Period <= m[i + lim]
<1> DEFINE n == Len(l)
<1>1. /\ n \in Nat /\ Len(m) = n + 1 /\ m[n + 1] = t
      /\ \A i \in 1 .. n : m[i] = l[i] /\ m[i] \in Nat
  OBVIOUS
<1>2. n < lim \/ l[n + 1 - lim] + Period <= t
  BY DEF Room
<1>3. /\ \A i, j \in 1 .. n : i <= j => m[i] <= m[j]
      /\ \A i \in 1 .. n : m[i] <= t
      /\ \A i \in 1 .. n - lim : l[i] + Period <= l[i + lim]
  BY <1>1
<1> HIDE DEF n
<1>4. \A i, j \in 1 .. n + 1 : i <= j => m[i] <= m[j]
  BY <1>1, <1>3
<1>5. \A i \in 1 .. n + 1 : m[i] <= t
  BY <1>1, <1>3
<1>6. ASSUME NEW i \in 1 .. n + 1 - lim
      PROVE  m[i] + Period <= m[i + lim]
  <2>1. CASE i = n + 1 - lim
    <3>1. i \in 1 .. n /\ i + lim = n + 1
      BY <1>1, <2>1
    <3> QED
      BY <1>1, <1>2, <2>1, <3>1
  <2>2. CASE i \in 1 .. n - lim
    <3>1. i \in 1 .. n /\ i + lim \in 1 .. n
      BY <1>1, <2>2
    <3> QED
      BY <1>1, <1>3, <2>2, <3>1
  <2>3. i = n + 1 - lim \/ i \in 1 .. n - lim
    BY <1>1
  <2> QED
    BY <2>1, <2>2, <2>3
<1> QED
  BY <1>1, <1>4, <1>5, <1>6

-----------------------------------------------------------------------------
(* The invariant is inductive *)

\* A pruned window keeps its type, its bound and its place in the history.
LEMMA PrunedWindow ==
  ASSUME NEW r \in Nat, IInvAt(r), NEW w \in Windows, Budget!Metered(w)
  PROVE  LET h == Live(hits[w], r)
         IN  /\ h \in Seq(Nat) /\ Len(h) <= Limit[w] /\ IsTail(h, log[w], r)
             /\ WaitFor(w, r) = 0 => Len(h) < Limit[w]
<1>1. /\ hits[w] \in Seq(Nat) /\ log[w] \in Seq(Nat) /\ r \in Nat /\ Period \in Nat
      /\ Limit[w] \in Nat \ {0} /\ Len(hits[w]) <= Limit[w]
      /\ IsTail(hits[w], log[w], r)
  BY LimitType, BudgetAssumption DEF IInvAt
<1> DEFINE h == Live(hits[w], r)
<1>2. h \in Seq(Nat) /\ Len(h) <= Len(hits[w]) /\ IsTail(h, log[w], r)
  BY <1>1, PruningKeepsTail
<1>3. Len(h) > 0 => h[1] > r - Period
  BY <1>1, LiveIsTail
<1>4. WaitFor(w, r) = IF Len(h) < Limit[w] THEN 0 ELSE h[1] + Period - r
  BY DEF WaitFor
<1> HIDE DEF h
<1>5. Len(h) \in Nat /\ Len(h) <= Limit[w]
  BY <1>1, <1>2
<1>6. WaitFor(w, r) = 0 => Len(h) < Limit[w]
  <2> SUFFICES ASSUME WaitFor(w, r) = 0, ~ (Len(h) < Limit[w])
               PROVE  FALSE
    OBVIOUS
  <2>1. h[1] \in Nat /\ h[1] > r - Period /\ h[1] + Period - r = 0
    BY <1>1, <1>2, <1>3, <1>4, <1>5
  <2> QED
    BY <1>1, <2>1
<1> QED
  BY <1>2, <1>5, <1>6 DEF h

\* The invariant speaks of each window on its own.
WindowInv(w, r) ==
  /\ hits[w] \in Seq(Nat) /\ log[w] \in Seq(Nat)
  /\ Budget!Metered(w) =>
       /\ Len(hits[w]) <= Limit[w]
       /\ Ordered(w, r)
       /\ IsTail(hits[w], log[w], r)
       /\ Budget!SpacedBy(w, Limit[w])
  /\ ~ Budget!Metered(w) => hits[w] = <<>>

\* The invariant, stated window by window.
LEMMA ByWindow ==
  ASSUME NEW CONSTANT r
  PROVE  IInvAt(r) <=> /\ r \in Nat
                       /\ hits = [w \in Windows |-> hits[w]]
                       /\ log = [w \in Windows |-> log[w]]
                       /\ \A w \in Windows : WindowInv(w, r)
<1>1. Budget!Windows = Windows /\ Budget!Limit = Limit
  BY DEF Windows, Limit
<1> QED
  BY <1>1 DEF IInvAt, WithinBudget, Budget!WithinBudget, WindowInv

\* The same of the next state.
LEMMA ByWindowNext ==
  ASSUME NEW CONSTANT r \in Nat,
         hits' = [w \in Windows |-> hits'[w]],
         log' = [w \in Windows |-> log'[w]],
         \A w \in Windows : WindowInv(w, r)'
  PROVE  IInvAt(r)'
<1>1. (IInvAt(r) <=> /\ r \in Nat
                /\ hits = [w \in Windows |-> hits[w]]
                /\ log = [w \in Windows |-> log[w]]
                /\ \A w \in Windows : WindowInv(w, r))'
  BY ByWindow, PTL
<1> QED
  BY <1>1

\* A new limiter has empty deques and no history.
LEMMA InitInv == Init => IInv
<1> SUFFICES ASSUME Init, NEW r \in Nat, r = now
             PROVE  IInvAt(r)
  BY DEF Init, IInv
<1>1. \A w \in Windows : hits[w] = <<>> /\ log[w] = <<>>
  BY DEF Init
<1>2. ASSUME NEW w \in Windows
      PROVE  WindowInv(w, r)
  <2>0. <<>> \in Seq(Nat)
    OBVIOUS
  <2>1. hits[w] = <<>> /\ log[w] = <<>> /\ hits[w] \in Seq(Nat) /\ log[w] \in Seq(Nat)
    BY <1>1, <2>0, Zenon
  <2>2. ASSUME Budget!Metered(w)
        PROVE  /\ Len(hits[w]) <= Limit[w] /\ Ordered(w, r)
               /\ IsTail(hits[w], log[w], r) /\ Budget!SpacedBy(w, Limit[w])
    <3>1. Limit[w] \in Nat \ {0}
      BY <2>2, LimitType
    <3>2. Len(hits[w]) = 0 /\ Len(log[w]) = 0
      BY <2>1
    <3> QED
      BY <3>1, <3>2 DEF Ordered, IsTail, Budget!SpacedBy
  <2> QED
    BY <2>1, <2>2 DEF WindowInv
<1>3. /\ r \in Nat
      /\ hits = [w \in Windows |-> hits[w]]
      /\ log = [w \in Windows |-> log[w]]
  BY DEF Init
<1> QED
  BY <1>2, <1>3, ByWindow

\* Time only ages what the deques hold: what holds as of one reading of the
\* clock holds as of every later one.
LEMMA LaterInv ==
  ASSUME NEW CONSTANT r \in Nat, NEW CONSTANT u \in Nat, r <= u, IInvAt(r)
  PROVE  IInvAt(u)
<1>1. Period \in Nat /\ \A w \in Windows : WindowInv(w, r)
  BY ByWindow, BudgetAssumption
<1>2. ASSUME NEW w \in Windows
      PROVE  WindowInv(w, u)
  <2>1. CASE Budget!Metered(w)
    <3>1. /\ hits[w] \in Seq(Nat) /\ log[w] \in Seq(Nat)
          /\ Len(hits[w]) <= Limit[w] /\ Ordered(w, r)
          /\ IsTail(hits[w], log[w], r) /\ Budget!SpacedBy(w, Limit[w])
      BY <1>1, <2>1 DEF WindowInv
    <3>2. IsTail(hits[w], log[w], u)
      BY <1>1, <3>1, TimeKeepsTail
    <3>3. Ordered(w, u)
      <4>1. \A i \in 1 .. Len(log[w]) : log[w][i] \in Nat /\ log[w][i] <= u
        BY <3>1 DEF Ordered
      <4> QED
        BY <3>1, <4>1 DEF Ordered
    <3> QED
      BY <2>1, <3>1, <3>2, <3>3 DEF WindowInv
  <2>2. CASE ~ Budget!Metered(w)
    BY <1>1, <2>2 DEF WindowInv
  <2> QED
    BY <2>1, <2>2
<1> QED
  BY <1>1, <1>2, ByWindow

\* The invariant speaks of the deques and of the history only.
LEMMA SameDequesInv ==
  ASSUME NEW CONSTANT r, IInvAt(r), hits' = hits, log' = log
  PROVE  IInvAt(r)'
<1>1. r \in Nat /\ \A w \in Windows : WindowInv(w, r)
  BY ByWindow
<1>2. ASSUME NEW w \in Windows
      PROVE  WindowInv(w, r)'
  <2>1. WindowInv(w, r)
    BY <1>1
  <2> QED
    BY <2>1 DEF WindowInv, Budget!Metered, Ordered, Budget!SpacedBy, IsTail
<1>3. /\ hits' = [w \in Windows |-> hits'[w]]
      /\ log' = [w \in Windows |-> log'[w]]
  BY ByWindow
<1> QED
  BY <1>1, <1>2, <1>3, ByWindowNext

\* A refusal only prunes.
LEMMA RefuseInv ==
  ASSUME NEW CONSTANT r \in Nat, NEW isOrder \in BOOLEAN, IInvAt(r), Refuse(isOrder, r)
  PROVE  IInvAt(r)'
<1>1. /\ log' = log
      /\ hits' = [w \in Windows |->
                    IF w \in Consulted(isOrder) THEN Live(hits[w], r) ELSE hits[w]]
  BY DEF Refuse, Pruned
<1>2. r \in Nat /\ \A w \in Windows : WindowInv(w, r)
  BY ByWindow
<1>3. ASSUME NEW w \in Windows
      PROVE  WindowInv(w, r)'
  <2>1. CASE w \in Consulted(isOrder)
    <3>1. Budget!Metered(w) /\ hits'[w] = Live(hits[w], r)
      BY <1>1, <2>1 DEF Consulted
    <3>2. /\ hits'[w] \in Seq(Nat) /\ Len(hits'[w]) <= Limit[w]
          /\ IsTail(hits'[w], log[w], r)
      BY <3>1, PrunedWindow
    <3>3. log[w] \in Seq(Nat) /\ Ordered(w, r) /\ Budget!SpacedBy(w, Limit[w])
      BY <1>2, <3>1 DEF WindowInv
    <3>4. Ordered(w, r)' /\ Budget!SpacedBy(w, Limit[w])' /\ IsTail(hits[w], log[w], r)'
      BY <1>1, <3>2, <3>3 DEF Ordered, Budget!SpacedBy, IsTail
    <3> QED
      BY <1>1, <3>1, <3>2, <3>3, <3>4 DEF WindowInv, Budget!Metered
  <2>2. CASE w \notin Consulted(isOrder)
    <3>1. hits'[w] = hits[w] /\ log'[w] = log[w]
      BY <1>1, <2>2
    <3>2. WindowInv(w, r)
      BY <1>2
    <3> QED
      BY <3>1, <3>2 DEF WindowInv, Budget!Metered, Ordered, Budget!SpacedBy, IsTail
  <2> QED
    BY <2>1, <2>2
<1>4. /\ r \in Nat
      /\ hits' = [w \in Windows |-> hits'[w]]
      /\ log' = [w \in Windows |-> log'[w]]
  BY <1>1, <1>2, ByWindow
<1> QED
  BY <1>3, <1>4, ByWindowNext

\* A grant is recorded only where there is room for it, in every window the
\* request draws on; elsewhere nothing changes.
LEMMA TakeInv ==
  ASSUME NEW CONSTANT r \in Nat, NEW isOrder \in BOOLEAN, IInvAt(r), Take(isOrder, r)
  PROVE  IInvAt(r)'
<1>1. /\ \A w \in Windows :
           hits'[w] = IF w \in Consulted(isOrder) THEN Append(Live(hits[w], r), r)
                      ELSE hits[w]
      /\ \A w \in Windows :
           log'[w] = IF w \in Budget!Drawn(isOrder) THEN Append(log[w], r) ELSE log[w]
  BY DEF Take, Pruned
<1>2. r \in Nat /\ Period \in Nat /\ \A w \in Windows : WindowInv(w, r)
  BY ByWindow, BudgetAssumption
<1>3. \A w \in Consulted(isOrder) : WaitFor(w, r) = 0
  BY WaitIsLongest, WaitForIsExact DEF Take
<1>4. ASSUME NEW w \in Windows
      PROVE  WindowInv(w, r)'
  <2>1. CASE w \in Consulted(isOrder)
    <3> DEFINE h == Live(hits[w], r)
               l == log[w]
    <3>1. Budget!Metered(w) /\ w \in Budget!Drawn(isOrder)
      BY <2>1 DEF Consulted
    <3>2. hits'[w] = Append(h, r) /\ log'[w] = Append(l, r)
      BY <1>1, <2>1, <3>1
    <3>3. /\ h \in Seq(Nat) /\ IsTail(h, l, r) /\ Len(h) < Limit[w]
          /\ Limit[w] \in Nat \ {0}
      BY <1>3, <2>1, <3>1, PrunedWindow, LimitType
    <3>4. l \in Seq(Nat) /\ Ordered(w, r) /\ Budget!SpacedBy(w, Limit[w])
      BY <1>2, <3>1 DEF WindowInv
    <3>5. Room(l, Limit[w], r)
      BY <1>2, <3>3, <3>4, PrunedDequeTells
    <3> HIDE DEF h
    <3>6. IsTail(Append(h, r), Append(l, r), r)
      BY <1>2, <3>3, <3>4, RecordKeepsTail
    <3>7. /\ Append(h, r) \in Seq(Nat) /\ Len(Append(h, r)) <= Limit[w]
          /\ Append(l, r) \in Seq(Nat)
      BY <1>2, <3>3, <3>4
    <3>8. LET m == log'[w]
          IN  /\ \A i, j \in 1 .. Len(m) : i <= j => m[i] <= m[j]
              /\ \A i \in 1 .. Len(m) : m[i] <= r
              /\ \A i \in 1 .. Len(m) - Limit[w] : m[i] + Period <= m[i + Limit[w]]
      <4>1. /\ \A i, j \in 1 .. Len(l) : i <= j => l[i] <= l[j]
            /\ \A i \in 1 .. Len(l) : l[i] <= r
            /\ \A i \in 1 .. Len(l) - Limit[w] : l[i] + Period <= l[i + Limit[w]]
        BY <3>4 DEF Ordered, Budget!SpacedBy
      <4> HIDE DEF l
      <4> QED
        BY <1>2, <3>2, <3>3, <3>4, <3>5, <4>1, GrantKeepsBudget
    <3>9. Ordered(w, r)' /\ Budget!SpacedBy(w, Limit[w])'
      BY <1>1, <3>8 DEF Ordered, Budget!SpacedBy
    <3>10. IsTail(hits[w], log[w], r)'
      BY <1>1, <3>2, <3>6 DEF IsTail
    <3> QED
      BY <3>1, <3>2, <3>7, <3>9, <3>10 DEF WindowInv, Budget!Metered
  <2>2. CASE w \notin Consulted(isOrder) /\ Budget!Metered(w)
    <3>1. hits'[w] = hits[w] /\ log'[w] = log[w]
      BY <1>1, <2>2 DEF Consulted
    <3>2. WindowInv(w, r)
      BY <1>2
    <3> QED
      BY <3>1, <3>2 DEF WindowInv, Budget!Metered, Ordered, Budget!SpacedBy, IsTail
  <2>3. CASE ~ Budget!Metered(w)
    <3>1. hits'[w] = hits[w] /\ hits[w] = <<>> /\ hits[w] \in Seq(Nat) /\ log[w] \in Seq(Nat)
      BY <1>1, <1>2, <2>3 DEF Consulted, WindowInv
    <3>2. log'[w] \in Seq(Nat)
      <4>1. log'[w] = Append(log[w], r) \/ log'[w] = log[w]
        BY <1>1
      <4>2. log[w] \in Seq(Nat) /\ r \in Nat
        BY <1>2 DEF WindowInv
      <4>3. Append(log[w], r) \in Seq(Nat)
        BY <4>2
      <4> QED
        BY <4>1, <4>2, <4>3, Zenon
    <3> QED
      BY <2>3, <3>1, <3>2 DEF WindowInv, Budget!Metered
  <2> QED
    BY <2>1, <2>2, <2>3
<1>5. /\ r \in Nat
      /\ hits' = [w \in Windows |-> hits'[w]]
      /\ log' = [w \in Windows |-> log'[w]]
  BY <1>1, <1>2 DEF Take
<1> QED
  BY <1>4, <1>5, ByWindowNext

\* Every grant of the code is one the abstract budget allows.
LEMMA TakeIsGrant ==
  ASSUME NEW isOrder \in BOOLEAN, IInv, Take(isOrder, now)
  PROVE  Budget!Grant(isOrder)
<1> SUFFICES ASSUME NEW r \in Nat, r = now, IInvAt(r), Take(isOrder, r)
             PROVE  Budget!Grant(isOrder)
  BY DEF IInv, IInvAt
<1>1. ASSUME NEW w \in Budget!Drawn(isOrder), Budget!Metered(w)
      PROVE  Budget!FitsAt(w, r)
  <2>1. w \in Consulted(isOrder) /\ w \in Windows
    BY <1>1 DEF Consulted, Windows, Budget!Windows, Budget!Drawn
  <2>2. WaitFor(w, r) = 0
    BY <2>1, <1>1, WaitIsLongest, WaitForIsExact DEF Take
  <2> QED
    BY <1>1, <2>1, <2>2, WaitForIsExact
<1> QED
  BY <1>1 DEF Take, Budget!Grant, Windows

-----------------------------------------------------------------------------
(* Theorems *)

\* Every step of reserve() and of the clock keeps the invariant.
LEMMA StepInv == IInv /\ [Next]_vars => IInv'
<1> SUFFICES ASSUME NEW CONSTANT r \in Nat, r = now, IInvAt(r), [Next]_vars
             PROVE  IInv'
  BY DEF IInv, IInvAt
<1>1. CASE Tick
  <2>1. r + 1 \in Nat /\ now' = r + 1 /\ hits' = hits /\ log' = log
    BY <1>1 DEF Tick
  <2>2. IInvAt(r + 1)
    BY <2>1, LaterInv
  <2>3. IInvAt(r + 1)'
    BY <2>1, <2>2, SameDequesInv
  <2> QED
    BY <2>1, <2>3 DEF IInv, IInvAt
<1>2. CASE \E isOrder \in BOOLEAN : Reserve(isOrder)
  <2>1. IInvAt(r)' /\ now' = r
    BY <1>2, TakeInv, RefuseInv DEF Reserve, Take, Refuse
  <2> QED
    BY <2>1 DEF IInv, IInvAt
<1>3. CASE UNCHANGED vars
  <2>1. IInvAt(r)' /\ now' = r
    BY <1>3, SameDequesInv DEF vars
  <2> QED
    BY <2>1 DEF IInv, IInvAt
<1> QED
  BY <1>1, <1>2, <1>3 DEF Next

\* In every reachable state the deques match the history and the history is
\* within budget: the invariant the other theorems rest on.
THEOREM Invariance == Spec => []IInv
<1> QED
  BY InitInv, StepInv, PTL DEF Spec

\* The deques hold clock readings, at most Limit of them, and none for a
\* budget that is not metered.
THEOREM TypeCorrect == Spec => []TypeOK
<1>1. IInv => TypeOK
  BY InvariantMeans
<1> QED
  BY <1>1, Invariance, PTL

\* Whatever the limits, the period and the order of calls, lazy pruning never
\* forgets a grant that still counts.
THEOREM DequesMatch == Spec => []DequesMatchLog
<1>1. IInv => DequesMatchLog
  BY InvariantMeans
<1> QED
  BY <1>1, Invariance, PTL

\* No rolling window of one period ever holds more grants than a metered
\* budget allows.
THEOREM NeverOverBudget == Spec => []WithinBudget
<1>1. IInv => WithinBudget
  BY InvariantMeans
<1> QED
  BY <1>1, Invariance, PTL

\* The wait reserve() answers is always exactly the time to the first instant
\* at which the request fits all its budgets.
THEOREM WaitsAreExact == Spec => []WaitIsExact
<1> QED
  BY InvariantMakesWaitExact, Invariance, PTL

\* The two deques implement the abstract budget: every step of the limiter is
\* a grant the budget allows, a tick, or (a refusal) invisible.
THEOREM LimiterImplementsBudget == Spec => ImplementsBudget
<1>1. Init => Budget!Init
  BY DEF Init, Budget!Init, Windows
<1>2. IInv /\ [Next]_vars => [Budget!Next]_<<now, log>>
  <2> SUFFICES ASSUME IInv, [Next]_vars
               PROVE  [Budget!Next]_<<now, log>>
    OBVIOUS
  <2>1. CASE Tick
    BY <2>1 DEF Tick, Budget!Elapse, Budget!Next
  <2>2. ASSUME NEW isOrder \in BOOLEAN, Take(isOrder, now)
        PROVE  [Budget!Next]_<<now, log>>
    BY <2>2, TakeIsGrant DEF Budget!Next
  <2>3. ASSUME NEW isOrder \in BOOLEAN, Refuse(isOrder, now)
        PROVE  [Budget!Next]_<<now, log>>
    BY <2>3 DEF Refuse
  <2>4. CASE UNCHANGED vars
    BY <2>4 DEF vars
  <2> QED
    BY <2>1, <2>2, <2>3, <2>4 DEF Next, Reserve
<1> QED
  BY <1>1, <1>2, Invariance, PTL DEF Spec, ImplementsBudget, Budget!Spec

-----------------------------------------------------------------------------
(* For the modules that use the limiter *)

Sorted(q) == \A i, j \in 1 .. Len(q) : i <= j => q[i] <= q[j]

\* In a sorted deque pruning leaves exactly what is younger than a period.
LEMMA LiveOfSorted ==
  ASSUME NEW q \in Seq(Nat), Sorted(q), NEW t \in Nat, Period \in Nat
  PROVE  \E k \in 0 .. Len(q) :
           /\ Live(q, t) \in Seq(Nat)
           /\ Len(Live(q, t)) = Len(q) - k
           /\ \A i \in 1 .. Len(q) - k : Live(q, t)[i] = q[k + i]
           /\ \A i \in 1 .. k : q[i] <= t - Period
           /\ \A i \in k + 1 .. Len(q) : q[i] > t - Period
<1>1. PICK k \in 0 .. Len(q) :
           /\ \A i \in 1 .. k : q[i] <= t - Period
           /\ Live(q, t) \in Seq(Nat)
           /\ Len(Live(q, t)) = Len(q) - k
           /\ \A i \in 1 .. Len(q) - k : Live(q, t)[i] = q[k + i]
           /\ Len(Live(q, t)) > 0 => Live(q, t)[1] > t - Period
  BY LiveIsTail
<1>2. ASSUME NEW i \in k + 1 .. Len(q)
      PROVE  q[i] > t - Period
  <2>1. 1 \in 1 .. Len(q) - k /\ Len(q) - k > 0
    OBVIOUS
  <2>2. q[k + 1] > t - Period
    BY <1>1, <2>1
  <2>3. q[k + 1] <= q[i] /\ q[i] \in Nat /\ q[k + 1] \in Nat
    BY DEF Sorted
  <2> QED
    BY <2>2, <2>3
<1> QED
  BY <1>1, <1>2

\* How many entries pruning leaves, from either side.
LEMMA LiveCounts ==
  ASSUME NEW q \in Seq(Nat), Sorted(q), NEW t \in Nat, Period \in Nat,
         NEW k \in 0 .. Len(q),
         \A i \in 1 .. k : q[i] <= t - Period,
         \A i \in k + 1 .. Len(q) : q[i] > t - Period
  PROVE  Len(Live(q, t)) = Len(q) - k
<1>1. PICK m \in 0 .. Len(q) :
           /\ Len(Live(q, t)) = Len(q) - m
           /\ \A i \in 1 .. m : q[i] <= t - Period
           /\ \A i \in m + 1 .. Len(q) : q[i] > t - Period
  BY LiveOfSorted
<1>2. \A i \in 1 .. Len(q) : q[i] \in Nat
  OBVIOUS
<1>3. ~ (m < k)
  <2> SUFFICES ASSUME m < k PROVE FALSE
    OBVIOUS
  <2>1. m + 1 \in 1 .. k /\ m + 1 \in m + 1 .. Len(q)
    OBVIOUS
  <2> QED
    BY <1>1, <1>2, <2>1
<1>4. ~ (k < m)
  <2> SUFFICES ASSUME k < m PROVE FALSE
    OBVIOUS
  <2>1. k + 1 \in 1 .. m /\ k + 1 \in k + 1 .. Len(q)
    OBVIOUS
  <2> QED
    BY <1>1, <1>2, <2>1
<1>5. k = m
  BY <1>3, <1>4
<1> QED
  BY <1>1, <1>5

\* Pruning once more, later, is pruning later.
LEMMA LiveAgain ==
  ASSUME NEW q \in Seq(Nat), Sorted(q), NEW t \in Nat, NEW u \in Nat, t <= u,
         Period \in Nat
  PROVE  /\ Live(q, t) \in Seq(Nat) /\ Sorted(Live(q, t))
         /\ Len(Live(Live(q, t), u)) = Len(Live(q, u))
<1>1. PICK k \in 0 .. Len(q) :
           /\ Live(q, t) \in Seq(Nat)
           /\ Len(Live(q, t)) = Len(q) - k
           /\ \A i \in 1 .. Len(q) - k : Live(q, t)[i] = q[k + i]
           /\ \A i \in 1 .. k : q[i] <= t - Period
           /\ \A i \in k + 1 .. Len(q) : q[i] > t - Period
  BY LiveOfSorted
<1>2. PICK m \in 0 .. Len(q) :
           /\ Len(Live(q, u)) = Len(q) - m
           /\ \A i \in 1 .. m : q[i] <= u - Period
           /\ \A i \in m + 1 .. Len(q) : q[i] > u - Period
  BY LiveOfSorted
<1>3. \A i \in 1 .. Len(q) : q[i] \in Nat
  OBVIOUS
<1>4. k <= m
  <2> SUFFICES ASSUME m < k PROVE FALSE
    OBVIOUS
  <2>1. k \in 1 .. k /\ k \in m + 1 .. Len(q)
    OBVIOUS
  <2> QED
    BY <1>1, <1>2, <1>3, <2>1
<1> DEFINE l == Live(q, t)
           n == Len(q)
<1>5. /\ l \in Seq(Nat) /\ n \in Nat /\ k \in 0 .. n /\ m \in 0 .. n
      /\ Len(l) = n - k /\ \A i \in 1 .. n - k : l[i] = q[k + i]
  BY <1>1
<1>6. Sorted(l)
  <2> SUFFICES ASSUME NEW i \in 1 .. n - k, NEW j \in 1 .. n - k, i <= j
               PROVE  l[i] <= l[j]
    BY <1>5 DEF Sorted
  <2>1. k + i \in 1 .. n /\ k + j \in 1 .. n /\ k + i <= k + j
    BY <1>5
  <2> QED
    BY <1>5, <2>1 DEF Sorted
<1>7. m - k \in 0 .. Len(l)
  BY <1>4, <1>5
<1>8. \A i \in 1 .. m - k : l[i] <= u - Period
  <2> TAKE i \in 1 .. m - k
  <2>1. k + i \in 1 .. m /\ i \in 1 .. n - k
    BY <1>4, <1>5
  <2> QED
    BY <1>2, <1>5, <2>1
<1>9. \A i \in (m - k) + 1 .. Len(l) : l[i] > u - Period
  <2> TAKE i \in (m - k) + 1 .. Len(l)
  <2>1. k + i \in m + 1 .. n /\ i \in 1 .. n - k
    BY <1>4, <1>5
  <2> QED
    BY <1>2, <1>5, <2>1
<1> HIDE DEF l
<1>10. Len(Live(l, u)) = Len(l) - (m - k)
  BY <1>5, <1>6, <1>7, <1>8, <1>9, LiveCounts
<1>11. Len(l) - (m - k) = Len(Live(q, u))
  BY <1>2, <1>5
<1> QED
  BY <1>5, <1>6, <1>10, <1>11 DEF l

\* A new entry is one more of those that are left, unless none is.
LEMMA LiveAppended ==
  ASSUME NEW q \in Seq(Nat), Sorted(q), NEW t \in Nat, NEW u \in Nat, Period \in Nat,
         \A i \in 1 .. Len(q) : q[i] <= t
  PROVE  /\ Append(q, t) \in Seq(Nat) /\ Sorted(Append(q, t))
         /\ \A i \in 1 .. Len(Append(q, t)) : Append(q, t)[i] <= t
         /\ IF t > u - Period
            THEN Len(Live(Append(q, t), u)) = Len(Live(q, u)) + 1
            ELSE Len(Live(Append(q, t), u)) = 0 /\ Len(Live(q, u)) = 0
<1> DEFINE n == Len(q)
           p == Append(q, t)
<1>1. /\ n \in Nat /\ p \in Seq(Nat) /\ Len(p) = n + 1 /\ p[n + 1] = t
      /\ \A i \in 1 .. n : p[i] = q[i] /\ q[i] \in Nat /\ q[i] <= t
  OBVIOUS
<1>2. PICK k \in 0 .. n :
           /\ Len(Live(q, u)) = n - k
           /\ \A i \in 1 .. k : q[i] <= u - Period
           /\ \A i \in k + 1 .. n : q[i] > u - Period
  BY LiveOfSorted
<1> HIDE DEF p
<1>3. \A i \in 1 .. n + 1 : i \in 1 .. n \/ i = n + 1
  BY <1>1
<1>4. \A i, j \in 1 .. n : i <= j => q[i] <= q[j]
  BY DEF Sorted
<1> HIDE DEF n
<1>5. Sorted(p) /\ \A i \in 1 .. n + 1 : p[i] <= t
  <2>1. ASSUME NEW i \in 1 .. n + 1
        PROVE  p[i] <= t
    BY <1>1, <1>3
  <2>2. ASSUME NEW i \in 1 .. n + 1, NEW j \in 1 .. n + 1, i <= j
        PROVE  p[i] <= p[j]
    <3>1. CASE j = n + 1
      BY <1>1, <2>1, <3>1
    <3>2. CASE j \in 1 .. n
      <4>1. i \in 1 .. n
        BY <1>1, <2>2, <3>2
      <4> QED
        BY <1>1, <1>4, <2>2, <3>2, <4>1
    <3> QED
      BY <1>3, <3>1, <3>2
  <2> QED
    BY <1>1, <2>1, <2>2 DEF Sorted
<1>6. CASE t > u - Period
  <2>1. k \in 0 .. n + 1
    BY <1>1
  <2>2. \A i \in 1 .. k : p[i] <= u - Period
    BY <1>1, <1>2
  <2>3. \A i \in k + 1 .. n + 1 : p[i] > u - Period
    BY <1>1, <1>2, <1>3, <1>6
  <2>4. Len(Live(p, u)) = (n + 1) - k
    <3>1. p \in Seq(Nat) /\ Sorted(p) /\ Len(p) = n + 1
      BY <1>1, <1>5
    <3>2. k \in 0 .. Len(p) /\ \A i \in k + 1 .. Len(p) : p[i] > u - Period
      BY <2>1, <2>3, <3>1
    <3>3. Len(Live(p, u)) = Len(p) - k
      BY <2>2, <3>1, <3>2, LiveCounts
    <3> QED
      BY <3>1, <3>3
  <2> QED
    BY <1>1, <1>2, <1>5, <1>6, <2>4 DEF p
<1>7. CASE ~ (t > u - Period)
  <2>1. \A i \in 1 .. n : q[i] <= u - Period
    BY <1>1, <1>7
  <2>2. Len(Live(q, u)) = 0
    <3>1. n \in 0 .. n /\ \A i \in n + 1 .. n : q[i] > u - Period
      BY <1>1
    <3>2. Len(Live(q, u)) = n - n
      BY <2>1, <3>1, LiveCounts DEF n
    <3> QED
      BY <1>1, <3>2
  <2>3. \A i \in 1 .. n + 1 : p[i] <= u - Period
    BY <1>1, <1>5, <1>7
  <2>4. Len(Live(p, u)) = 0
    <3>1. n + 1 \in 0 .. n + 1 /\ \A i \in (n + 1) + 1 .. n + 1 : p[i] > u - Period
      BY <1>1
    <3>2. p \in Seq(Nat) /\ Sorted(p) /\ Len(p) = n + 1
      BY <1>1, <1>5
    <3>3. Len(Live(p, u)) = Len(p) - (n + 1)
      BY <2>3, <3>1, <3>2, LiveCounts
    <3> QED
      BY <1>1, <3>2, <3>3
  <2> QED
    BY <1>1, <1>5, <1>7, <2>2, <2>4 DEF p
<1> QED
  BY <1>6, <1>7

\* No more grants than the limit are younger than a period.
LEMMA LiveWithinBudget ==
  ASSUME IInv, NEW w \in Windows, Budget!Metered(w)
  PROVE  Len(Live(log[w], now)) <= Limit[w]
<1> DEFINE l == log[w]
           lim == Limit[w]
           n == Len(l)
<1>1. /\ l \in Seq(Nat) /\ now \in Nat /\ Period \in Nat /\ lim \in Nat \ {0}
      /\ Sorted(l) /\ \A i \in 1 .. n : l[i] <= now
      /\ \A i \in 1 .. n - lim : l[i] + Period <= l[i + lim]
  BY LimitType, BudgetAssumption, InvariantMeans
     DEF TypeOK, DequesMatchLog, Ordered, Sorted, WithinBudget, Limit, Windows,
         Budget!WithinBudget, Budget!SpacedBy
<1> HIDE DEF l, lim
<1>2. PICK k \in 0 .. n :
           /\ Len(Live(l, now)) = n - k
           /\ \A i \in k + 1 .. n : l[i] > now - Period
  BY <1>1, LiveOfSorted
<1>3. n \in Nat /\ \A i \in 1 .. n : l[i] \in Nat
  BY <1>1
<1> HIDE DEF n
<1>4. n - k <= lim
  <2> SUFFICES ASSUME n - k > lim PROVE FALSE
    BY <1>1, <1>3
  <2>1. k + 1 \in 1 .. n - lim /\ (k + 1) + lim \in 1 .. n /\ k + 1 \in k + 1 .. n
        /\ k + 1 \in 1 .. n
    BY <1>1, <1>3
  <2>2. l[k + 1] + Period <= l[(k + 1) + lim] /\ l[(k + 1) + lim] <= now
    BY <1>1, <2>1
  <2>3. l[k + 1] > now - Period
    BY <1>2, <2>1
  <2> QED
    BY <1>1, <1>3, <2>1, <2>2, <2>3
<1> QED
  BY <1>2, <1>4 DEF l, lim

\* Nobody is told to wait longer than one period.
LEMMA WaitsAtMostAPeriod ==
  ASSUME NEW r \in Nat, IInvAt(r), NEW isOrder \in BOOLEAN
  PROVE  Wait(isOrder, r) \in Nat /\ Wait(isOrder, r) <= Period
<1>1. Wait(isOrder, r) \in Nat /\ Period \in Nat
  BY WaitIsLongest, BudgetAssumption
<1>2. ASSUME NEW w \in Consulted(isOrder)
      PROVE  WaitFor(w, r) <= Period
  <2>1. w \in Windows /\ Budget!Metered(w)
    BY WaitIsLongest
  <2>2. /\ hits[w] \in Seq(Nat) /\ log[w] \in Seq(Nat) /\ r \in Nat
        /\ IsTail(hits[w], log[w], r) /\ \A i \in 1 .. Len(log[w]) : log[w][i] <= r
        /\ Limit[w] \in Nat \ {0}
    BY <2>1, LimitType, BudgetAssumption DEF IInvAt, Ordered
  <2> DEFINE live == Live(hits[w], r)
  <2>3. live \in Seq(Nat) /\ IsTail(live, log[w], r)
    BY <1>1, <2>2, PruningKeepsTail
  <2> HIDE DEF live
  <2>4. CASE Len(live) < Limit[w]
    BY <1>1, <2>4 DEF WaitFor, live
  <2>5. CASE ~ (Len(live) < Limit[w])
    <3>1. 1 \in 1 .. Len(live)
      BY <2>2, <2>3, <2>5
    <3>2. live[1] \in Nat /\ live[1] <= r
      <4> DEFINE d == Len(log[w]) - Len(live)
      <4>1. d >= 0 /\ live[1] = log[w][d + 1] /\ d + 1 \in 1 .. Len(log[w])
        BY <2>2, <2>3, <3>1 DEF IsTail
      <4> QED
        BY <2>2, <4>1
    <3>3. WaitFor(w, r) = live[1] + Period - r
      BY <2>5 DEF WaitFor, live
    <3> QED
      BY <1>1, <2>2, <3>2, <3>3
  <2> QED
    BY <2>4, <2>5
<1> QED
  BY <1>1, <1>2, WaitIsLongest
=============================================================================
