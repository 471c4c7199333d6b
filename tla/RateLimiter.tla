----------------------------- MODULE RateLimiter -----------------------------
(***************************************************************************)
(* The sliding-window limiter of src/src/pylightningfx/_ratelimit.py: one  *)
(* deque of send timestamps per metered budget, pruned lazily whenever it  *)
(* is consulted.  One call of reserve(now, order) is one step; its caller  *)
(* reads the clock.  Here that is the time of the call; RequestLoop, which *)
(* shares a limiter between callers, reads it first and calls later.       *)
(***************************************************************************)
EXTENDS Integers, Sequences, FiniteSetsExt

CONSTANTS General, Order, Period, Unlimited   \* as in RateBudget

\* RateLimits validates nothing: any count, zero included, and any period.
ASSUME BudgetAssumption ==
  /\ Unlimited \notin Nat
  /\ General \in Nat \cup {Unlimited}
  /\ Order \in Nat \cup {Unlimited}
  /\ Period \in Nat

VARIABLES
  now,    \* time.monotonic(), in ticks
  hits,   \* hits[w]: the deque _Window._hits of budget w
  log     \* history: every grant ever made against budget w

vars == <<now, hits, log>>

Budget == INSTANCE RateBudget

Windows == Budget!Windows
Limit == Budget!Limit

\* MUTANT of Consulted: orders count against the general budget only.
ConsultedGeneral(isOrder) == {w \in Budget!Drawn(FALSE) : Budget!Metered(w)}

\* The windows reserve() consults: the ones that exist (`w is not None`)
\* among general and, for an order endpoint, order.
Consulted(isOrder) == {w \in Budget!Drawn(isOrder) : Budget!Metered(w)}

\* MUTANT of Stale: a timestamp expires one tick early.
StaleEarly(q, t, k) ==
  /\ \A i \in 1 .. k : q[i] <= t + 1 - Period
  /\ k < Len(q) => q[k + 1] > t + 1 - Period

\* wait_for's loop: pop from the left while the head is a whole period old.
\* Stale(q, t, k): the loop stops after exactly k pops.
Stale(q, t, k) ==
  /\ \A i \in 1 .. k : q[i] <= t - Period
  /\ k < Len(q) => q[k + 1] > t - Period

Live(q, t) ==
  LET popped == CHOOSE k \in 0 .. Len(q) : Stale(q, t, k)
  IN  SubSeq(q, popped + 1, Len(q))

\* MUTANT of WaitFor: waits for the newest timestamp to expire.
WaitForNewest(w, t) ==
  LET live == Live(hits[w], t)
  IN  IF Len(live) < Limit[w] THEN 0 ELSE live[Len(live)] + Period - t

\* _Window.wait_for
WaitFor(w, t) ==
  LET live == Live(hits[w], t)
  IN  IF Len(live) < Limit[w] THEN 0 ELSE live[1] + Period - t

\* MUTANT of Wait: the shortest wait instead of the longest.
WaitShortest(isOrder, t) ==
  IF Consulted(isOrder) = {} THEN 0
  ELSE Min({WaitFor(w, t) : w \in Consulted(isOrder)})

\* The value reserve() returns: the longest wait of the consulted windows.
Wait(isOrder, t) == Max({0} \cup {WaitFor(w, t) : w \in Consulted(isOrder)})

\* Every consulted deque is pruned, even when the request is then refused.
Pruned(isOrder, t) ==
  [w \in Windows |->
     IF w \in Consulted(isOrder) THEN Live(hits[w], t) ELSE hits[w]]

Init ==
  /\ now \in Nat
  /\ hits = [w \in Windows |-> <<>>]
  /\ log = [w \in Windows |-> <<>>]

\* reserve(t) finds a slot in every consulted window and records in all.
Take(isOrder, t) ==
  /\ Wait(isOrder, t) = 0
  /\ hits' = [w \in Windows |->
                IF w \in Consulted(isOrder) THEN Append(Pruned(isOrder, t)[w], t)
                ELSE hits[w]]
  /\ log' = [w \in Windows |->
               IF w \in Budget!Drawn(isOrder) THEN Append(log[w], t)
               ELSE log[w]]
  /\ now' = now

\* MUTANT of Refuse: the timestamp is recorded on a refusal as well.
RefuseRecording(isOrder, t) ==
  /\ Wait(isOrder, t) > 0
  /\ hits' = [w \in Windows |->
                IF w \in Consulted(isOrder) THEN Append(Pruned(isOrder, t)[w], t)
                ELSE hits[w]]
  /\ UNCHANGED <<now, log>>

\* reserve(t) records nothing and returns the positive wait.
Refuse(isOrder, t) ==
  /\ Wait(isOrder, t) > 0
  /\ hits' = Pruned(isOrder, t)
  /\ UNCHANGED <<now, log>>

Reserve(isOrder) == Take(isOrder, now) \/ Refuse(isOrder, now)

Tick ==
  /\ now' = now + 1
  /\ UNCHANGED <<hits, log>>

Next == Tick \/ \E isOrder \in BOOLEAN : Reserve(isOrder)

Spec == Init /\ [][Next]_vars

-----------------------------------------------------------------------------
\* Every deque holds timestamps and never more of them than its budget
\* allows; a budget without a window holds none (_Window, Limiter.__init__).
TypeOK ==
  /\ now \in Nat
  /\ hits \in [Windows -> Seq(Nat)]
  /\ log \in [Windows -> Seq(Nat)]
  /\ \A w \in Windows :
       IF Budget!Metered(w) THEN Len(hits[w]) <= Limit[w] ELSE hits[w] = <<>>

\* The grants of one budget are recorded in clock order, none after t.
Ordered(w, t) ==
  /\ \A i, j \in 1 .. Len(log[w]) : i <= j => log[w][i] <= log[w][j]
  /\ \A i \in 1 .. Len(log[w]) : log[w][i] <= t

\* A deque is what is left of the history once some expired grants are
\* dropped from its front.
IsTail(h, l, t) ==
  LET dropped == Len(l) - Len(h)
  IN  /\ dropped >= 0
      /\ \A i \in 1 .. Len(h) : h[i] = l[dropped + i]
      /\ \A i \in 1 .. dropped : l[i] <= t - Period

\* Pruning is lazy, happens in one window and not the other, and happens on
\* refusals too; still a deque never forgets a grant that counts, never holds
\* one that was not made and stays sorted, so its head is the oldest.
DequesMatchLog ==
  \A w \in Windows : Budget!Metered(w) => Ordered(w, now) /\ IsTail(hits[w], log[w], now)

\* Lazy pruning never makes the limiter exceed a budget (see RateBudget).
WithinBudget == Budget!WithinBudget

\* Judged by the whole history instead of the pruned deques, a request that
\* draws on these budgets could be granted at time t.
Free(isOrder, t) == \A w \in Consulted(isOrder) : Budget!FitsAt(w, t)

\* reserve()'s answer is exact: sleeping that long is enough for a slot in
\* every window at once if nobody else takes one, and no shorter sleep is.
\* A caller is never told to sleep past a free slot nor woken for nothing.
WaitIsExact ==
  \A isOrder \in BOOLEAN :
    /\ Free(isOrder, now + Wait(isOrder, now))
    /\ \A t \in now .. now + Wait(isOrder, now) - 1 : ~Free(isOrder, t)

\* The deques implement the abstract budget: every grant the code makes is
\* one RateBudget allows.
ImplementsBudget == Budget!Spec

\* RateLimits' documented meaning of a limit (see RateBudget).
DocumentedBudget == Budget!DocumentedBudget
=============================================================================
