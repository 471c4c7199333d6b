------------------------ MODULE AsyncRequestLoopProofs ------------------------
(***************************************************************************)
(* What RequestLoopProofs shows of the callers holds of asyncio tasks too, *)
(* which can be cancelled at any await.                                    *)
(***************************************************************************)
EXTENDS AsyncRequestLoop, RequestLoopProofs

-----------------------------------------------------------------------------
(* One cancellation *)

\* A cancellation ends the call where it is and gives up what it waited on.
LEMMA CancelEnds ==
  ASSUME WireTyped, CallsTyped, NEW c \in Calls, Cancel(c)
  PROVE  /\ WireTyped' /\ wire'[c] = (IF pc[c] = "flight" THEN Nothing ELSE wire[c])
         /\ \A d \in Calls \ {c} : wire'[d] = wire[d]
         /\ Escape(c, "cancelled") /\ pc[c] \in {"throttle", "flight", "asleep"}
         /\ pc'[c] = "raised" /\ outcome'[c] = "cancelled"
         /\ \/ stray' = stray
            \/ /\ pc[c] = "flight" /\ wire[c] = Travelling /\ IsWrite(c)
               /\ stray' = [stray EXCEPT ![c] = @ + 1]
         /\ UNCHANGED <<executed, sends, endpoint>>
<1> USE DEF given, sendVars
<1>1. /\ Escape(c, "cancelled") /\ pc[c] \in {"throttle", "flight", "asleep"}
      /\ UNCHANGED <<executed, sends, endpoint>>
  BY DEF Cancel, Escape
<1>2. pc'[c] = "raised" /\ outcome'[c] = "cancelled"
  BY <1>1 DEF Escape, CallsTyped
<1>3. \/ pc[c] = "flight" /\ Abandon(c)
      \/ pc[c] # "flight" /\ UNCHANGED <<wire, stray>>
  BY DEF Cancel
<1>4. CASE pc[c] = "flight" /\ Abandon(c)
  BY <1>1, <1>2, <1>4 DEF Abandon, WireTyped
<1>5. CASE pc[c] # "flight" /\ UNCHANGED <<wire, stray>>
  BY <1>1, <1>2, <1>5 DEF WireTyped
<1> QED
  BY <1>3, <1>4, <1>5

\* A cancellation is no attempt and no failure worth another one.
LEMMA CancelCounts ==
  ASSUME AttemptsCounted, NEW c \in Calls, Cancel(c)
  PROVE  AttemptsCounted'
<1>1. /\ WireTyped' /\ Escape(c, "cancelled") /\ pc[c] \in {"throttle", "flight", "asleep"}
      /\ UNCHANGED <<sends, endpoint>>
  BY CancelEnds DEF AttemptsCounted
<1> QED
  BY <1>1, EscapeCounts DEF Final, Excuse

\* A cancellation leaves the fate of a write unknown, as it says.
LEMMA CancelSubmits ==
  ASSUME WritesSettled, CallsTyped', NEW c \in Calls, Cancel(c)
  PROVE  WritesSettled' /\ [Writing!Next]_<<executed, Verdicts>>
<1>1. /\ WireTyped' /\ wire'[c] = (IF pc[c] = "flight" THEN Nothing ELSE wire[c])
      /\ \A d \in Calls \ {c} : wire'[d] = wire[d]
      /\ Escape(c, "cancelled") /\ pc[c] \in {"throttle", "flight", "asleep"}
      /\ pc'[c] = "raised" /\ outcome'[c] = "cancelled"
      /\ \/ stray' = stray
         \/ /\ pc[c] = "flight" /\ wire[c] = Travelling /\ IsWrite(c)
            /\ stray' = [stray EXCEPT ![c] = @ + 1]
      /\ UNCHANGED <<executed, endpoint>>
  BY CancelEnds DEF WritesSettled
<1>2. OthersKept(c) /\ WritesTyped'
  BY <1>1 DEF Escape, OthersKept, WritesSettled, WritesTyped, CallsTyped
<1>3. IsWrite(c) => executed[c] + stray'[c] <= 1 /\ wire'[c] = Nothing
  BY <1>1 DEF WritesSettled, Settled, WritesTyped, Travelling
<1>4. IsWrite(c) => Verdict(c)' = "unknown"
  BY <1>1 DEF Verdict, IsWrite
<1>5. IsWrite(c) => Settled(c)'
  BY <1>1, <1>3, <1>4 DEF Settled, Ended
<1>6. Submits(c)
  <2>1. Verdict(c) = "pending"
    BY <1>1, PendingUntilEnded DEF Ended
  <2> QED
    BY <1>1, <1>4, <2>1, ReadsSubmitNothing DEF Submits
<1> QED
  BY <1>1, <1>2, <1>5, <1>6, OneWriteSubmits

\* A cancelled task has not got the lock, and the limiter does not notice.
LEMMA CancelKeepsTheLock ==
  ASSUME LockInv, NEW c \in Calls, Cancel(c)
  PROVE  LockInv'
<1>1. /\ UNCHANGED <<now, hits, log, reading>>
      /\ pc' = [pc EXCEPT ![c] = "raised"]
  BY DEF Cancel, limiterVars
<1> QED
  BY <1>1, IdleLimiter DEF LockInv

-----------------------------------------------------------------------------
(* The asyncio engine *)

\* Attempts and requests stay in step.
LEMMA AsyncNextCounts == AttemptsCounted /\ [AsyncNext]_vars => AttemptsCounted'
<1> SUFFICES ASSUME AttemptsCounted, [AsyncNext]_vars
             PROVE  AttemptsCounted'
  OBVIOUS
<1>1. CASE [Next]_vars
  BY <1>1, NextCounts
<1>2. CASE \E c \in Calls : Cancel(c)
  BY <1>2, CancelCounts
<1> QED
  BY <1>1, <1>2 DEF AsyncNext

\* WithdrawalSentOnce, with cancellation: a cancelled withdrawal is not sent
\* again either (_engine.py:259-286).
THEOREM AsyncWithdrawalsAreSentOnce == AsyncSpec => []WithdrawalSentOnce
<1>1. AttemptsCounted => WithdrawalSentOnce
  BY CountedWithdrawals
<1> QED
  BY <1>1, InitCounts, AsyncNextCounts, PTL DEF AsyncSpec

\* WritesAreSubmissions, with cancellation: a task cancelled while its write is
\* on the wire replays nothing, and what its caller believes stays true
\* (_engine.py:259-286).
THEOREM AsyncWritesAreOnlySubmitted ==
  ASSUME ~ RetryUnsafe
  PROVE  AsyncSpec => WritesAreSubmissions
<1>1. Init => AttemptsCounted /\ WritesSettled /\ Writing!Init
  BY InitCounts, InitSettles
<1>2. AttemptsCounted /\ WritesSettled /\ [AsyncNext]_vars
        => /\ AttemptsCounted' /\ WritesSettled'
           /\ [Writing!Next]_<<executed, [c \in Calls |-> Verdict(c)]>>
  <2> SUFFICES ASSUME AttemptsCounted, WritesSettled, [AsyncNext]_vars
               PROVE  /\ AttemptsCounted' /\ WritesSettled'
                      /\ [Writing!Next]_<<executed, Verdicts>>
    BY DEF Verdicts
  <2>1. AttemptsCounted'
    BY AsyncNextCounts
  <2>2. CallsTyped'
    BY <2>1 DEF AttemptsCounted
  <2>3. CASE [Next]_vars
    BY <2>1, <2>2, <2>3, NextSubmits
  <2>4. CASE \E c \in Calls : Cancel(c)
    BY <2>1, <2>2, <2>4, CancelSubmits
  <2> QED
    BY <2>3, <2>4 DEF AsyncNext
<1> QED
  BY <1>1, <1>2, PTL DEF AsyncSpec, WritesAreSubmissions, Writing!Spec

\* WritesActOnce, with cancellation (_engine.py:259-286).
THEOREM AsyncWritesActOnce ==
  ASSUME ~ RetryUnsafe
  PROVE  AsyncSpec => []HonestVerdicts
<1>1. AsyncSpec => Writing!Spec
  BY AsyncWritesAreOnlySubmitted DEF WritesAreSubmissions
<1> QED
  BY <1>1, SubmissionIsHonest, PTL DEF Writing!Spec

-----------------------------------------------------------------------------
(* Slots, sleeps and types with cancellation *)

\* A cancellation takes no slot and gives none back.
LEMMA CancelIsQuiet ==
  ASSUME WireTyped, CallsTyped, Undecided, NEW c \in Calls, Cancel(c)
  PROVE  Undecided' /\ KindOfStep
<1>1. /\ pc[c] \in {"throttle", "flight", "asleep"} /\ pc'[c] = "raised"
      /\ outcome'[c] = "cancelled"
      /\ \A d \in Calls \ {c} : pc'[d] = pc[d] /\ outcome'[d] = outcome[d]
  BY CancelEnds DEF Escape, CallsTyped
<1>2. UNCHANGED <<now, log, sends, recent, endpoint, reading>>
  BY DEF Cancel, limiterVars, given, sendVars
<1>3. Undecided'
  BY <1>1 DEF Undecided, Ended
<1> QED
  BY <1>1, <1>2, <1>3, QuietEnd DEF KindOfStep

\* A cancellation keeps Typed.
LEMMA CancelTyped ==
  ASSUME Typed, NEW c \in Calls, Cancel(c)
  PROVE  Typed'
<1> USE DEF given, limiterVars
<1>1. WireTyped /\ CallsTyped
  BY DEF Typed, AttemptsCounted
<1>2. /\ wire'[c] = (IF pc[c] = "flight" THEN Nothing ELSE wire[c])
      /\ \A d \in Calls \ {c} : wire'[d] = wire[d]
      /\ Escape(c, "cancelled") /\ pc'[c] = "raised"
      /\ \/ stray' = stray
         \/ stray' = [stray EXCEPT ![c] = @ + 1]
      /\ UNCHANGED <<executed, sends, endpoint>>
  BY <1>1, CancelEnds
<1>3. UNCHANGED <<now, hits, log, keyed, http, observed, answered>>
  BY DEF Cancel
<1>4. \A d \in Calls \ {c} : pc'[d] = pc[d]
  BY <1>1, <1>2 DEF Escape, CallsTyped
<1>5. LockInv'
  BY CancelKeepsTheLock DEF Typed
<1>6. AttemptsCounted'
  BY CancelCounts DEF Typed
<1>7. SettingsTyped'
  BY <1>2, <1>3 DEF Typed, SettingsTyped
<1>8. AnswersTyped'
  BY <1>2, <1>3, <1>4 DEF Typed, AnswersTyped, observed
<1>9. SleepsTyped'
  BY <1>2, <1>3, <1>4 DEF Typed, SleepsTyped, Escape
<1>10. WritesTyped'
  BY <1>2 DEF Typed, WritesTyped
<1> QED
  BY <1>5, <1>6, <1>7, <1>8, <1>9, <1>10 DEF Typed

\* The invariant of the loop holds with cancellation as well.
LEMMA AsyncLoopStep == LoopInv /\ [AsyncNext]_vars => LoopInv'
<1> SUFFICES ASSUME LoopInv, [AsyncNext]_vars
             PROVE  LoopInv'
  OBVIOUS
<1>1. CASE [Next]_vars
  BY <1>1, LoopStep
<1>2. ASSUME NEW c \in Calls, Cancel(c)
      PROVE  LoopInv'
  <2>1. Typed /\ WireTyped /\ CallsTyped /\ Undecided
    BY DEF LoopInv, Typed, AttemptsCounted, SlotsCounted
  <2>2. Typed' /\ CallsTyped'
    BY <1>2, <2>1, CancelTyped DEF Typed, AttemptsCounted
  <2>3. Undecided' /\ KindOfStep
    BY <1>2, <2>1, CancelIsQuiet
  <2> QED
    BY <2>2, <2>3, SlotsCountedStep DEF LoopInv
<1> QED
  BY <1>1, <1>2 DEF AsyncNext

\* TypeOK, with cancellation: a task whose call is cancelled waits on nothing
\* any more (_engine.py:257-288).
THEOREM AsyncCallsAreTyped == AsyncSpec => []TypeOK
BY InitLoop, AsyncLoopStep, LoopTypes, PTL DEF AsyncSpec

\* SleepsAreBounded, with cancellation, under the same condition
\* (_engine.py:240-246, config.py:60-70).
THEOREM AsyncSleepsStayBounded ==
  ASSUME MaxBackoff \in Int
  PROVE  AsyncSpec => []SleepsAreBounded
<1>1. LoopInv => SleepsAreBounded
  BY LoopSleeps
<1> QED
  BY <1>1, InitLoop, AsyncLoopStep, PTL DEF AsyncSpec

\* EveryRequestPaid, with cancellation: nothing awaits between a slot and its
\* request, so a cancelled task wastes no slot (_engine.py:260-272).
THEOREM AsyncEveryRequestIsPaid == AsyncSpec => []EveryRequestPaid
BY InitLoop, AsyncLoopStep, LoopPays, PTL DEF AsyncSpec

\* OverrunIsBounded, with cancellation (_engine.py:240-246 and 260-272).
THEOREM AsyncOverrunStaysBounded == AsyncSpec => []OverrunIsBounded
BY InitLoop, AsyncLoopStep, LoopPays, PTL DEF AsyncSpec

\* GivesUpOnlyAtTheEnd, with cancellation: a cancelled call has given up on
\* nothing, and the others still only at the end or with one of the excuses
\* delay() and asyncio.sleep() give them (_engine.py:259-286).
THEOREM AsyncGivesUpAtTheEnd == AsyncSpec => []GivesUpOnlyAtTheEnd
BY CountedGivesUp, InitCounts, AsyncNextCounts, PTL DEF AsyncSpec

\* What is known of the lock survives cancellations.
LEMMA AsyncLockStep == LockInv /\ [AsyncNext]_vars => LockInv'
<1> SUFFICES ASSUME LockInv, [AsyncNext]_vars PROVE LockInv'
  OBVIOUS
<1>1. CASE [Next]_vars
  BY <1>1, LockStep
<1>2. CASE \E c \in Calls : Cancel(c)
  BY <1>2, CancelKeepsTheLock
<1> QED
  BY <1>1, <1>2 DEF AsyncNext

\* CallersWithinBudget, with cancellation: a task cancelled while it waits for
\* the lock or sleeps leaves no reading of the clock behind (_engine.py:240-246).
THEOREM AsyncCallersStayInBudget == AsyncSpec => []CallersWithinBudget
BY LockedWithinBudget, InitLock, AsyncLockStep, PTL DEF AsyncSpec
=============================================================================
