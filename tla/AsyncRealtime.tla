----------------------------- MODULE AsyncRealtime -----------------------------
(***************************************************************************)
(* AsyncRealtimeClient of src/src/pylightningfx/realtime.py.  Its methods  *)
(* are those of the sync client with an await at every read, send, sleep   *)
(* and handshake, so the task can also be cancelled there: by a timeout    *)
(* around anext(), for one.  A request that was sent is then answered when *)
(* nobody waits for the answer any more.                                   *)
(***************************************************************************)
EXTENDS Realtime

\* Where the methods await.
Awaiting ==
  \/ at \in {"opening", "calling", "backoff"}
  \/ Reading /\ ws # "none"

\* MUTANT of Cancel: the frame that was being read is gone.
CancelLosing ==
  /\ Awaiting /\ calls < MaxCalls
  /\ calls' = calls + 1
  /\ inbox' = IF inbox = <<>> THEN inbox ELSE Tail(inbox)
  /\ Return("cancelled")
  /\ UNCHANGED <<ws, outbox, knows, serves, state, reconnect, pushed, delivered,
                 lost, confirmed, faults>>

\* CancelledError at an await: no except clause of these methods takes it, so it
\* ends the method, or the generator, as any other exception does.
Cancel ==
  /\ Awaiting /\ calls < MaxCalls
  /\ calls' = calls + 1
  /\ Return("cancelled")
  /\ UNCHANGED <<connection, state, reconnect, pushed, delivered, lost,
                 confirmed, faults>>

AsyncNext == Next \/ Cancel

AsyncSpec == Init /\ [][AsyncNext]_vars
=============================================================================
