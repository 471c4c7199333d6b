-------------------------- MODULE AsyncRequestLoop --------------------------
(***************************************************************************)
(* AsyncEngine of src/src/pylightningfx/_engine.py: the request loop run   *)
(* by asyncio tasks, each of which its owner may cancel wherever the loop  *)
(* awaits: for the lock or in a sleep of _throttle, in a backoff sleep, or *)
(* for the answer.  Between the reservation and http.send nothing awaits.  *)
(***************************************************************************)
EXTENDS RequestLoop

\* MUTANT of Cancel: there is an await between the slot and the request.
CancelAnywhere(c) ==
  /\ pc[c] \in {"throttle", "granted", "flight", "asleep"}
  /\ IF pc[c] = "flight" THEN Abandon(c) ELSE UNCHANGED <<wire, stray>>
  /\ pc' = [pc EXCEPT ![c] = "raised"]
  /\ outcome' = [outcome EXCEPT ![c] = "cancelled"]
  /\ UNCHANGED <<limiterVars, given, http, observed, attempt, wake, reading, executed,
                 answered, sendVars, idle>>

\* MUTANT of Cancel: `except BaseException` swallows it and retries.
CancelRetries(c) ==
  /\ pc[c] = "flight" /\ attempt[c] < AttemptsOf(c)
  /\ Abandon(c)
  /\ pc' = [pc EXCEPT ![c] = "throttle"]
  /\ attempt' = [attempt EXCEPT ![c] = @ + 1]
  /\ UNCHANGED <<limiterVars, given, http, observed, outcome, wake, reading, executed,
                 answered, sendVars, idle>>

\* CancelledError surfaces at an await of _throttle or _request; whatever is
\* on the wire is abandoned and a slot already taken stays taken.
Cancel(c) ==
  /\ pc[c] \in {"throttle", "flight", "asleep"}
  /\ IF pc[c] = "flight" THEN Abandon(c) ELSE UNCHANGED <<wire, stray>>
  /\ pc' = [pc EXCEPT ![c] = "raised"]
  /\ outcome' = [outcome EXCEPT ![c] = "cancelled"]
  /\ UNCHANGED <<limiterVars, given, http, observed, attempt, wake, reading, executed,
                 answered, sendVars, idle>>

AsyncNext == Next \/ \E c \in Calls : Cancel(c)

AsyncSpec == Init /\ [][AsyncNext]_vars
=============================================================================
