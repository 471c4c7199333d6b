----------------------------- MODULE Submission -----------------------------
(***************************************************************************)
(* What a caller may believe about a write (an order, a withdrawal) sent   *)
(* through the client under the default policy: the exchange acts on it at *)
(* most once; "accepted" means it did; "rejected" means it never will;     *)
(* anything else leaves the outcome open and the caller has to reconcile.  *)
(***************************************************************************)
EXTENDS Integers

CONSTANT Calls   \* the writes

VARIABLES
  executed,   \* executed[c]: how often the exchange has acted on c
  verdict     \* verdict[c]: what the client told its caller

Init ==
  /\ executed = [c \in Calls |-> 0]
  /\ verdict = [c \in Calls |-> "pending"]

\* The exchange acts: once, and not on something reported as rejected.  It
\* may still act after the client has given up.
Execute(c) ==
  /\ executed[c] = 0
  /\ executed' = [executed EXCEPT ![c] = 1]
  /\ verdict[c] \in {"pending", "unknown"}
  /\ verdict' = verdict

Tell(c, told) ==
  /\ verdict[c] = "pending"
  /\ verdict' = [verdict EXCEPT ![c] = told]
  /\ executed' = executed

Accept(c) == executed[c] = 1 /\ Tell(c, "accepted")

Reject(c) == executed[c] = 0 /\ Tell(c, "rejected")

\* The client reports a failure that settles nothing.
GiveUp(c) == Tell(c, "unknown")

Next == \E c \in Calls : Execute(c) \/ Accept(c) \/ Reject(c) \/ GiveUp(c)

Spec == Init /\ [][Next]_<<executed, verdict>>
=============================================================================
