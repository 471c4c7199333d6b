-------------------------------- MODULE Feed --------------------------------
(***************************************************************************)
(* What a user who keeps iterating over listen() may rely on: messages     *)
(* come in the order in which the server pushed them, each at most once,   *)
(* and one that never comes is lost: there is no replay.  A message is not *)
(* passed over while it can still come.  Connections, reconnects and the   *)
(* requests that share the stream do not show.  Realtime implements this   *)
(* (src/src/pylightningfx/realtime.py).                                    *)
(***************************************************************************)
EXTENDS Integers, SequencesExt, FiniteSetsExt

VARIABLES
  pushed,      \* messages pushed so far, numbered from 1
  delivered,   \* those the user got, in order
  lost         \* those the user will never get

feed == <<pushed, delivered, lost>>

Outstanding == (1 .. pushed) \ (lost \cup ToSet(delivered))

Init == pushed = 0 /\ delivered = <<>> /\ lost = {}

Push == pushed' = pushed + 1 /\ UNCHANGED <<delivered, lost>>

\* A connection goes down with what was under way, or a message is unreadable.
Lose ==
  /\ \E gone \in SUBSET Outstanding : lost' = lost \cup gone
  /\ UNCHANGED <<pushed, delivered>>

Deliver ==
  /\ Outstanding # {}
  /\ delivered' = Append(delivered, Min(Outstanding))
  /\ UNCHANGED <<pushed, lost>>

Next == Push \/ Lose \/ Deliver

Spec == Init /\ [][Next]_feed

\* A message that is not lost is delivered in the end.
FairSpec == Spec /\ WF_feed(Deliver)
=============================================================================
