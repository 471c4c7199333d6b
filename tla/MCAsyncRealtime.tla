---------------------------- MODULE MCAsyncRealtime ----------------------------
(* Instances of AsyncRealtime for TLC. *)
EXTENDS AsyncRealtime
=============================================================================
