------------------------------ MODULE MCRealtime ------------------------------
(* Instances of Realtime for TLC. *)
EXTENDS Realtime
=============================================================================
