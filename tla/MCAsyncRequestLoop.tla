-------------------------- MODULE MCAsyncRequestLoop --------------------------
(* AsyncRequestLoop for TLC, with the clock started at 0. *)
EXTENDS AsyncRequestLoop, TLC

MCInit == now = 0 /\ Init
MCAsyncSpec == MCInit /\ [][AsyncNext]_vars

Callers == Permutations(Calls)
=============================================================================
