---------------------------- MODULE MCRequestLoop ----------------------------
(* Instances of RequestLoop for TLC: the clock starts at 0.  MaxIdle and the *)
(* number of calls and attempts bound the rest.                              *)
EXTENDS RequestLoop, TLC

MCInit == now = 0 /\ Init
MCSpec == MCInit /\ [][Next]_vars

MCFairSpec == MCSpec /\ Fairness

Callers == Permutations(Calls)
=============================================================================
