---------------------------- MODULE MCRateLimiter ----------------------------
(* Bounds for model-checking RateLimiter: the clock starts at 0 and stops   *)
(* at MaxTime, and at most MaxGrants requests are granted.                  *)
EXTENDS RateLimiter

CONSTANTS MaxTime, MaxGrants

-----------------------------------------------------------------------------
MCInit == now = 0 /\ Init

MCTick == now < MaxTime /\ Tick

MCReserve(isOrder) == Len(log["general"]) < MaxGrants /\ Reserve(isOrder)

MCNext == MCTick \/ \E isOrder \in BOOLEAN : MCReserve(isOrder)

MCSpec == MCInit /\ [][MCNext]_vars
=============================================================================
