-------------------------- MODULE MCCircuitBreaker --------------------------
(* Model-checking instance of CircuitBreaker: one failure kind with a      *)
(* longer cooldown and, as in every caller, no thresholds per kind.        *)
EXTENDS CircuitBreaker

CONSTANTS c1, c2, c3, c4, quota

QuotaCooldown == [k \in {quota} |-> 3]
NoThreshold == [k \in {} |-> 1]
=============================================================================
