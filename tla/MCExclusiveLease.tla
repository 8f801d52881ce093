-------------------------- MODULE MCExclusiveLease --------------------------
(* Model-checking instance of ExclusiveLease.                              *)
EXTENDS ExclusiveLease, TLC

CONSTANTS o1, o2, k1, k2, c1, c2, r1, r2

Symmetry == Permutations({o1, o2}) \cup Permutations({c1, c2}) \cup Permutations({k1, k2})
                \cup Permutations({r1, r2})
=============================================================================
