----------------------- MODULE MCAccountSemaphoreReset -----------------------
(* Instance of AccountSemaphoreReset: a global gate of two slots above one *)
(* account gate of one slot.                                               *)
EXTENDS AccountSemaphoreReset, TLC

CONSTANTS g, a, r1, r2, r3

MCKeys == {g, a}
MCReqs == {r1, r2, r3}
MCRequirements == {(g :> 2) @@ (a :> 1), (g :> 0) @@ (a :> 1), (g :> 2) @@ (a :> 0)}
Symmetry == Permutations(MCReqs)
=============================================================================
