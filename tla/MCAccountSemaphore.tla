------------------------- MODULE MCAccountSemaphore -------------------------
(* Model-checking instance of AccountSemaphore: one global gate above two  *)
(* account gates, callers that need the global gate and one account, or    *)
(* one account only, and callers that disagree on the global limit.        *)
EXTENDS AccountSemaphore, TLC

CONSTANTS g, a, b, r1, r2, r3

MCKeys == {g, a, b}
MCReqs == {r1, r2, r3}

Limits(x, y, z) == (g :> x) @@ (a :> y) @@ (b :> z)
MCRequirements == {Limits(2, 1, 0), Limits(1, 0, 1), Limits(0, 1, 0)}

=============================================================================
