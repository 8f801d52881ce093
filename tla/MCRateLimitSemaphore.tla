------------------------ MODULE MCRateLimitSemaphore ------------------------
(* Model-checking instance of RateLimitSemaphore.                          *)
EXTENDS RateLimitSemaphore

CONSTANTS r1, r2, r3, r4, t1, t2
=============================================================================
