------------------------ MODULE AccountSemaphoreReset ------------------------
(* AccountSemaphore together with the operator's reset: the admin route    *)
(* POST /api/admin/concurrency?action=reset-semaphores calls resetAll, and *)
(* reset(key) is its single-gate form.  Waiters are rejected and the gates *)
(* dropped, while requests that already run keep their release functions.  *)
EXTENDS AccountSemaphore

VARIABLE strays    \* keys with a cleanup timer left over from a gate reset(key) dropped

rvars == <<vars, strays>>

ResetAll ==
    /\ live' = {}
    /\ running' = [k \in Keys |-> 0]
    /\ queue' = [k \in Keys |-> << >>]
    /\ blocked' = {}
    /\ timer' = {}
    /\ pc' = [r \in Reqs |-> IF pc[r] = "waiting" THEN "idle" ELSE pc[r]]
    /\ missed' = {}
    /\ UNCHANGED <<max, keys>>
    /\ UNCHANGED strays

(* reset(key): removeRequest may arm the cleanup timer of the very gate    *)
(* that is dropped next; that timer still fires, on whatever gate has the  *)
(* key by then.                                                            *)
Reset(k) ==
    LET out == {r \in Waiting(pc) : k \in keys[r]}
        que == [j \in Keys |-> WithoutAll(queue[j], out)]
        run == [running EXCEPT ![k] = 0]
        armed == (UNION {keys[r] : r \in out}) \cap live \cap IdleGates(running, que)
    IN  /\ k \in live
        /\ blocked' = blocked \ {k}
        /\ live' = live \ {k}
        /\ UNCHANGED <<max, keys>>
        /\ DrainQueues(run, que, [r \in Reqs |-> IF r \in out THEN "idle" ELSE pc[r]])
        /\ timer' = (timer \cup armed \cup DrainTimers(run, que)) \ {k}
        /\ strays' = strays \cup (armed \cap {k})

(* Mutant of StrayTimer: the gate now at the key is dropped unchecked.     *)
StrayTimerUnchecked(k) ==
    /\ k \in strays
    /\ strays' = strays \ {k}
    /\ live' = live \ {k}
    /\ timer' = timer \ {k}
    /\ UNCHANGED <<running, max, queue, blocked, pc, keys, missed>>

StrayTimer(k) ==
    LET dropped == {k} \cap (IdleGates(running, queue) \ blocked)
    IN  /\ k \in strays
        /\ strays' = strays \ {k}
        /\ live' = live \ dropped
        /\ timer' = timer \ dropped
        /\ UNCHANGED <<running, max, queue, blocked, pc, keys, missed>>

RNext ==
    \/ Next /\ UNCHANGED strays
    \/ ResetAll
    \/ \E k \in Keys : Reset(k) \/ StrayTimer(k)

RSpec == Init /\ strays = {} /\ [][RNext]_rvars

(* What survives a reset, although requests admitted before it release     *)
(* into gates created since: a gate never counts more requests than run in *)
(* it, so no reset leaves a gate full with nobody in it.                   *)
NoPhantomPermits ==
    \A k \in Keys : running[k] <= Cardinality(Holders(k))

(* No reset, and no cleanup timer a reset leaves behind, takes a gate away *)
(* from a request that waits in it: its wait could never end in a grant.   *)
ResetKeepsWaitedGates ==
    \A r \in Waiting(pc) : keys[r] \subseteq live
=============================================================================
