-------------------------- MODULE AccountSemaphore --------------------------
(***************************************************************************)
(* The hierarchical admission of open-sse/services/accountSemaphore.ts.    *)
(* A request asks for one slot in each of several gates (global, provider, *)
(* account) and gets all of them in one step or none.  The process is a    *)
(* single JavaScript thread: every handler below is one atomic action.     *)
(*                                                                         *)
(* A gate that is not in the Map `gates' (k \notin live) has running 0, an *)
(* empty queue and no block; its max is meaningless.  `blockedUntil' is    *)
(* abstracted to "lies in the future" (k \in blocked); the clock passing   *)
(* it is BlockLapses, and the lazy reset to null in isBlocked is then      *)
(* unobservable.  The                                                      *)
(* insertion-ordered Set `queuedRequests' is the set of waiting requests:  *)
(* the outcome of drainQueues does not depend on its order (DrainIsUnique).*)
(***************************************************************************)
EXTENDS Naturals, Sequences, FiniteSets, WaitQueue

CONSTANTS Keys,          \* gate keys
          AccountKeys,   \* the account gates: the only ones chatCore blocks
          Reqs,          \* caller slots; a slot serves one request at a time
          Requirements,  \* the requirement lists callers pass: key -> limit, 0 = bypassed
          QueueBounds    \* the maxQueueSize values callers pass, 0 = unbounded

ASSUME ConstantsAssumption ==
    /\ IsFiniteSet(Reqs)
    /\ AccountKeys \subseteq Keys
    /\ Requirements \subseteq [Keys -> Nat]
    /\ QueueBounds \subseteq Nat

VARIABLES live,      \* keys present in the Map `gates'
          running,   \* gate.running
          max,       \* gate.maxConcurrency
          queue,     \* gate.queue
          blocked,   \* gates whose blockedUntil lies in the future
          timer,     \* gates whose cleanupTimer is armed
          pc,        \* what became of each caller's request
          keys,      \* request.keys
          missed     \* history: gates that gained room since the last drainQueues

vars == <<live, running, max, queue, blocked, timer, pc, keys, missed>>

PCs == {"idle", "waiting", "holding", "released"}

TypeOK ==
    /\ live \subseteq Keys
    /\ running \in [Keys -> Nat]
    /\ max \in [Keys -> Nat]
    /\ queue \in [Keys -> Seq(Reqs)]
    /\ blocked \subseteq Keys
    /\ timer \subseteq Keys
    /\ pc \in [Reqs -> PCs]
    /\ keys \in [Reqs -> SUBSET Keys]
    /\ missed \subseteq Keys

Init ==
    /\ live = {}
    /\ running = [k \in Keys |-> 0]
    /\ max = [k \in Keys |-> 0]
    /\ queue = [k \in Keys |-> << >>]
    /\ blocked = {}
    /\ timer = {}
    /\ pc = [r \in Reqs |-> "idle"]
    /\ keys = [r \in Reqs |-> {}]
    /\ missed = {}

-----------------------------------------------------------------------------
Waiting(pcs) == {r \in Reqs : pcs[r] = "waiting"}
Needing(G, k, kk) == {r \in G : k \in kk[r]}
Holders(k) == Needing({r \in Reqs : pc[r] = "holding"}, k, keys)

(* Mutant of CanAcquireAll: the isBlocked check is missing.                *)
CanAcquireBlocked(G, run, que, mx, blk, kk) ==
    \A k \in Keys :
        LET n == Cardinality(Needing(G, k, kk))
        IN  n > 0 => /\ run[k] + n <= mx[k]
                     /\ n <= Len(que[k])
                     /\ Needing(G, k, kk) = {que[k][i] : i \in 1..n}

(* Mutant of CanAcquireAll: any waiter may go, not only the head.          *)
CanAcquireAnywhere(G, run, que, mx, blk, kk) ==
    \A k \in Keys :
        LET n == Cardinality(Needing(G, k, kk))
        IN  n > 0 => k \notin blk /\ run[k] + n <= mx[k] /\ n <= Len(que[k])

(* canAcquire for a whole set G of waiting requests, granted one by one:   *)
(* in every gate they are the first waiters and there is room for them.    *)
CanAcquireAll(G, run, que, mx, blk, kk) ==
    \A k \in Keys :
        LET n == Cardinality(Needing(G, k, kk))
        IN  n > 0 => /\ k \notin blk
                     /\ run[k] + n <= mx[k]
                     /\ n <= Len(que[k])
                     /\ Needing(G, k, kk) = {que[k][i] : i \in 1..n}

(* The set of requests drainQueues grants: its loop stops when no further  *)
(* waiting request can acquire.                                            *)
DrainGrants(G, wait, run, que, mx, blk, kk) ==
    /\ CanAcquireAll(G, run, que, mx, blk, kk)
    /\ \A r \in wait \ G : ~CanAcquireAll(G \cup {r}, run, que, mx, blk, kk)

GrantedRunning(G, run, kk) == [k \in Keys |-> run[k] + Cardinality(Needing(G, k, kk))]
GrantedQueue(G, que, kk) ==
    [k \in Keys |-> SubSeq(que[k], Cardinality(Needing(G, k, kk)) + 1, Len(que[k]))]
GrantedPc(G, pcs) == [r \in Reqs |-> IF r \in G THEN "holding" ELSE pcs[r]]

(* drainQueues, from the counts run, queues que and requests pcs that the  *)
(* calling handler left, under the limits, blocks and keys it sets.        *)
DrainQueues(run, que, pcs) ==
    \E G \in SUBSET Waiting(pcs) :
        /\ DrainGrants(G, Waiting(pcs), run, que, max', blocked', keys')
        /\ running' = GrantedRunning(G, run, keys')
        /\ queue' = GrantedQueue(G, que, keys')
        /\ pc' = GrantedPc(G, pcs)
        /\ missed' = {}

(* Gates whose cleanup removeRequest schedules while drainQueues grants.   *)
DrainTimers(run, que) ==
    {k \in Keys : run[k] = 0 /\ Len(que[k]) = 1 /\ running'[k] = 1}

IdleGates(run, que) == {k \in Keys : run[k] = 0 /\ que[k] = << >>}

-----------------------------------------------------------------------------
(* Mutant of ImmediateOK: the queue is ignored.                            *)
ImmediateBarging(ks, mx) ==
    \A k \in ks : running[k] < mx[k] /\ k \notin blocked

(* The gates acquireMany takes at once: free, unqueued and unblocked.      *)
ImmediateOK(ks, mx) ==
    \A k \in ks : queue[k] = << >> /\ running[k] < mx[k] /\ k \notin blocked

(* findQueueRejection.                                                     *)
QueueRejects(ks, bound, failFast) ==
    \/ failFast
    \/ bound > 0 /\ \E k \in ks : Len(queue[k]) >= bound

(* acquireMany, with limits req (0 bypasses a gate).  A rejected call has  *)
(* still created its gates, changed their limits and disarmed their        *)
(* cleanup.  A call whose signal is already aborted changes nothing.       *)
AcquireMany(r, req, bound, failFast) ==
    LET ks == {k \in Keys : req[k] > 0}
        mx == [k \in Keys |-> IF k \in ks THEN req[k] ELSE max[k]]
    IN  /\ pc[r] \in {"idle", "released"}
        /\ live' = live \cup ks
        /\ max' = mx
        /\ keys' = [keys EXCEPT ![r] = ks]
        /\ UNCHANGED blocked
        /\ \/ /\ ImmediateOK(ks, mx)
              /\ running' = [k \in Keys |-> IF k \in ks THEN running[k] + 1 ELSE running[k]]
              /\ pc' = [pc EXCEPT ![r] = "holding"]
              /\ timer' = timer \ ks
              /\ UNCHANGED <<queue, missed>>
           \/ /\ ~ImmediateOK(ks, mx)
              /\ QueueRejects(ks, bound, failFast)
              /\ pc' = [pc EXCEPT ![r] = "idle"]
              /\ timer' = timer \ ks
              /\ missed' = missed \cup {k \in ks : queue[k] # << >> /\ mx[k] > max[k]}
              /\ UNCHANGED <<running, queue>>
           \/ /\ ~ImmediateOK(ks, mx)
              /\ ~QueueRejects(ks, bound, failFast)
              /\ LET que == [k \in Keys |->
                             IF k \in ks THEN Append(queue[k], r) ELSE queue[k]]
                 IN  /\ DrainQueues(running, que, [pc EXCEPT ![r] = "waiting"])
                     /\ timer' = (timer \ ks) \cup DrainTimers(running, que)

(* Mutants of Release: no `released' flag and no check for a zero count;   *)
(* no `released' flag; the count check off by one; no drain.               *)
ReleaseUnchecked(r) ==
    /\ pc[r] \in {"holding", "released"}
    /\ running' = [k \in Keys |-> IF k \in keys[r] THEN running[k] - 1 ELSE running[k]]
    /\ pc' = [pc EXCEPT ![r] = "released"]
    /\ UNCHANGED <<live, max, keys, blocked, queue, timer, missed>>
ReleaseTwice(r) ==
    /\ pc[r] \in {"holding", "released"}
    /\ UNCHANGED <<live, max, keys, blocked, timer>>
    /\ DrainQueues([k \in Keys |->
           IF k \in keys[r] /\ running[k] > 0 THEN running[k] - 1 ELSE running[k]],
                   queue, [pc EXCEPT ![r] = "released"])
ReleaseOffByOne(r) ==
    /\ pc[r] = "holding"
    /\ UNCHANGED <<live, max, keys, blocked, timer>>
    /\ DrainQueues([k \in Keys |->
           IF k \in keys[r] /\ running[k] > 1 THEN running[k] - 1 ELSE running[k]],
                   queue, [pc EXCEPT ![r] = "released"])
ReleaseNoDrain(r) ==
    /\ pc[r] = "holding"
    /\ running' = [k \in Keys |-> IF k \in keys[r] THEN running[k] - 1 ELSE running[k]]
    /\ pc' = [pc EXCEPT ![r] = "released"]
    /\ UNCHANGED <<live, max, keys, blocked, queue, timer, missed>>

(* The composite release function: a second call does nothing.             *)
Release(r) ==
    \/ /\ pc[r] = "released"
       /\ UNCHANGED vars
    \/ /\ pc[r] = "holding"
       /\ UNCHANGED <<live, max, keys, blocked>>
       /\ LET run == [k \in Keys |->
                  IF k \in keys[r] /\ running[k] > 0 THEN running[k] - 1 ELSE running[k]]
          IN  /\ DrainQueues(run, queue, [pc EXCEPT ![r] = "released"])
              /\ timer' = timer \cup DrainTimers(run, queue)
                          \cup (keys[r] \cap live \cap IdleGates(running', queue'))

(* Mutants of GiveUp: the gate queues keep the request; no drain.          *)
GiveUpStaysQueued(r) ==
    /\ pc[r] = "waiting"
    /\ pc' = [pc EXCEPT ![r] = "idle"]
    /\ UNCHANGED <<live, running, max, keys, blocked, queue, timer, missed>>
GiveUpNoDrain(r) ==
    /\ pc[r] = "waiting"
    /\ queue' = [k \in Keys |-> IF k \in keys[r] THEN Without(queue[k], r) ELSE queue[k]]
    /\ pc' = [pc EXCEPT ![r] = "idle"]
    /\ UNCHANGED <<live, running, max, keys, blocked, timer, missed>>

(* removeRequest and the drain that follows it, on timeout or abort.       *)
GiveUp(r) ==
    LET que == [k \in Keys |-> IF k \in keys[r] THEN Without(queue[k], r) ELSE queue[k]]
    IN  /\ pc[r] = "waiting"
        /\ UNCHANGED <<live, max, keys, blocked>>
        /\ DrainQueues(running, que, [pc EXCEPT ![r] = "idle"])
        /\ timer' = timer \cup (keys[r] \cap live \cap IdleGates(running, que))
                    \cup DrainTimers(running, que)

WaitTimeout(r) == GiveUp(r)
Abort(r) == GiveUp(r)

(* markBlocked: creates the gate with limit 1 when there is none.          *)
MarkBlocked(k) ==
    /\ live' = live \cup {k}
    /\ max' = [max EXCEPT ![k] = IF k \in live THEN @ ELSE 1]
    /\ timer' = timer \ {k}
    /\ blocked' = blocked \cup {k}
    /\ UNCHANGED <<running, queue, pc, keys, missed>>

(* The clock reaches blockedUntil: nothing in the code wakes up on it.     *)
BlockLapses(k) ==
    /\ k \in blocked
    /\ blocked' = blocked \ {k}
    /\ missed' = missed \cup {j \in {k} : queue[j] # << >>}
    /\ UNCHANGED <<live, running, max, queue, timer, pc, keys>>

(* unblock: drain, then cleanupGateIfIdle at once.                         *)
Unblock(k) ==
    /\ k \in live
    /\ blocked' = blocked \ {k}
    /\ UNCHANGED <<max, keys>>
    /\ DrainQueues(running, queue, pc)
    /\ LET idle == {k} \cap IdleGates(running', queue')
       IN  /\ live' = live \ idle
           /\ timer' = (timer \cup DrainTimers(running, queue)) \ idle

(* The cleanup timer of scheduleCleanup fires: cleanupGateIfIdle.          *)
CleanupTimer(k) ==
    /\ k \in timer
    /\ timer' = timer \ {k}
    /\ live' = live \ ({k} \cap (IdleGates(running, queue) \ blocked))
    /\ UNCHANGED <<running, max, queue, blocked, pc, keys, missed>>

Next ==
    \/ \E r \in Reqs :
          \/ \E req \in Requirements, b \in QueueBounds, ff \in BOOLEAN :
                AcquireMany(r, req, b, ff)
          \/ Release(r)
          \/ WaitTimeout(r)
          \/ Abort(r)
    \/ \E k \in AccountKeys : MarkBlocked(k) \/ BlockLapses(k) \/ Unblock(k)
    \/ \E k \in Keys : CleanupTimer(k)

Spec == Init /\ [][Next]_vars

(* chatCore releases in every outcome of the request (a finally block, or  *)
(* the end of the stream), so a holder releases eventually.  Here no       *)
(* timeout is relied on to end a wait.                                     *)
ServiceSpec == Spec /\ \A r \in Reqs : WF_vars(Release(r))

-----------------------------------------------------------------------------
(* Every gate counts exactly the requests that hold a slot in it: a        *)
(* waiting request occupies no gate ("Waiting never increments any gate"), *)
(* a slot is given back exactly once, and none leaks when the wait ends by *)
(* timeout or abort or when the gate is cleaned up and created again.      *)
GatesCountHolders ==
    \A k \in Keys : running[k] = Cardinality(Holders(k))

(* The queues of the gates and the requests agree: a waiting request       *)
(* stands exactly once in the queue of every gate it needs, and nobody     *)
(* else stands there (removeRequest leaves nothing behind).                *)
QueuesHoldWaiters ==
    \A k \in Keys :
        /\ RangeOf(queue[k]) = Needing(Waiting(pc), k, keys)
        /\ NoDup(queue[k])

(* The Map never loses a gate that a waiting or running request still      *)
(* uses, whatever cleanup timers were armed before the request came.       *)
UsedGatesStay ==
    \A r \in Reqs : pc[r] \in {"waiting", "holding"} => keys[r] \subseteq live

(* Nobody gets lost between request and gate: queues and waiting requests  *)
(* agree, and the gates they stand in or run in are still in the Map, so   *)
(* that the release or the drain that is to come finds them.               *)
NobodyLost == QueuesHoldWaiters /\ UsedGatesStay

(* The only waiters drainQueues leaves standing although they could be     *)
(* admitted are those behind a gate that gained room with no drain: its    *)
(* block lapsed, or a rejected call raised its limit.                      *)
OnlyMissedRoomStrands ==
    \A r \in Waiting(pc) :
        CanAcquireAll({r}, running, queue, max, blocked, keys) => keys[r] \cap missed # {}

(* drainQueues has one possible outcome in every state, whatever order the *)
(* Set queuedRequests iterates in: exactly one set of waiting requests is  *)
(* granted, so leaving the order out of the model loses nothing.           *)
DrainIsUnique ==
    \E G \in SUBSET Waiting(pc) :
        \A H \in SUBSET Waiting(pc) :
            DrainGrants(H, Waiting(pc), running, queue, max, blocked, keys) <=> H = G

(* Whatever limits the callers pass over time, the requests running in a   *)
(* gate never exceed the largest limit any of them configures for it.      *)
HoldersWithinConfiguredLimit ==
    \A k \in Keys : Holders(k) # {} =>
        \E req \in Requirements : Cardinality(Holders(k)) <= req[k]

(* Every request that is admitted, at once, by a drain or with the slot    *)
(* that a release hands on, finds each of its gates within the limit then  *)
(* in force and not blocked.                                               *)
AdmissionWithinLimit ==
    [][\A r \in Reqs : pc[r] # "holding" /\ pc'[r] = "holding" =>
          \A k \in keys'[r] : running'[k] <= max'[k] /\ k \notin blocked']_vars

(* FIFO: a request is admitted only when everyone ahead of it in the       *)
(* queues of its gates has left them.                                      *)
NoOvertaking ==
    [][\A r \in Reqs : pc[r] # "holding" /\ pc'[r] = "holding" =>
          \A k \in keys'[r] : \A i \in 1..Len(queue[k]) :
              (\A j \in 1..i : queue[k][j] # r) =>
                  queue[k][i] \notin {queue'[k][j] : j \in 1..Len(queue'[k])}]_vars

(* Nobody waits for ever, even if no timeout ever fires: once blocks have  *)
(* ended, and as long as drains come to the gates that gained room without *)
(* one, every release passes its slots on in FIFO order, so there is no    *)
(* deadlock between gates and no starvation by newcomers.                  *)
WaitEnds ==
    <>[](blocked = {}) /\ []<>(missed = {})
        => \A r \in Reqs : pc[r] = "waiting" ~> pc[r] # "waiting"
=============================================================================
