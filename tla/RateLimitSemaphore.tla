------------------------- MODULE RateLimitSemaphore -------------------------
(***************************************************************************)
(* One model's gate of open-sse/services/rateLimitSemaphore.ts, with the   *)
(* requests that contend for it.  Gates of different models share nothing. *)
(* The process is a single JavaScript thread: a handler is one action.     *)
(*                                                                         *)
(* rateLimitedUntil is null ("no"), in the future ("yes") or passed and    *)
(* not yet reset to null ("past"): the last two differ because the timer   *)
(* of markRateLimited drains the queue only when it finds a value it can   *)
(* reset, and an acquire may have reset it first.                          *)
(* A gate that is not in the Map has running 0, an empty queue and no      *)
(* cooldown.  A timer keeps the gate object it was started for: it is a    *)
(* "stray" once that object has been removed from the Map.                 *)
(***************************************************************************)
EXTENDS Naturals, Sequences, FiniteSets, WaitQueue

CONSTANTS Reqs,         \* caller slots; a slot serves one request at a time
          Limits,       \* the maxConcurrency values callers pass
          QueueBounds,  \* the maxQueueSize values callers pass
          Unbounded,    \* the maxQueueSize of a caller that passes none
          Timers,       \* bound: markRateLimited timers pending at one time
          NoTimer       \* no cooldown was marked yet

ASSUME RateLimitAssumption ==
    /\ IsFiniteSet(Reqs)
    /\ Limits \subseteq Nat \ {0}
    /\ QueueBounds \subseteq Nat \cup {Unbounded}
    /\ Unbounded \notin Nat
    /\ NoTimer \notin Timers

VARIABLES exists,   \* the gate is in the Map `gates'
          running,  \* gate.running
          max,      \* gate.max
          queue,    \* gate.queue
          limited,  \* gate.rateLimitedUntil
          timers,   \* the setTimeout calls of markRateLimited
          latest,   \* the timer of the last markRateLimited
          cooling,  \* the clock has not reached the end of the last cooldown
          pc        \* what became of each caller's request

gate == <<exists, running, max, queue, limited, timers, pc>>
vars == <<gate, latest, cooling>>

TypeOK ==
    /\ exists \in BOOLEAN
    /\ running \in Nat
    /\ max \in Nat
    /\ queue \in Seq(Reqs)
    /\ limited \in {"no", "yes", "past"}
    /\ timers \in [Timers -> {"off", "own", "stray"}]
    /\ latest \in Timers \cup {NoTimer}
    /\ cooling \in BOOLEAN
    /\ pc \in [Reqs -> {"idle", "waiting", "holding", "released"}]

Init ==
    /\ exists = FALSE
    /\ running = 0
    /\ max = 0
    /\ queue = << >>
    /\ limited = "no"
    /\ timers = [t \in Timers |-> "off"]
    /\ latest = NoTimer
    /\ cooling = FALSE
    /\ pc = [r \in Reqs |-> "idle"]

Holders == {r \in Reqs : pc[r] = "holding"}
Waiters == {r \in Reqs : pc[r] = "waiting"}

-----------------------------------------------------------------------------
(* gates.delete: the gate's timers keep an object nobody else reaches.     *)
(* They still act on the model's new gate if that object has a cooldown to *)
(* reset (lim).                                                            *)
DeleteGate(lim, tim) ==
    /\ exists' = FALSE
    /\ limited' = "no"
    /\ timers' = [t \in Timers |-> IF tim[t] = "own" /\ lim = "no" THEN "off"
                                   ELSE IF tim[t] = "own" THEN "stray" ELSE tim[t]]

KeepGate(lim, tim) == exists' = TRUE /\ limited' = lim /\ timers' = tim

(* Mutant of DrainCount: the cooldown is not checked.                      *)
DrainCountInCooldown(run, que, lim) ==
    IF run >= max' THEN 0
    ELSE IF Len(que) <= max' - run THEN Len(que) ELSE max' - run

(* The number of waiters drainQueue resolves.                              *)
DrainCount(run, que, lim) ==
    IF lim = "yes" \/ run >= max' THEN 0
    ELSE IF Len(que) <= max' - run THEN Len(que) ELSE max' - run

(* drainQueue, on the gate that the calling handler left; it resets a      *)
(* cooldown that has passed when it has somebody to admit.                 *)
DrainQueue(run, que, lim, tim, pcs) ==
    LET n == DrainCount(run, que, lim)
        left == IF n > 0 THEN "no" ELSE lim
    IN  /\ running' = run + n
        /\ queue' = SubSeq(que, n + 1, Len(que))
        /\ pc' = [r \in Reqs |-> IF \E i \in 1..n : que[i] = r THEN "holding" ELSE pcs[r]]
        /\ IF running' = 0 /\ queue' = << >> THEN DeleteGate(left, tim)
                                             ELSE KeepGate(left, tim)

-----------------------------------------------------------------------------
QueueFull(bound) == bound # Unbounded /\ Len(queue) >= bound

(* acquire: at once when a slot is free, whoever waits; else rejected when *)
(* the queue is full; else queued.  getGate has set the limit in any case. *)
Acquire(r, m, bound) ==
    /\ pc[r] \in {"idle", "released"}
    /\ UNCHANGED <<latest, cooling>>
    /\ max' = m
    /\ \/ /\ running < m /\ limited # "yes"
          /\ running' = running + 1
          /\ pc' = [pc EXCEPT ![r] = "holding"]
          /\ KeepGate("no", timers)
          /\ UNCHANGED queue
       \/ /\ running >= m \/ limited = "yes"
          /\ QueueFull(bound)
          /\ pc' = [pc EXCEPT ![r] = "idle"]
          /\ IF running = 0 /\ queue = << >> THEN DeleteGate(limited, timers)
                                             ELSE KeepGate(limited, timers)
          /\ UNCHANGED <<running, queue>>
       \/ /\ running >= m \/ limited = "yes"
          /\ ~QueueFull(bound)
          /\ queue' = Append(queue, r)
          /\ pc' = [pc EXCEPT ![r] = "waiting"]
          /\ KeepGate(limited, timers)
          /\ UNCHANGED running

(* Mutants of Release: no `released' flag; nothing is drained.             *)
ReleaseUnchecked(r) ==
    /\ pc[r] \in {"holding", "released"}
    /\ running' = running - 1
    /\ pc' = [pc EXCEPT ![r] = "released"]
    /\ UNCHANGED <<exists, max, queue, limited, timers, latest, cooling>>
ReleaseNoDrain(r) ==
    /\ pc[r] = "holding"
    /\ running' = running - 1
    /\ pc' = [pc EXCEPT ![r] = "released"]
    /\ UNCHANGED <<exists, max, queue, limited, timers, latest, cooling>>

(* The release function: the second call does nothing, and the last        *)
(* request to leave takes the gate, its cooldown included, with it.        *)
Release(r) ==
    \/ /\ pc[r] = "released"
       /\ UNCHANGED vars
    \/ /\ pc[r] = "holding" /\ running > 0
       /\ UNCHANGED <<max, latest, cooling>>
       /\ DrainQueue(running - 1, queue, limited, timers, [pc EXCEPT ![r] = "released"])

(* Mutant of WaitTimeout: the request stays in the queue.                  *)
WaitTimeoutStaysQueued(r) ==
    /\ pc[r] = "waiting"
    /\ pc' = [pc EXCEPT ![r] = "idle"]
    /\ UNCHANGED <<exists, running, max, queue, limited, timers, latest, cooling>>

(* The timer of a waiting request: it leaves the queue and drains nothing. *)
WaitTimeout(r) ==
    /\ pc[r] = "waiting"
    /\ queue' = Without(queue, r)
    /\ pc' = [pc EXCEPT ![r] = "idle"]
    /\ UNCHANGED <<exists, running, max, limited, timers, latest, cooling>>

(* markRateLimited, which only a request that holds a slot calls: the gate *)
(* exists, and getGate writes its own limit back.                          *)
MarkRateLimited(r, t) ==
    /\ pc[r] = "holding"
    /\ timers[t] = "off"
    /\ timers' = [timers EXCEPT ![t] = "own"]
    /\ latest' = t
    /\ cooling' = TRUE
    /\ limited' = "yes"
    /\ UNCHANGED <<exists, running, max, queue, pc>>

(* The clock reaches the end of the last cooldown marked.                  *)
CooldownElapses ==
    /\ cooling
    /\ cooling' = FALSE
    /\ limited' = IF limited = "yes" THEN "past" ELSE limited
    /\ UNCHANGED <<exists, running, max, queue, timers, latest, pc>>

(* Mutant of CooldownTimer: it resets the cooldown and drains nothing.     *)
CooldownTimerNoDrain(t) ==
    /\ timers[t] = "own"
    /\ t = latest => ~cooling
    /\ timers' = [timers EXCEPT ![t] = "off"]
    /\ limited' = IF limited = "past" THEN "no" ELSE limited
    /\ UNCHANGED <<exists, running, max, queue, pc, latest, cooling>>

(* The timer of a cooldown fires.  It drains when it finds a cooldown that *)
(* has passed; one that was superseded, or that an acquire has reset,      *)
(* makes it do nothing.  The last one comes 50 ms after the cooldown.      *)
CooldownTimer(t) ==
    /\ timers[t] = "own"
    /\ t = latest => ~cooling
    /\ UNCHANGED <<max, latest, cooling>>
    /\ LET tim == [timers EXCEPT ![t] = "off"]
       IN  IF limited = "past"
           THEN DrainQueue(running, queue, "no", tim, pc)
           ELSE timers' = tim /\ UNCHANGED <<exists, running, queue, limited, pc>>

(* The timer of a deleted gate fires: it resets the cooldown of the old    *)
(* gate, unless that was done or extended, and drains the model's new one. *)
StrayTimer(t) ==
    /\ timers[t] = "stray"
    /\ t = latest => ~cooling
    /\ UNCHANGED <<max, latest, cooling>>
    /\ LET tim == [timers EXCEPT ![t] = "off"]
       IN  \/ exists /\ DrainQueue(running, queue, limited, tim, pc)
           \/ timers' = tim /\ UNCHANGED <<exists, running, queue, limited, pc>>

Next ==
    \/ \E r \in Reqs :
          \/ \E m \in Limits, b \in QueueBounds : Acquire(r, m, b)
          \/ Release(r)
          \/ WaitTimeout(r)
          \/ \E t \in Timers : MarkRateLimited(r, t)
    \/ CooldownElapses
    \/ \E t \in Timers : CooldownTimer(t) \/ StrayTimer(t)

Spec == Init /\ [][Next]_vars

(* The callers release in a finally block; the clock advances; setTimeout  *)
(* runs its callback.  No wait is relied on to time out.                   *)
ServiceSpec ==
    /\ Spec
    /\ \A r \in Reqs : WF_vars(Release(r))
    /\ WF_vars(CooldownElapses)
    /\ \A t \in Timers : WF_vars(CooldownTimer(t))

-----------------------------------------------------------------------------
(* The gate counts exactly the requests that hold a slot, through every    *)
(* deletion and re-creation of the gate: a slot is given back once, to the *)
(* gate it was taken from.                                                 *)
RunningCountsHolders == running = Cardinality(Holders)

(* A waiting request stands exactly once in the queue of the gate that is  *)
(* in the Map, and nobody else does: no deletion orphans a waiter.         *)
QueueHoldsWaiters ==
    /\ RangeOf(queue) = Waiters
    /\ NoDup(queue)
    /\ Holders \cup Waiters # {} => exists

(* The gate in the Map and the requests agree at every moment, through     *)
(* every deletion and re-creation of the gate and every stray timer.       *)
GateMatchesRequests == RunningCountsHolders /\ QueueHoldsWaiters

(* A waiter is never left with nobody to wake it: a request that will      *)
(* release runs, or the last cooldown's timer is still to come and will    *)
(* find a cooldown to reset.                                               *)
WaiterHasWaker ==
    queue # << >> =>
        \/ running > 0
        \/ limited # "no" /\ latest # NoTimer /\ timers[latest] = "own"

(* However callers change the limit and cooldowns come and go, no more     *)
(* requests run than the largest limit any caller passes: in particular    *)
(* the drain after a cooldown does not fall back to the default of 3.      *)
HoldersWithinLimits == Holders # {} => \E m \in Limits : Cardinality(Holders) <= m

(* Every request that is admitted, at once, by a drain or with the slot    *)
(* that a release hands on, finds the gate within its limit and without a  *)
(* cooldown, and waiters are served in the order in which they came.       *)
AdmissionRespectsGate ==
    [][/\ \A r \in Reqs : pc[r] # "holding" /\ pc'[r] = "holding" =>
             running' <= max' /\ limited # "yes"
       /\ \A i, j \in 1..Len(queue) :
             i < j /\ pc'[queue[j]] = "holding" => pc'[queue[i]] = "holding"]_vars

(* Once cooldowns stop coming and the callers agree on the limit, every    *)
(* wait ends by itself: releases and the cooldown timer hand every free    *)
(* slot to the queue, so newcomers cannot starve it.  (Callers that keep   *)
(* raising and lowering the limit can: acquire looks at no queue.)         *)
SettledWaitEnds ==
    (\E m \in Limits : <>[](limited = "no" /\ max = m))
        => \A r \in Reqs : pc[r] = "waiting" ~> pc[r] # "waiting"
=============================================================================
