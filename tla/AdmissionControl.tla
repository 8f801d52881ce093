-------------------------- MODULE AdmissionControl --------------------------
(***************************************************************************)
(* The adaptive admission controller of open-sse/services/admission:       *)
(* requests of a cost, a limit on the cost that runs, a FairCostQueue for  *)
(* what does not fit, and a feedback window that moves the limit.  The     *)
(* process is a single JavaScript thread: a handler is one action.         *)
(*                                                                         *)
(* In mode "enforce" requests really wait.  In mode "shadow" all of them   *)
(* run and the controller keeps books on a virtual queue; `queue', `cost'  *)
(* and `pc' are then virtualQueue, virtualActiveCost and the               *)
(* virtualDisposition of the leases.  (The mode off keeps no books, and    *)
(* the real queue is empty in shadow as the virtual one is in enforce.)    *)
(* Latencies and utilisation are abstracted to what the closing window     *)
(* makes of them.                                                          *)
(***************************************************************************)
EXTENDS FairCostQueue

CONSTANTS MinLimit, InitialLimit, MaxLimit,  \* the configured limits
          IncreaseStep,                      \* increaseStep, below maxIncreasePerWindow
          Tenths, CriticalTenths             \* decreaseFactor, criticalDecreaseFactor

ASSUME LimitAssumption ==
    /\ {MinLimit, InitialLimit, MaxLimit, IncreaseStep} \subseteq Nat \ {0}
    /\ MinLimit <= InitialLimit /\ InitialLimit <= MaxLimit
    /\ Tenths \in 1..9 /\ CriticalTenths \in 1..Tenths

VARIABLES mode,      \* config.mode of the controller in use
          queue,     \* the FairCostQueue of the mode
          cost,      \* the cost of what is admitted
          pc,        \* what became of each request
          late,      \* queued requests whose deadline has passed
          limit,     \* adaptation.currentLimit
          window,    \* what the open feedback window has seen
          calm       \* environment: no pressure, errors or rising latency any more

vars == <<mode, queue, cost, pc, late, limit, window, calm>>

Pressures == {"normal", "high", "critical"}
Fresh == [pressure |-> "normal", consumed |-> FALSE, freeze |-> FALSE, completed |-> FALSE]

TypeOK ==
    /\ mode \in {"enforce", "shadow"}
    /\ queue \in Queues
    /\ cost \in Nat
    /\ pc \in [Reqs -> {"idle", "queued", "active", "uncounted", "foreign"}]
    /\ late \subseteq Reqs
    /\ limit \in MinLimit..MaxLimit
    /\ window \in [pressure : Pressures, consumed : BOOLEAN, freeze : BOOLEAN, completed : BOOLEAN]
    /\ calm \in BOOLEAN

Init ==
    /\ mode \in {"enforce", "shadow"}
    /\ queue = EmptyQueue
    /\ cost = 0
    /\ pc = [r \in Reqs |-> "idle"]
    /\ late = {}
    /\ limit = InitialLimit
    /\ window = Fresh
    /\ calm = FALSE

Having(state) == {r \in Reqs : pc[r] = state}

(* The cost of the requests in S, counted in units of cost.                *)
CostOf(S) == Cardinality(UNION {{r} \X (1..Cost[r]) : r \in S})

-----------------------------------------------------------------------------
(* One round of the loop in dispatch, or in dispatchVirtual: what becomes  *)
(* of the books s = [queue, cost, pc] under the limit lim.  An entry past  *)
(* its deadline is rejected there when its timer has not fired yet.        *)
Round(s, lim) ==
    LET next == IF s.cost >= lim THEN {} ELSE Dequeued(s.queue, lim - s.cost)
        taken(r, i) ==
            LET rejected == mode = "enforce" /\ r \in late
            IN  [queue |-> Dequeue(s.queue, i),
                 cost |-> IF rejected THEN s.cost ELSE s.cost + Cost[r],
                 pc |-> [s.pc EXCEPT ![r] = IF rejected THEN "idle" ELSE "active"]]
    IN  IF next = {} THEN {s} ELSE {taken(HeadAt(s.queue, i), i) : i \in next}

Become(s) ==
    /\ queue' = s.queue /\ cost' = s.cost /\ pc' = s.pc
    /\ late' = {r \in late : s.pc[r] = "queued"}

(* What the books s become by the number of rounds.                        *)
Rounds(s, lim) ==
    LET after[n \in 0..Cardinality(Reqs)] ==
            IF n = 0 THEN {s} ELSE UNION {Round(u, lim) : u \in after[n - 1]}
    IN  after

(* dispatch in mode enforce and dispatchVirtual in mode shadow: rounds     *)
(* until nothing more is taken.                                            *)
Dispatch(q, c, pcs, lim) ==
    \E s \in Rounds([queue |-> q, cost |-> c, pc |-> pcs], lim)[Cardinality(Reqs)] : Become(s)

(* admit.                                                                  *)
Admit(r) ==
    /\ cost' = cost + Cost[r]
    /\ pc' = [pc EXCEPT ![r] = "active"]
    /\ UNCHANGED <<queue, late>>

-----------------------------------------------------------------------------
(* Mutant of ShouldAdmitSolo: running requests are not looked at.          *)
SoloUnchecked(r) == Cost[r] <= MaxLimit /\ queue.count = 0 /\ window.pressure = "normal"

(* shouldAdmitSolo: an idle controller admits what fits the largest limit. *)
ShouldAdmitSolo(r) ==
    /\ Cost[r] <= MaxLimit
    /\ Having("active") = {} /\ queue.count = 0
    /\ window.pressure = "normal"

(* acquire in mode enforce.  A rejected request leaves no trace.           *)
Acquire(r, sameMs) ==
    /\ mode = "enforce" /\ pc[r] = "idle"
    /\ \/ Cost[r] > limit /\ ShouldAdmitSolo(r) /\ Admit(r)
       \/ Cost[r] <= limit /\ queue.count = 0 /\ cost + Cost[r] <= limit /\ Admit(r)
       \/ /\ Cost[r] <= limit /\ ~(queue.count = 0 /\ cost + Cost[r] <= limit)
          /\ CanAccept(queue, r)
          /\ Dispatch(Enqueued(queue, r, sameMs), cost, [pc EXCEPT ![r] = "queued"], limit)
    /\ UNCHANGED <<mode, limit, window, calm>>

(* acquireShadow: the request runs in any case.  It looks at no queue.     *)
AcquireShadow(r, sameMs) ==
    /\ mode = "shadow" /\ pc[r] = "idle"
    /\ \/ Cost[r] <= limit /\ cost + Cost[r] <= limit /\ Admit(r)
       \/ /\ Cost[r] <= limit /\ cost + Cost[r] > limit /\ CanAccept(queue, r)
          /\ queue' = Enqueued(queue, r, sameMs)
          /\ pc' = [pc EXCEPT ![r] = "queued"]
          /\ UNCHANGED <<cost, late>>
       \/ /\ Cost[r] > limit \/ (cost + Cost[r] > limit /\ ~CanAccept(queue, r))
          /\ pc' = [pc EXCEPT ![r] = "uncounted"]
          /\ UNCHANGED <<queue, cost, late>>
    /\ UNCHANGED <<mode, limit, window, calm>>

(* releaseLease and releaseVirtual, with an outcome that freezes growth or *)
(* not.  A second call finds the lease released and does nothing; a lease  *)
(* of a controller that was disposed of has nothing here to give back.     *)
Release(r, error) ==
    /\ \/ /\ pc[r] = "active"
          /\ Dispatch(queue, cost - Cost[r], [pc EXCEPT ![r] = "idle"], limit)
       \/ /\ mode = "shadow" /\ pc[r] = "queued"
          /\ Dispatch(RemoveById(queue, r), cost, [pc EXCEPT ![r] = "idle"], limit)
       \/ /\ pc[r] = "uncounted"
          /\ Dispatch(queue, cost, [pc EXCEPT ![r] = "idle"], limit)
    /\ calm => ~error
    /\ window' = [window EXCEPT !.freeze = @ \/ error, !.completed = TRUE]
    /\ UNCHANGED <<mode, limit, calm>>

ReleaseForeign(r) ==
    /\ pc[r] = "foreign"
    /\ pc' = [pc EXCEPT ![r] = "idle"]
    /\ UNCHANGED <<mode, queue, cost, late, limit, window, calm>>

DeadlinePasses(r) ==
    /\ mode = "enforce" /\ pc[r] = "queued"
    /\ late' = late \cup {r}
    /\ UNCHANGED <<mode, queue, cost, pc, limit, window, calm>>

(* Mutant of ExpireEntry: nothing is dispatched.                           *)
ExpireNoDispatch(r) ==
    /\ mode = "enforce" /\ pc[r] = "queued"
    /\ queue' = RemoveById(queue, r)
    /\ pc' = [pc EXCEPT ![r] = "idle"]
    /\ late' = late \ {r}
    /\ UNCHANGED <<mode, cost, limit, window, calm>>

(* expireEntry, from the deadline's timer or the abort listener.           *)
ExpireEntry(r) ==
    /\ mode = "enforce" /\ pc[r] = "queued"
    /\ Dispatch(RemoveById(queue, r), cost, [pc EXCEPT ![r] = "idle"], limit)
    /\ UNCHANGED <<mode, limit, window, calm>>

-----------------------------------------------------------------------------
(* Mutant of Clamp: no upper bound.                                        *)
ClampBelow(x) == IF x < MinLimit THEN MinLimit ELSE x

Clamp(x) == IF x < MinLimit THEN MinLimit ELSE IF x > MaxLimit THEN MaxLimit ELSE x

(* setPressure keeps the worst of a window; the first critical observation *)
(* lowers the limit at once.                                               *)
Worse(p, o) == IF o = "critical" \/ (o = "high" /\ p = "normal") THEN o ELSE p
ObservePressure(p) ==
    LET cut == p = "critical" /\ ~window.consumed
    IN  /\ calm => p = "normal"
        /\ window' = [window EXCEPT !.pressure = Worse(@, p), !.consumed = @ \/ cut]
        /\ IF cut
           THEN /\ limit' = Clamp((limit * CriticalTenths) \div 10)
                /\ Dispatch(queue, cost, pc, limit')
           ELSE UNCHANGED <<limit, queue, cost, pc, late>>
        /\ UNCHANGED <<mode, calm>>

(* closeAdaptationWindow: the limit before idle recovery.                  *)
Adjusted(rising, util) ==
    IF window.pressure = "critical"
    THEN IF window.consumed THEN limit ELSE (limit * CriticalTenths) \div 10
    ELSE IF window.pressure = "high" \/ (window.completed /\ rising) THEN (limit * Tenths) \div 10
    ELSE IF ~window.freeze /\ util = "high" /\ window.completed THEN limit + IncreaseStep
    ELSE limit

(* Mutant of IdleRecovery: there is none.                                  *)
NoRecovery(next, util) == next

(* applyIdleRecovery.                                                      *)
IdleRecovery(next, util) ==
    IF /\ util = "low" /\ window.pressure # "critical"
       /\ ~window.freeze /\ ~window.completed /\ limit < InitialLimit
    THEN IF next + IncreaseStep < InitialLimit THEN next + IncreaseStep ELSE InitialLimit
    ELSE next

(* tick.  The utilisation of a window in which nothing ran is low; any     *)
(* other one may be, depending on how long things ran.                     *)
Ran == window.completed \/ Having("active") # {} \/ (mode = "shadow" /\ \E r \in Reqs : pc[r] \in {"queued", "uncounted"})
Tick(rising, util) ==
    /\ calm => ~rising
    /\ ~Ran => util = "low"
    /\ limit' = Clamp(IdleRecovery(Adjusted(rising, util), util))
    /\ window' = Fresh
    /\ Dispatch(queue, cost, pc, limit')
    /\ UNCHANGED <<mode, calm>>

(* reloadAdaptiveAdmissionRuntime: the controller is shut down, its queue  *)
(* rejected, and another takes its place.                                  *)
Reload(m) ==
    /\ mode' = m
    /\ queue' = EmptyQueue
    /\ cost' = 0
    /\ pc' = [r \in Reqs |-> IF pc[r] = "idle" \/ (mode = "enforce" /\ pc[r] = "queued")
                             THEN "idle" ELSE "foreign"]
    /\ late' = {}
    /\ limit' = InitialLimit
    /\ window' = Fresh
    /\ UNCHANGED calm

Calms == ~calm /\ calm' = TRUE /\ UNCHANGED <<mode, queue, cost, pc, late, limit, window>>

Next ==
    \/ \E r \in Reqs :
          \/ \E sameMs \in BOOLEAN : Acquire(r, sameMs) \/ AcquireShadow(r, sameMs)
          \/ \E error \in BOOLEAN : Release(r, error)
          \/ ReleaseForeign(r) \/ DeadlinePasses(r) \/ ExpireEntry(r)
    \/ \E p \in Pressures : ObservePressure(p)
    \/ \E rising \in BOOLEAN, util \in {"low", "middle", "high"} : Tick(rising, util)
    \/ \E m \in {"enforce", "shadow"} : Reload(m)
    \/ Calms

Spec == Init /\ [][Next]_vars

(* Admitted requests end and the window timer keeps firing.  The deadline  *)
(* and the caller's patience are not relied upon.                          *)
FairSpec ==
    /\ Spec
    /\ \A r \in Reqs : WF_vars(\E error \in BOOLEAN : Release(r, error))
    /\ WF_vars(\E rising \in BOOLEAN, util \in {"low", "middle", "high"} : Tick(rising, util))

-----------------------------------------------------------------------------
(* The controller's totals, the tenant ring and the buckets tell the same  *)
(* story as the requests, whatever order they leave in: a release adds and *)
(* removes exactly the cost of its lease, each queued request stands once  *)
(* in its tenant's bucket, a tenant is in the ring while it has a bucket,  *)
(* and the cursor is in the ring.                                          *)
BooksBalance ==
    /\ cost = CostOf(Having("active"))
    /\ queue.count = Cardinality(Having("queued")) /\ queue.cost = CostOf(Having("queued"))
    /\ Queued(queue) = Having("queued") /\ late \subseteq Having("queued")
    /\ \A t \in Tenants :
          /\ NoDup(queue.bucket[t]) /\ \A r \in RangeOf(queue.bucket[t]) : Tenant[r] = t
          /\ t \in RangeOf(queue.order) <=> queue.bucket[t] # << >>
    /\ NoDup(queue.order)
    /\ queue.cursor = 0 \/ queue.cursor < Len(queue.order)

(* Whatever just happened (a release, an expiry, a cut or a rise of the    *)
(* limit, an arrival), nothing stays queued that dispatch would admit, and *)
(* no head has been passed over more often than MAX_UNFITTABLE_SKIPS.      *)
DispatchComplete ==
    /\ cost >= limit \/ Dequeued(queue, limit - cost) = {}
    /\ \A r \in Reqs : queue.skips[r] <= MaxSkips

(* queue.ts:76, "smaller work is not admitted ahead of it until it fits,   *)
(* is removed, or capacity rises": while the oldest head with a            *)
(* reservation stays queued, no other request starts, neither from the     *)
(* queue nor, in enforce, straight from acquire.                           *)
ReservationHolds ==
    [][ Reserved(queue) # {} =>
          LET r == HeadAt(queue, Oldest(queue, Reserved(queue)))
          IN  pc'[r] = "queued" =>
                \A x \in Reqs : pc'[x] = "active" =>
                    pc[x] = "active" \/ (mode = "shadow" /\ pc[x] = "idle") ]_vars

(* The budget as its users see it (WeightedLimit): admissions fit the      *)
(* limit of the moment, or are the single solo request of an idle system.  *)
Budget == INSTANCE WeightedLimit WITH Clients <- Reqs, Weight <- Cost, Limits <- MinLimit..MaxLimit,
                                      SoloLimit <- MaxLimit, running <- Having("active")
StaysWithinBudget == Budget!Spec

(* Once the environment calms down, every request that waits stops         *)
(* waiting without its deadline: a limit that fell below its cost recovers *)
(* and smaller requests cannot pass it for ever.  (For costs up to         *)
(* initialLimit: the recovery goes no further.)                            *)
WaitEnds == <>[](calm /\ mode = "enforce") =>
    \A r \in Reqs : Cost[r] <= InitialLimit => (pc[r] = "queued" ~> pc[r] # "queued")
=============================================================================
