---------------------- MODULE RateLimitSemaphoreProofs ----------------------
(* Proofs, for any finite set of requests, any limits, queue bounds and    *)
(* number of pending cooldown timers, of the properties of                 *)
(* RateLimitSemaphore.                                                     *)
EXTENDS RateLimitSemaphore, WaitQueueProofs, FiniteSetTheorems, TLAPS

PCs == {"idle", "waiting", "holding", "released"}
HoldersIn(pcs) == {r \in Reqs : pcs[r] = "holding"}
WaitersIn(pcs) == {r \in Reqs : pcs[r] = "waiting"}

(* The part of the invariant that relates the counts, the queue and the    *)
(* requests, over the values a handler computes before it drains.          *)
Consistent(run, que, pcs) ==
    /\ run \in Nat
    /\ que \in Seq(Reqs)
    /\ pcs \in [Reqs -> PCs]
    /\ run = Cardinality(HoldersIn(pcs))
    /\ RangeOf(que) = WaitersIn(pcs)
    /\ NoDup(que)
    /\ run > 0 => \E m \in Limits : run <= m

(* A cooldown that is not reset yet has the last timer ahead of it, and    *)
(* that timer cannot fire before the cooldown has passed.                  *)
Cooled(lim, tim, lat, cool) ==
    /\ lim \in {"no", "yes", "past"}
    /\ tim \in [Timers -> {"off", "own", "stray"}]
    /\ lat \in Timers \cup {NoTimer}
    /\ cool \in BOOLEAN
    /\ lim # "no" => lat # NoTimer /\ tim[lat] = "own"
    /\ lim = "yes" => cool

(* The state of the gate itself: a gate in use is in the Map with a limit  *)
(* some caller passed, and a waiter has a holder or a cooldown before it.  *)
Placed(ex, run, mx, que, lim) ==
    /\ ex \in BOOLEAN
    /\ mx \in Nat
    /\ ex => mx \in Limits
    /\ run > 0 \/ que # << >> \/ lim # "no" => ex
    /\ que # << >> => run > 0 \/ lim # "no"

(* The inductive invariant.                                                *)
IInv ==
    /\ Consistent(running, queue, pc)
    /\ Cooled(limited, timers, latest, cooling)
    /\ Placed(exists, running, max, queue, limited)

(* What AdmissionRespectsGate says of the limit and the cooldown, for the  *)
(* requests at pcs and the cooldown lim that a handler left or found.      *)
AdmitsFrom(pcs, lim) ==
    \A r \in Reqs : pcs[r] # "holding" /\ pc'[r] = "holding" =>
        running' <= max' /\ lim # "yes"

(* What AdmissionRespectsGate says of one step.                            *)
Admits ==
    /\ AdmitsFrom(pc, limited)
    /\ \A i, j \in 1..Len(queue) :
          i < j /\ pc'[queue[j]] = "holding" => pc'[queue[i]] = "holding"

(* Sets of requests are finite.                                            *)
LEMMA HoldersFinite ==
    ASSUME NEW pcs
    PROVE  IsFiniteSet(HoldersIn(pcs)) /\ Cardinality(HoldersIn(pcs)) \in Nat
  BY RateLimitAssumption, FS_Subset, FS_CardinalityType DEF HoldersIn

(* A queue is empty exactly when nobody stands in it.                      *)
LEMMA EmptyQueue ==
    ASSUME NEW que \in Seq(Reqs)
    PROVE  que = << >> <=> Len(que) = 0
  BY EmptySeq, LenProperties

(* drainQueue keeps the counts, the queue and the requests consistent,     *)
(* admits only within the limit, in queue order and without a cooldown,    *)
(* and leaves nobody waiting in front of a free gate.                      *)
LEMMA DrainKeeps ==
    ASSUME NEW run, NEW que, NEW lim \in {"no", "yes", "past"}, NEW tim, NEW pcs,
           NEW lat, NEW cool,
           Consistent(run, que, pcs), max' \in Limits,
           Cooled(lim, tim, lat, cool),
           DrainQueue(run, que, lim, tim, pcs)
    PROVE  /\ Consistent(running', queue', pc')
           /\ Cooled(limited', timers', lat, cool)
           /\ Placed(exists', running', max', queue', limited')
           /\ AdmitsFrom(pcs, lim)
           /\ \A i, j \in 1..Len(que) :
                 i < j /\ pc'[que[j]] = "holding" => pc'[que[i]] = "holding"
<1> DEFINE n == DrainCount(run, que, lim)
           left == IF n > 0 THEN "no" ELSE lim
<1>1. /\ run \in Nat /\ que \in Seq(Reqs) /\ pcs \in [Reqs -> PCs]
      /\ run = Cardinality(HoldersIn(pcs)) /\ RangeOf(que) = WaitersIn(pcs) /\ NoDup(que)
      /\ run > 0 => \E m \in Limits : run <= m
  BY DEF Consistent
<1>2. /\ running' = run + n
      /\ queue' = SubSeq(que, n + 1, Len(que))
      /\ pc' = [r \in Reqs |-> IF \E i \in 1..n : que[i] = r THEN "holding" ELSE pcs[r]]
      /\ IF running' = 0 /\ queue' = << >> THEN DeleteGate(left, tim) ELSE KeepGate(left, tim)
  BY DEF DrainQueue
<1>3. Len(que) \in Nat /\ max' \in Nat /\ max' > 0
  BY <1>1, LenProperties, RateLimitAssumption
<1>4. /\ n \in 0..Len(que)
      /\ n > 0 => lim # "yes" /\ run + n <= max'
      /\ n < Len(que) => lim = "yes" \/ run + n >= max'
  BY <1>1, <1>3 DEF DrainCount
<1> HIDE DEF n
<1> DEFINE G == {que[i] : i \in 1..n}
<1>5. /\ G \subseteq WaitersIn(pcs)
      /\ HoldersIn(pc') = HoldersIn(pcs) \cup G
      /\ HoldersIn(pcs) \cap G = {}
      /\ WaitersIn(pc') = WaitersIn(pcs) \ G
      /\ pc' \in [Reqs -> PCs]
  <2>1. G \subseteq WaitersIn(pcs)
    BY <1>1, <1>3, <1>4 DEF RangeOf
  <2>2. \A r \in Reqs : pc'[r] = IF r \in G THEN "holding" ELSE pcs[r]
    BY <1>2
  <2>3. pc' \in [Reqs -> PCs]
    BY <1>1, <1>2 DEF PCs
  <2> HIDE DEF G
  <2> QED
    BY <2>1, <2>2, <2>3, <1>1 DEF HoldersIn, WaitersIn
<1>6. IsFiniteSet(G) /\ Cardinality(G) = n
  <2> DEFINE f == [i \in 1..n |-> que[i]]
  <2>1. f \in Bijection(1..n, G)
    BY <1>1, <1>3, <1>4 DEF NoDup, Bijection, Injection, Surjection, IsInjective
  <2>2. IsFiniteSet(1..n) /\ Cardinality(1..n) = n
    <3>1. n \in Nat /\ 1 \in Int /\ n \in Int
      BY <1>3, <1>4
    <3>2. IsFiniteSet(1..n) /\ Cardinality(1..n) = IF 1 > n THEN 0 ELSE n - 1 + 1
      BY <3>1, FS_Interval
    <3> QED
      BY <3>1, <3>2
  <2>3. ExistsBijection(1..n, G)
    BY <2>1, Zenon DEF ExistsBijection
  <2> QED
    BY <2>2, <2>3, FS_Bijection
<1>7. Cardinality(HoldersIn(pc')) = run + n
  <2> HIDE DEF G
  <2>1. Cardinality(HoldersIn(pcs) \cup G)
          = Cardinality(HoldersIn(pcs)) + Cardinality(G) - Cardinality(HoldersIn(pcs) \cap G)
    BY <1>6, HoldersFinite, FS_Union
  <2>2. Cardinality(HoldersIn(pcs) \cap G) = 0
    BY <1>5, FS_EmptySet
  <2>3. Cardinality(HoldersIn(pc')) = Cardinality(HoldersIn(pcs) \cup G)
    BY <1>5, Zenon
  <2> QED
    BY <2>1, <2>2, <2>3, <1>1, <1>3, <1>4, <1>6
<1>8. /\ queue' \in Seq(Reqs) /\ NoDup(queue')
      /\ RangeOf(queue') = WaitersIn(pc')
      /\ Len(queue') = Len(que) - n
  <2>1. /\ queue' \in Seq(Reqs) /\ NoDup(queue')
        /\ RangeOf(queue') = RangeOf(que) \ G
    BY <1>1, <1>2, <1>4, DropQueue
  <2>2. Len(queue') = Len(que) - n
    BY <1>1, <1>2, <1>3, <1>4, SubSeqProperties
  <2> QED
    BY <2>1, <2>2, <1>1, <1>5
<1>9. Consistent(running', queue', pc')
  <2>1. running' \in Nat /\ running' = Cardinality(HoldersIn(pc'))
    BY <1>1, <1>2, <1>3, <1>4, <1>7
  <2>2. running' > 0 => \E m \in Limits : running' <= m
    BY <1>1, <1>2, <1>3, <1>4
  <2> QED
    BY <2>1, <2>2, <1>5, <1>8 DEF Consistent
<1>10. left \in {"no", lim} /\ (left = "yes" => lim = "yes") /\ (lim = "yes" => left = "yes")
  BY <1>4
<1> HIDE DEF left
<1>11. /\ exists' \in BOOLEAN
       /\ limited' \in {"no", left}
       /\ running' # 0 \/ queue' # << >> \/ limited' # "no" => exists'
       /\ running' # 0 \/ queue' # << >> => limited' = left
       /\ Cooled(limited', timers', lat, cool)
  <2>1. CASE running' = 0 /\ queue' = << >>
    BY <2>1, <1>2 DEF DeleteGate, Cooled
  <2>2. CASE ~(running' = 0 /\ queue' = << >>)
    BY <2>2, <1>2, <1>10 DEF KeepGate, Cooled
  <2> QED
    BY <2>1, <2>2
<1>12. ASSUME queue' # << >> PROVE running' > 0 \/ limited' # "no"
  <2>1. Len(queue') # 0
    BY <1>8, <1>12, EmptyQueue
  <2>2. lim = "yes" \/ run + n >= max'
    BY <2>1, <1>3, <1>4, <1>8
  <2>3. limited' = left
    BY <1>11, <1>12
  <2> QED
    BY <2>2, <2>3, <1>1, <1>2, <1>3, <1>4, <1>10
<1>13. Placed(exists', running', max', queue', limited')
  BY <1>3, <1>9, <1>11, <1>12 DEF Placed, Consistent
<1>14. AdmitsFrom(pcs, lim)
  <2> SUFFICES ASSUME NEW r \in Reqs, pcs[r] # "holding", pc'[r] = "holding"
               PROVE  running' <= max' /\ lim # "yes"
    BY DEF AdmitsFrom
  <2>1. n > 0
    BY <1>2, <1>3, <1>4
  <2> QED
    BY <2>1, <1>2, <1>4
<1>15. ASSUME NEW i \in 1..Len(que), NEW j \in 1..Len(que), i < j, pc'[que[j]] = "holding"
       PROVE  pc'[que[i]] = "holding"
  <2>1. que[i] \in Reqs /\ que[j] \in Reqs /\ pcs[que[j]] = "waiting"
    BY <1>1 DEF RangeOf, WaitersIn
  <2>2. PICK k \in 1..n : que[k] = que[j]
    BY <1>2, <1>15, <2>1
  <2>3. k = j
    BY <1>1, <1>3, <1>4, <2>2 DEF NoDup
  <2>4. i \in 1..n
    BY <2>2, <2>3, <1>3, <1>4, <1>15
  <2> QED
    BY <1>2, <2>1, <2>4
<1> QED
  BY <1>9, <1>11, <1>13, <1>14, <1>15

-----------------------------------------------------------------------------
(* One lemma per handler: it preserves the inductive invariant.            *)

(* Before the first request there is no gate.                              *)
LEMMA InitIInv == Init => IInv
<1> SUFFICES ASSUME Init PROVE IInv
  OBVIOUS
<1>1. HoldersIn(pc) = {} /\ WaitersIn(pc) = {} /\ RangeOf(queue) = {} /\ NoDup(queue)
  BY DEF Init, HoldersIn, WaitersIn, RangeOf, NoDup
<1>2. Cardinality(HoldersIn(pc)) = 0
  BY <1>1, FS_EmptySet, Zenon
<1>3. running = 0 /\ running \in Nat /\ pc \in [Reqs -> PCs]
  BY DEF Init, PCs
<1>4. queue = << >> /\ queue \in Seq(Reqs)
  BY EmptySeq DEF Init
<1>5. Consistent(running, queue, pc)
  BY <1>1, <1>2, <1>3, <1>4 DEF Consistent
<1>6. Cooled(limited, timers, latest, cooling)
  BY DEF Init, Cooled
<1>7. exists = FALSE /\ max \in Nat /\ limited = "no" /\ ~(running > 0)
  BY DEF Init
<1>8. Placed(exists, running, max, queue, limited)
  BY <1>4, <1>7, Zenon DEF Placed
<1> QED
  BY <1>5, <1>6, <1>8 DEF IInv

(* A step that changes neither the counts nor the queue nor the requests.  *)
LEMMA QuietAdmits ==
    ASSUME IInv, running' = running, queue' = queue, pc' = pc
    PROVE  Consistent(running', queue', pc') /\ Admits
<1>1. Consistent(running', queue', pc')
  BY DEF IInv
<1>2. ASSUME NEW i \in 1..Len(queue) PROVE pc[queue[i]] # "holding"
  BY DEF IInv, Consistent, RangeOf, WaitersIn
<1> QED
  BY <1>1, <1>2 DEF Admits, AdmitsFrom

(* acquire preserves the invariant in its three outcomes: admitted,        *)
(* rejected because the queue is full, queued.                             *)
LEMMA AcquireIInv ==
    ASSUME IInv, NEW r \in Reqs, NEW m \in Limits, NEW bound, Acquire(r, m, bound)
    PROVE  IInv' /\ Admits
<1>1. /\ pc[r] \in {"idle", "released"} /\ max' = m
      /\ latest' = latest /\ cooling' = cooling
      /\ m \in Nat /\ m > 0
  BY RateLimitAssumption DEF Acquire
<1>2. /\ running \in Nat /\ queue \in Seq(Reqs) /\ pc \in [Reqs -> PCs]
      /\ running = Cardinality(HoldersIn(pc)) /\ RangeOf(queue) = WaitersIn(pc) /\ NoDup(queue)
      /\ running > 0 => \E k \in Limits : running <= k
  BY DEF IInv, Consistent
<1>3. ASSUME NEW i \in 1..Len(queue) PROVE queue[i] # r /\ pc[queue[i]] = "waiting" /\ queue[i] \in Reqs
  BY <1>1, <1>2 DEF RangeOf, WaitersIn
<1>4. CASE /\ running < m /\ limited # "yes"
           /\ running' = running + 1
           /\ pc' = [pc EXCEPT ![r] = "holding"]
           /\ KeepGate("no", timers)
           /\ UNCHANGED queue
  <2>1. /\ HoldersIn(pc') = HoldersIn(pc) \cup {r} /\ r \notin HoldersIn(pc)
        /\ WaitersIn(pc') = WaitersIn(pc) /\ pc' \in [Reqs -> PCs]
    BY <1>1, <1>2, <1>4 DEF HoldersIn, WaitersIn, PCs
  <2>2. Cardinality(HoldersIn(pc) \cup {r}) = Cardinality(HoldersIn(pc)) + 1
    BY <2>1, HoldersFinite, FS_AddElement
  <2>3. Cardinality(HoldersIn(pc')) = Cardinality(HoldersIn(pc) \cup {r})
    BY <2>1, Zenon
  <2>4. Consistent(running', queue', pc')
    <3>1. running' \in Nat /\ running' = Cardinality(HoldersIn(pc')) /\ running' <= m
      BY <2>2, <2>3, <1>1, <1>2, <1>4
    <3> QED
      BY <3>1, <2>1, <1>2, <1>4 DEF Consistent
  <2>5. Cooled(limited', timers', latest', cooling') /\ Placed(exists', running', max', queue', limited')
    BY <1>1, <1>2, <1>4 DEF KeepGate, IInv, Cooled, Placed
  <2>6. Admits
    <3>1. \A q \in Reqs : pc[q] # "holding" /\ pc'[q] = "holding" =>
             running' <= max' /\ limited # "yes"
      BY <1>1, <1>2, <1>4
    <3>2. \A i \in 1..Len(queue) : pc'[queue[i]] # "holding"
      BY <1>2, <1>3, <1>4
    <3> QED
      BY <3>1, <3>2 DEF Admits, AdmitsFrom
  <2> QED
    BY <2>4, <2>5, <2>6 DEF IInv
<1>5. CASE /\ running >= m \/ limited = "yes"
           /\ pc' = [pc EXCEPT ![r] = "idle"]
           /\ IF running = 0 /\ queue = << >> THEN DeleteGate(limited, timers)
                                              ELSE KeepGate(limited, timers)
           /\ UNCHANGED <<running, queue>>
  <2>1. /\ HoldersIn(pc') = HoldersIn(pc)
        /\ WaitersIn(pc') = WaitersIn(pc) /\ pc' \in [Reqs -> PCs]
    BY <1>1, <1>2, <1>5 DEF HoldersIn, WaitersIn, PCs
  <2>2. Cardinality(HoldersIn(pc')) = Cardinality(HoldersIn(pc))
    BY <2>1, Zenon
  <2>3. Consistent(running', queue', pc')
    BY <2>1, <2>2, <1>2, <1>5 DEF Consistent
  <2>4. CASE running = 0 /\ queue = << >>
    <3>1. Cooled(limited', timers', latest', cooling') /\ Placed(exists', running', max', queue', limited')
      <4>1. exists' = FALSE /\ limited' = "no" /\ queue' = << >> /\ ~(running' > 0) /\ max' \in Nat
        BY <2>4, <1>1, <1>5 DEF DeleteGate
      <4>2. Cooled(limited', timers', latest', cooling')
        BY <2>4, <1>1, <1>5 DEF DeleteGate, IInv, Cooled
      <4> QED
        BY <4>1, <4>2, Zenon DEF Placed
    <3>2. Admits
      BY <1>2, <1>3, <1>5 DEF Admits, AdmitsFrom
    <3> QED
      BY <2>3, <3>1, <3>2 DEF IInv
  <2>5. CASE ~(running = 0 /\ queue = << >>)
    <3>1. Cooled(limited', timers', latest', cooling') /\ Placed(exists', running', max', queue', limited')
      BY <2>5, <1>1, <1>2, <1>5 DEF KeepGate, IInv, Cooled, Placed
    <3>2. Admits
      BY <1>2, <1>3, <1>5 DEF Admits, AdmitsFrom
    <3> QED
      BY <2>3, <3>1, <3>2 DEF IInv
  <2> QED
    BY <2>4, <2>5
<1>6. CASE /\ running >= m \/ limited = "yes"
           /\ queue' = Append(queue, r)
           /\ pc' = [pc EXCEPT ![r] = "waiting"]
           /\ KeepGate(limited, timers)
           /\ UNCHANGED running
  <2>1. /\ HoldersIn(pc') = HoldersIn(pc)
        /\ WaitersIn(pc') = WaitersIn(pc) \cup {r} /\ r \notin WaitersIn(pc)
        /\ pc' \in [Reqs -> PCs]
    BY <1>1, <1>2, <1>6 DEF HoldersIn, WaitersIn, PCs
  <2>2. Cardinality(HoldersIn(pc')) = Cardinality(HoldersIn(pc))
    BY <2>1, Zenon
  <2>3. queue' \in Seq(Reqs) /\ RangeOf(queue') = RangeOf(queue) \cup {r} /\ NoDup(queue')
    BY <2>1, <1>2, <1>6, AppendQueue
  <2>4. Consistent(running', queue', pc')
    BY <2>1, <2>2, <2>3, <1>2, <1>6 DEF Consistent
  <2>5. Cooled(limited', timers', latest', cooling') /\ Placed(exists', running', max', queue', limited')
    BY <1>1, <1>2, <1>6 DEF KeepGate, IInv, Cooled, Placed
  <2>6. Admits
    BY <1>2, <1>3, <1>6 DEF Admits, AdmitsFrom
  <2> QED
    BY <2>4, <2>5, <2>6 DEF IInv
<1> QED
  BY <1>4, <1>5, <1>6 DEF Acquire

(* The release function preserves the invariant.                           *)
LEMMA ReleaseIInv ==
    ASSUME IInv, NEW r \in Reqs, pc[r] = "holding", running > 0,
           UNCHANGED <<max, latest, cooling>>,
           DrainQueue(running - 1, queue, limited, timers, [pc EXCEPT ![r] = "released"])
    PROVE  IInv' /\ Admits
<1> DEFINE pcs == [pc EXCEPT ![r] = "released"]
<1>1. /\ running \in Nat /\ queue \in Seq(Reqs) /\ pc \in [Reqs -> PCs]
      /\ running = Cardinality(HoldersIn(pc)) /\ RangeOf(queue) = WaitersIn(pc) /\ NoDup(queue)
      /\ \E k \in Limits : running <= k
  BY DEF IInv, Consistent
<1>2. /\ HoldersIn(pcs) = HoldersIn(pc) \ {r} /\ r \in HoldersIn(pc)
      /\ WaitersIn(pcs) = WaitersIn(pc) /\ pcs \in [Reqs -> PCs]
  BY <1>1 DEF HoldersIn, WaitersIn, PCs
<1>3. Cardinality(HoldersIn(pc) \ {r}) = Cardinality(HoldersIn(pc)) - 1
  BY <1>2, HoldersFinite, FS_RemoveElement
<1>4. Cardinality(HoldersIn(pcs)) = Cardinality(HoldersIn(pc) \ {r})
  BY <1>2, Zenon
<1> HIDE DEF pcs
<1>5. Consistent(running - 1, queue, pcs)
  <2>1. running - 1 \in Nat /\ running - 1 = Cardinality(HoldersIn(pcs))
    BY <1>1, <1>3, <1>4
  <2>2. \E k \in Limits : running - 1 <= k
    BY <1>1, RateLimitAssumption
  <2> QED
    BY <2>1, <2>2, <1>1, <1>2 DEF Consistent
<1>6. /\ max' \in Limits /\ limited \in {"no", "yes", "past"}
      /\ Cooled(limited, timers, latest', cooling')
  BY DEF IInv, Placed, Cooled
<1>7. /\ Consistent(running', queue', pc')
      /\ Cooled(limited', timers', latest', cooling')
      /\ Placed(exists', running', max', queue', limited')
      /\ AdmitsFrom(pcs, limited)
      /\ \A i, j \in 1..Len(queue) :
            i < j /\ pc'[queue[j]] = "holding" => pc'[queue[i]] = "holding"
  BY <1>5, <1>6, DrainKeeps DEF pcs
<1>8. \A q \in Reqs : pc[q] # "holding" => pcs[q] # "holding"
  BY <1>1 DEF pcs
<1> QED
  BY <1>7, <1>8 DEF IInv, Admits, AdmitsFrom

(* A waiter that times out leaves the queue and nothing else changes.      *)
LEMMA TimeoutIInv ==
    ASSUME IInv, NEW r \in Reqs, WaitTimeout(r)
    PROVE  IInv' /\ Admits
<1>1. /\ running \in Nat /\ queue \in Seq(Reqs) /\ pc \in [Reqs -> PCs]
      /\ running = Cardinality(HoldersIn(pc)) /\ RangeOf(queue) = WaitersIn(pc) /\ NoDup(queue)
      /\ running > 0 => \E k \in Limits : running <= k
  BY DEF IInv, Consistent
<1>2. /\ HoldersIn(pc') = HoldersIn(pc) /\ WaitersIn(pc') = WaitersIn(pc) \ {r}
      /\ pc' \in [Reqs -> PCs]
  BY <1>1 DEF HoldersIn, WaitersIn, PCs, WaitTimeout
<1>3. Cardinality(HoldersIn(pc')) = Cardinality(HoldersIn(pc))
  BY <1>2, Zenon
<1>4. queue' \in Seq(Reqs) /\ RangeOf(queue') = RangeOf(queue) \ {r} /\ NoDup(queue')
  BY <1>1, WithoutQueue DEF WaitTimeout
<1>5. Consistent(running', queue', pc')
  BY <1>1, <1>2, <1>3, <1>4 DEF Consistent, WaitTimeout
<1>6. queue # << >>
  <2>1. Len(queue) \in Nat /\ \E i \in 1..Len(queue) : queue[i] = r
    BY <1>1, LenProperties DEF WaitTimeout, RangeOf, WaitersIn
  <2> QED
    BY <2>1, <1>1, EmptyQueue
<1>7. Cooled(limited', timers', latest', cooling') /\ Placed(exists', running', max', queue', limited')
  BY <1>6 DEF IInv, Cooled, Placed, WaitTimeout
<1>8. Admits
  <2>1. ASSUME NEW i \in 1..Len(queue) PROVE pc'[queue[i]] # "holding"
    BY <1>1 DEF WaitTimeout, RangeOf, WaitersIn
  <2> QED
    BY <2>1, <1>1 DEF Admits, AdmitsFrom, WaitTimeout
<1> QED
  BY <1>5, <1>7, <1>8 DEF IInv

(* Marking a cooldown, its end, and its timers preserve the invariant.     *)
LEMMA CooldownIInv ==
    ASSUME IInv,
           \/ \E r \in Reqs, t \in Timers : MarkRateLimited(r, t)
           \/ CooldownElapses
           \/ \E t \in Timers : CooldownTimer(t) \/ StrayTimer(t)
    PROVE  IInv' /\ Admits
<1>1. CASE \E r \in Reqs, t \in Timers : MarkRateLimited(r, t)
  <2>1. PICK r \in Reqs, t \in Timers : MarkRateLimited(r, t)
    BY <1>1
  <2>2. running > 0
    <3>1. Cardinality(HoldersIn(pc)) # 0
      <4>1. HoldersIn(pc) # {}
        BY <2>1 DEF MarkRateLimited, HoldersIn
      <4> QED
        BY <4>1, HoldersFinite, FS_EmptySet
    <3> QED
      BY <3>1 DEF IInv, Consistent
  <2>3. Consistent(running', queue', pc') /\ Admits
    BY <2>1, QuietAdmits DEF MarkRateLimited
  <2>4. Cooled(limited', timers', latest', cooling') /\ Placed(exists', running', max', queue', limited')
    BY <2>1, <2>2, RateLimitAssumption DEF IInv, Cooled, Placed, MarkRateLimited
  <2> QED
    BY <2>3, <2>4 DEF IInv
<1>2. CASE CooldownElapses
  <2>1. Consistent(running', queue', pc') /\ Admits
    BY <1>2, QuietAdmits DEF CooldownElapses
  <2>2. Cooled(limited', timers', latest', cooling') /\ Placed(exists', running', max', queue', limited')
    BY <1>2 DEF IInv, Cooled, Placed, CooldownElapses
  <2> QED
    BY <2>1, <2>2 DEF IInv
<1>3. ASSUME NEW t \in Timers, CooldownTimer(t) \/ StrayTimer(t)
      PROVE  IInv' /\ Admits
  <2> DEFINE tim == [timers EXCEPT ![t] = "off"]
  <2>1. /\ max' = max /\ latest' = latest /\ cooling' = cooling
        /\ t = latest => ~cooling
    BY <1>3 DEF CooldownTimer, StrayTimer
  <2>2. Cooled("no", tim, latest', cooling')
    BY <2>1 DEF IInv, Cooled
  <2>3. ASSUME timers[t] = "stray" \/ limited # "past" PROVE Cooled(limited, tim, latest', cooling')
    BY <2>1, <2>3 DEF IInv, Cooled
  <2> HIDE DEF tim
  <2>4. ASSUME NEW lim \in {"no", limited}, exists, lim = "no" => limited # "yes",
               Cooled(lim, tim, latest', cooling'),
               DrainQueue(running, queue, lim, tim, pc)
        PROVE  IInv' /\ Admits
    <3>1. Consistent(running, queue, pc) /\ max' \in Limits /\ lim \in {"no", "yes", "past"}
      BY <2>1, <2>4 DEF IInv, Placed, Cooled
    <3>2. /\ Consistent(running', queue', pc')
          /\ Cooled(limited', timers', latest', cooling')
          /\ Placed(exists', running', max', queue', limited')
          /\ AdmitsFrom(pc, lim)
          /\ \A i, j \in 1..Len(queue) :
                i < j /\ pc'[queue[j]] = "holding" => pc'[queue[i]] = "holding"
      BY <2>4, <3>1, DrainKeeps
    <3> QED
      BY <2>4, <3>2 DEF IInv, Admits, AdmitsFrom
  <2>5. CASE timers' = tim /\ UNCHANGED <<exists, running, queue, limited, pc>>
             /\ Cooled(limited, tim, latest', cooling')
    <3>1. Consistent(running', queue', pc') /\ Admits
      BY <2>5, QuietAdmits
    <3> QED
      BY <2>1, <2>5, <3>1 DEF IInv, Placed
  <2>6. CASE CooldownTimer(t)
    <3>1. CASE limited = "past"
      <4>1. exists /\ DrainQueue(running, queue, "no", tim, pc)
        BY <2>6, <3>1 DEF CooldownTimer, tim, IInv, Placed
      <4> QED
        BY <4>1, <3>1, <2>2, <2>4
    <3>2. CASE limited # "past"
      <4>1. timers' = tim /\ UNCHANGED <<exists, running, queue, limited, pc>>
        BY <2>6, <3>2 DEF CooldownTimer, tim
      <4> QED
        BY <4>1, <3>2, <2>3, <2>5
    <3> QED
      BY <3>1, <3>2
  <2>7. CASE StrayTimer(t)
    <3>1. timers[t] = "stray"
      BY <2>7 DEF StrayTimer
    <3>2. CASE exists /\ DrainQueue(running, queue, limited, tim, pc)
      <4>1. CASE limited = "no"
        BY <4>1, <3>1, <3>2, <2>3, <2>4
      <4>2. CASE limited # "no"
        BY <4>2, <3>1, <3>2, <2>3, <2>4
      <4> QED
        BY <4>1, <4>2
    <3>3. CASE timers' = tim /\ UNCHANGED <<exists, running, queue, limited, pc>>
      BY <3>1, <3>3, <2>3, <2>5
    <3> QED
      BY <2>7, <3>2, <3>3 DEF StrayTimer, tim
  <2> QED
    BY <1>3, <2>6, <2>7
<1> QED
  BY <1>1, <1>2, <1>3

(* Every step preserves the invariant and admits as the gate allows.       *)
LEMMA NextIInv == IInv /\ [Next]_vars => IInv' /\ Admits
<1> SUFFICES ASSUME IInv, [Next]_vars PROVE IInv' /\ Admits
  OBVIOUS
<1>1. CASE UNCHANGED vars
  <2>1. Consistent(running', queue', pc') /\ Admits
    BY <1>1, QuietAdmits DEF vars, gate
  <2> QED
    BY <1>1, <2>1 DEF vars, gate, IInv
<1>2. CASE \E r \in Reqs, m \in Limits, b \in QueueBounds : Acquire(r, m, b)
  BY <1>2, AcquireIInv
<1>3. CASE \E r \in Reqs : Release(r)
  BY <1>1, <1>3, ReleaseIInv DEF Release
<1>4. CASE \E r \in Reqs : WaitTimeout(r)
  BY <1>4, TimeoutIInv
<1>5. CASE \/ \E r \in Reqs, t \in Timers : MarkRateLimited(r, t)
           \/ CooldownElapses
           \/ \E t \in Timers : CooldownTimer(t) \/ StrayTimer(t)
  BY <1>5, CooldownIInv
<1> QED
  BY <1>1, <1>2, <1>3, <1>4, <1>5 DEF Next

(* The inductive invariant holds in every reachable state.                 *)
THEOREM RateLimitInvariance == Spec => []IInv
<1>1. IInv /\ [Next]_vars => IInv'
  BY NextIInv
<1> QED
  BY InitIInv, <1>1, PTL DEF Spec

(* The gate, its cooldown and its timers keep their types; in particular   *)
(* no order of releases takes the count of running requests below zero.    *)
THEOREM RateLimitType == Spec => []TypeOK
<1>1. IInv => TypeOK
  BY DEF IInv, Consistent, Cooled, Placed, PCs, TypeOK
<1> QED
  BY RateLimitInvariance, <1>1, PTL

(* Every slot of a model's gate is accounted for, through every release,   *)
(* timeout, deletion and re-creation of the gate (createReleaseFn).        *)
THEOREM SlotsAccounted == Spec => []RunningCountsHolders
<1>1. IInv => RunningCountsHolders
  BY DEF IInv, Consistent, HoldersIn, RunningCountsHolders, Holders
<1> QED
  BY RateLimitInvariance, <1>1, PTL

(* No deletion of a gate orphans a waiter (gates.delete).                  *)
THEOREM WaitersKept == Spec => []QueueHoldsWaiters
<1>1. IInv => QueueHoldsWaiters
  <2> SUFFICES ASSUME IInv PROVE QueueHoldsWaiters
    OBVIOUS
  <2>1. RangeOf(queue) = Waiters /\ NoDup(queue)
    BY DEF IInv, Consistent, WaitersIn, Waiters
  <2>2. CASE Waiters # {}
    <3>1. queue # << >>
      BY <2>1, <2>2 DEF RangeOf
    <3> QED
      BY <2>1, <3>1 DEF IInv, Placed, QueueHoldsWaiters
  <2>3. CASE Holders # {}
    <3>1. running \in Nat /\ running = Cardinality(HoldersIn(pc))
      BY DEF IInv, Consistent
    <3>2. Cardinality(HoldersIn(pc)) # 0
      BY <2>3, HoldersFinite, FS_EmptySet DEF Holders, HoldersIn
    <3> QED
      BY <2>1, <3>1, <3>2 DEF IInv, Placed, QueueHoldsWaiters
  <2> QED
    BY <2>1, <2>2, <2>3 DEF QueueHoldsWaiters
<1> QED
  BY RateLimitInvariance, <1>1, PTL

(* Count, queue and Map agree with the requests (gates.delete, getGate).   *)
THEOREM GateAccounted == Spec => []GateMatchesRequests
<1>1. RunningCountsHolders /\ QueueHoldsWaiters => GateMatchesRequests
  BY DEF GateMatchesRequests
<1> QED
  BY SlotsAccounted, WaitersKept, <1>1, PTL

(* No waiter is left without anybody to wake it, although an acquire may   *)
(* reset a cooldown before its timer fires (isRateLimited).                *)
THEOREM WakersExist == Spec => []WaiterHasWaker
<1>1. IInv => WaiterHasWaker
  BY DEF IInv, Placed, Cooled, WaiterHasWaker
<1> QED
  BY RateLimitInvariance, <1>1, PTL

(* The requests running never exceed the largest limit a caller passes:    *)
(* markRateLimited does not disturb the limit (getGate).                   *)
THEOREM SlotsBounded == Spec => []HoldersWithinLimits
<1>1. IInv => HoldersWithinLimits
  <2> SUFFICES ASSUME IInv, Holders # {} PROVE \E m \in Limits : Cardinality(Holders) <= m
    BY DEF HoldersWithinLimits
  <2>1. running \in Nat /\ running = Cardinality(Holders)
    BY DEF IInv, Consistent, HoldersIn, Holders
  <2>2. Cardinality(Holders) # 0
    BY HoldersFinite, FS_EmptySet DEF Holders, HoldersIn
  <2> QED
    BY <2>1, <2>2 DEF IInv, Consistent
<1> QED
  BY RateLimitInvariance, <1>1, PTL

(* Every admission, one with a slot that a release hands on included,      *)
(* respects the gate's limit, its cooldown and the order of its queue      *)
(* (acquire, drainQueue).                                                  *)
THEOREM AdmissionsRespectGate == Spec => AdmissionRespectsGate
<1>1. IInv /\ [Next]_vars =>
        [/\ \A r \in Reqs : pc[r] # "holding" /\ pc'[r] = "holding" =>
               running' <= max' /\ limited # "yes"
         /\ \A i, j \in 1..Len(queue) :
               i < j /\ pc'[queue[j]] = "holding" => pc'[queue[i]] = "holding"]_vars
  BY NextIInv DEF Admits, AdmitsFrom
<1> QED
  BY RateLimitInvariance, <1>1, PTL DEF Spec, AdmissionRespectsGate
=============================================================================
