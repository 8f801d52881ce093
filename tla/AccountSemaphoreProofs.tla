----------------------- MODULE AccountSemaphoreProofs -----------------------
(* Proofs, for any set of gates, any finite set of requests and any        *)
(* configured limits, of the invariants of AccountSemaphore and of what    *)
(* survives of them in AccountSemaphoreReset.                              *)
EXTENDS AccountSemaphoreReset, WaitQueueProofs, FiniteSetTheorems, SequenceTheorems, TLAPS

-----------------------------------------------------------------------------
(* The invariant, over the values a handler computes before it drains.     *)

HoldersIn(pcs, kk, k) == Needing({r \in Reqs : pcs[r] = "holding"}, k, kk)
WaitersIn(pcs, kk, k) == Needing(Waiting(pcs), k, kk)

Counted(run, pcs, kk) ==
    \A k \in Keys : run[k] = Cardinality(HoldersIn(pcs, kk, k))

Queued(que, pcs, kk) ==
    \A k \in Keys : RangeOf(que[k]) = WaitersIn(pcs, kk, k) /\ NoDup(que[k])

Kept(pcs, kk, lv) ==
    \A r \in Reqs : pcs[r] \in {"waiting", "holding"} => kk[r] \subseteq lv

(* A gate somebody waits in has a limit that some caller configured.       *)
WaitedLimits(pcs, kk, mx) ==
    \A k \in Keys : WaitersIn(pcs, kk, k) # {} => \E req \in Requirements : mx[k] = req[k]

Limited(pcs, kk) ==
    \A k \in Keys : HoldersIn(pcs, kk, k) # {} =>
        \E req \in Requirements : Cardinality(HoldersIn(pcs, kk, k)) <= req[k]

(* The part of the inductive invariant that drainQueues needs and keeps.   *)
Good(run, que, pcs, kk, mx, lv) ==
    /\ run \in [Keys -> Nat]
    /\ que \in [Keys -> Seq(Reqs)]
    /\ pcs \in [Reqs -> PCs]
    /\ kk \in [Reqs -> SUBSET Keys]
    /\ mx \in [Keys -> Nat]
    /\ Counted(run, pcs, kk)
    /\ Queued(que, pcs, kk)
    /\ Kept(pcs, kk, lv)
    /\ WaitedLimits(pcs, kk, mx)
    /\ Limited(pcs, kk)

(* The inductive invariant.                                                *)
IInv == TypeOK /\ Good(running, queue, pc, keys, max, live)

(* Needing selects a finite set of requests.                               *)
LEMMA NeedingFinite ==
    ASSUME NEW G \in SUBSET Reqs, NEW kk, NEW k
    PROVE  /\ IsFiniteSet(Needing(G, k, kk))
           /\ Cardinality(Needing(G, k, kk)) \in Nat
           /\ Cardinality(Needing(G, k, kk)) = 0 <=> Needing(G, k, kk) = {}
  BY ConstantsAssumption, FS_Subset, FS_CardinalityType, FS_EmptySet DEF Needing

(* What drainQueues needs, and what it does to the counts, the queues and  *)
(* the requests when it grants the requests G.                             *)
Drainable(run, que, pcs, kk) ==
    /\ run \in [Keys -> Nat] /\ que \in [Keys -> Seq(Reqs)]
    /\ pcs \in [Reqs -> PCs] /\ kk \in [Reqs -> SUBSET Keys]
    /\ Queued(que, pcs, kk)

Drained(G, run, pcs, kk, mx, blk, run2, que2, pcs2) ==
    /\ Drainable(run2, que2, pcs2, kk)
    /\ \A r \in Reqs : pcs2[r] = IF r \in G THEN "holding" ELSE pcs[r]
    /\ \A k \in Keys : \E n \in Nat :
         /\ run2[k] = run[k] + n
         /\ Cardinality(HoldersIn(pcs2, kk, k)) = Cardinality(HoldersIn(pcs, kk, k)) + n
         /\ WaitersIn(pcs2, kk, k) \subseteq WaitersIn(pcs, kk, k)
         /\ n = 0 => HoldersIn(pcs2, kk, k) = HoldersIn(pcs, kk, k)
         /\ n > 0 => run[k] + n <= mx[k] /\ k \notin blk /\ WaitersIn(pcs, kk, k) # {}

(* drainQueues does that.                                                  *)
LEMMA DrainParts ==
    ASSUME NEW run, NEW que, NEW pcs, NEW kk, NEW mx, NEW blk,
           NEW G \in SUBSET Waiting(pcs),
           DrainGrants(G, Waiting(pcs), run, que, mx, blk, kk),
           Drainable(run, que, pcs, kk)
    PROVE  Drained(G, run, pcs, kk, mx, blk,
                   GrantedRunning(G, run, kk), GrantedQueue(G, que, kk), GrantedPc(G, pcs))
<1>d. /\ run \in [Keys -> Nat] /\ que \in [Keys -> Seq(Reqs)]
      /\ pcs \in [Reqs -> PCs] /\ kk \in [Reqs -> SUBSET Keys]
      /\ Queued(que, pcs, kk)
  BY DEF Drainable
<1> USE <1>d
<1> DEFINE run2 == GrantedRunning(G, run, kk)
           que2 == GrantedQueue(G, que, kk)
           pcs2 == GrantedPc(G, pcs)
           n(k) == Cardinality(Needing(G, k, kk))
<1>a. run2 = [k \in Keys |-> run[k] + n(k)]
  BY DEF GrantedRunning
<1>b. que2 = [k \in Keys |-> SubSeq(que[k], n(k) + 1, Len(que[k]))]
  BY DEF GrantedQueue
<1>c. pcs2 = [r \in Reqs |-> IF r \in G THEN "holding" ELSE pcs[r]]
  BY DEF GrantedPc
<1> HIDE DEF run2, que2, pcs2
<1>1. G \subseteq Reqs /\ \A r \in G : pcs[r] = "waiting"
  BY DEF Waiting
<1>2. ASSUME NEW k \in Keys
      PROVE  /\ n(k) \in Nat
             /\ n(k) = 0 <=> Needing(G, k, kk) = {}
             /\ IsFiniteSet(Needing(G, k, kk))
  BY <1>1, NeedingFinite
<1>3. ASSUME NEW k \in Keys, n(k) > 0
      PROVE  /\ k \notin blk
             /\ run[k] + n(k) <= mx[k]
             /\ n(k) <= Len(que[k])
             /\ Needing(G, k, kk) = {que[k][i] : i \in 1..n(k)}
  BY <1>3 DEF DrainGrants, CanAcquireAll
<1>4. run2 \in [Keys -> Nat]
  BY <1>a, <1>2
<1>5. pcs2 \in [Reqs -> PCs]
  BY <1>c, <1>1 DEF PCs
<1>6. ASSUME NEW k \in Keys
      PROVE  /\ HoldersIn(pcs2, kk, k) = HoldersIn(pcs, kk, k) \cup Needing(G, k, kk)
             /\ HoldersIn(pcs, kk, k) \cap Needing(G, k, kk) = {}
             /\ WaitersIn(pcs2, kk, k) = WaitersIn(pcs, kk, k) \ Needing(G, k, kk)
             /\ Needing(G, k, kk) \subseteq WaitersIn(pcs, kk, k)
  BY <1>c, <1>1 DEF HoldersIn, WaitersIn, Needing, Waiting
<1>7. ASSUME NEW k \in Keys
      PROVE  Cardinality(HoldersIn(pcs2, kk, k)) = Cardinality(HoldersIn(pcs, kk, k)) + n(k)
  <2> DEFINE h == Cardinality(HoldersIn(pcs, kk, k))
  <2>1. IsFiniteSet(HoldersIn(pcs, kk, k)) /\ h \in Nat
    BY NeedingFinite DEF HoldersIn
  <2>2. Cardinality(HoldersIn(pcs, kk, k) \cup Needing(G, k, kk))
          = h + n(k) - Cardinality(HoldersIn(pcs, kk, k) \cap Needing(G, k, kk))
    BY <2>1, <1>2, FS_Union
  <2>3. Cardinality(HoldersIn(pcs, kk, k) \cap Needing(G, k, kk)) = 0
    BY <1>6, FS_EmptySet
  <2>4. n(k) \in Nat
    BY <1>2
  <2>5. Cardinality(HoldersIn(pcs2, kk, k))
          = Cardinality(HoldersIn(pcs, kk, k) \cup Needing(G, k, kk))
    BY <1>6, Zenon
  <2> HIDE DEF n, h
  <2> QED
    BY <2>1, <2>2, <2>3, <2>4, <2>5 DEF h
<1>8. ASSUME NEW k \in Keys
      PROVE  que2[k] \in Seq(Reqs) /\ RangeOf(que2[k]) = WaitersIn(pcs2, kk, k) /\ NoDup(que2[k])
  <2>1. que[k] \in Seq(Reqs) /\ NoDup(que[k]) /\ RangeOf(que[k]) = WaitersIn(pcs, kk, k)
    BY DEF Queued
  <2>2. n(k) \in 0..Len(que[k]) /\ Needing(G, k, kk) = {que[k][i] : i \in 1..n(k)}
    <3>1. Len(que[k]) \in Nat
      BY <2>1, LenProperties
    <3>2. CASE n(k) > 0
      BY <3>1, <3>2, <1>3, <1>2
    <3>3. CASE n(k) = 0
      BY <3>1, <3>3, <1>2
    <3> QED
      BY <3>2, <3>3, <1>2
  <2> HIDE DEF n
  <2>3. /\ SubSeq(que[k], n(k) + 1, Len(que[k])) \in Seq(Reqs)
        /\ RangeOf(SubSeq(que[k], n(k) + 1, Len(que[k]))) = RangeOf(que[k]) \ {que[k][i] : i \in 1..n(k)}
        /\ NoDup(SubSeq(que[k], n(k) + 1, Len(que[k])))
    BY <2>1, <2>2, DropQueue
  <2>4. que2[k] = SubSeq(que[k], n(k) + 1, Len(que[k]))
    BY <1>b
  <2> QED
    BY <2>1, <2>2, <2>3, <2>4, <1>6
<1>9. que2 \in [Keys -> Seq(Reqs)] /\ Queued(que2, pcs2, kk)
  BY <1>b, <1>8 DEF Queued
<1>10. ASSUME NEW k \in Keys, n(k) > 0 PROVE WaitersIn(pcs, kk, k) # {}
  <2>1. n(k) # 0
    BY <1>10
  <2>2. Needing(G, k, kk) # {}
    BY <2>1, <1>2, Zenon
  <2> QED
    BY <2>2, <1>6
<1>11. ASSUME NEW k \in Keys
       PROVE  /\ WaitersIn(pcs2, kk, k) \subseteq WaitersIn(pcs, kk, k)
              /\ n(k) = 0 => HoldersIn(pcs2, kk, k) = HoldersIn(pcs, kk, k)
  BY <1>2, <1>6
<1>12. \A r \in Reqs : pcs2[r] = IF r \in G THEN "holding" ELSE pcs[r]
  BY <1>c
<1>13. \A k \in Keys : run2[k] = run[k] + n(k) /\ n(k) \in Nat
  BY <1>a, <1>2
<1> HIDE DEF n
<1>14. Drainable(run2, que2, pcs2, kk)
  BY <1>4, <1>5, <1>9 DEF Drainable
<1>15. ASSUME NEW k \in Keys
       PROVE  \E m \in Nat :
                /\ run2[k] = run[k] + m
                /\ Cardinality(HoldersIn(pcs2, kk, k)) = Cardinality(HoldersIn(pcs, kk, k)) + m
                /\ WaitersIn(pcs2, kk, k) \subseteq WaitersIn(pcs, kk, k)
                /\ m = 0 => HoldersIn(pcs2, kk, k) = HoldersIn(pcs, kk, k)
                /\ m > 0 => run[k] + m <= mx[k] /\ k \notin blk /\ WaitersIn(pcs, kk, k) # {}
  <2>1. n(k) \in Nat
    BY <1>13
  <2> WITNESS n(k) \in Nat
  <2> QED
    BY <1>3, <1>7, <1>10, <1>11, <1>13
<1> QED
  BY <1>12, <1>14, <1>15 DEF run2, que2, pcs2, Drained

(* What drainQueues does to each part of the invariant.                    *)
LEMMA DrainKeeps ==
    ASSUME NEW run, NEW que, NEW pcs, NEW kk, NEW mx, NEW blk, NEW lv,
           NEW G \in SUBSET Waiting(pcs),
           DrainGrants(G, Waiting(pcs), run, que, mx, blk, kk),
           Good(run, que, pcs, kk, mx, lv)
    PROVE  /\ Good(GrantedRunning(G, run, kk), GrantedQueue(G, que, kk), GrantedPc(G, pcs),
                   kk, mx, lv)
           /\ \A r \in Reqs : pcs[r] # "holding" /\ GrantedPc(G, pcs)[r] = "holding" =>
                  \A k \in kk[r] : GrantedRunning(G, run, kk)[k] <= mx[k] /\ k \notin blk
<1>d. /\ run \in [Keys -> Nat] /\ que \in [Keys -> Seq(Reqs)] /\ pcs \in [Reqs -> PCs]
      /\ kk \in [Reqs -> SUBSET Keys] /\ mx \in [Keys -> Nat]
      /\ Counted(run, pcs, kk) /\ Queued(que, pcs, kk) /\ Kept(pcs, kk, lv)
      /\ WaitedLimits(pcs, kk, mx) /\ Limited(pcs, kk)
  BY DEF Good
<1> DEFINE run2 == GrantedRunning(G, run, kk)
           que2 == GrantedQueue(G, que, kk)
           pcs2 == GrantedPc(G, pcs)
<1>0. Drained(G, run, pcs, kk, mx, blk, run2, que2, pcs2)
  <2>1. Drainable(run, que, pcs, kk)
    BY <1>d DEF Drainable
  <2> QED
    BY <2>1, DrainParts
<1> HIDE DEF run2, que2, pcs2
<1>1. /\ run2 \in [Keys -> Nat] /\ que2 \in [Keys -> Seq(Reqs)] /\ pcs2 \in [Reqs -> PCs]
      /\ Queued(que2, pcs2, kk)
      /\ \A r \in Reqs : pcs2[r] = IF r \in G THEN "holding" ELSE pcs[r]
  BY <1>0 DEF Drained, Drainable
<1>2. Counted(run2, pcs2, kk)
  BY <1>d, <1>0 DEF Counted, Drained
<1>3. Kept(pcs2, kk, lv)
  BY <1>d, <1>1 DEF Kept, Waiting
<1>4. WaitedLimits(pcs2, kk, mx)
  BY <1>d, <1>0 DEF WaitedLimits, Drained
<1>5. Limited(pcs2, kk)
  <2> SUFFICES ASSUME NEW k \in Keys, HoldersIn(pcs2, kk, k) # {}
               PROVE  \E req \in Requirements : Cardinality(HoldersIn(pcs2, kk, k)) <= req[k]
    BY DEF Limited
  <2>0. PICK n \in Nat :
          /\ Cardinality(HoldersIn(pcs2, kk, k)) = run[k] + n
          /\ n = 0 => HoldersIn(pcs2, kk, k) = HoldersIn(pcs, kk, k)
          /\ n > 0 => run[k] + n <= mx[k] /\ WaitersIn(pcs, kk, k) # {}
    BY <1>d, <1>0 DEF Counted, Drained
  <2>1. CASE n > 0
    <3>1. PICK req \in Requirements : mx[k] = req[k]
      BY <2>0, <2>1, <1>d DEF WaitedLimits
    <3> QED
      BY <2>0, <2>1, <3>1
  <2>2. CASE n = 0
    BY <2>0, <2>2, <1>d DEF Limited
  <2> QED
    BY <2>1, <2>2
<1>6. ASSUME NEW r \in Reqs, pcs[r] # "holding", pcs2[r] = "holding", NEW k \in kk[r]
      PROVE  run2[k] <= mx[k] /\ k \notin blk
  <2>0. k \in Keys
    BY <1>d
  <2>1. r \in HoldersIn(pcs2, kk, k) /\ r \notin HoldersIn(pcs, kk, k)
    BY <1>6 DEF HoldersIn, Needing
  <2>2. PICK n \in Nat :
          /\ run2[k] = run[k] + n
          /\ n = 0 => HoldersIn(pcs2, kk, k) = HoldersIn(pcs, kk, k)
          /\ n > 0 => run[k] + n <= mx[k] /\ k \notin blk
    BY <1>0, <2>0 DEF Drained
  <2>3. n # 0
    BY <2>1, <2>2
  <2> QED
    BY <2>2, <2>3
<1> QED
  BY <1>d, <1>1, <1>2, <1>3, <1>4, <1>5, <1>6 DEF run2, que2, pcs2, Good

-----------------------------------------------------------------------------
(* One lemma per handler: it preserves the inductive invariant.            *)

(* The empty Map of gates satisfies the invariant.                         *)
LEMMA InitIInv == Init => IInv
<1> SUFFICES ASSUME Init PROVE IInv
  OBVIOUS
<1>1. TypeOK
  BY EmptySeq DEF Init, TypeOK, PCs
<1>2. \A k \in Keys : HoldersIn(pc, keys, k) = {} /\ WaitersIn(pc, keys, k) = {}
  BY DEF Init, HoldersIn, WaitersIn, Needing, Waiting
<1>3. Counted(running, pc, keys)
  <2>1. ASSUME NEW k \in Keys PROVE Cardinality(HoldersIn(pc, keys, k)) = 0
    BY <1>2, FS_EmptySet, Zenon
  <2> QED
    BY <2>1 DEF Counted, Init
<1>4. Queued(queue, pc, keys)
  <2>1. ASSUME NEW k \in Keys PROVE queue[k] = << >>
    BY DEF Init
  <2>2. ASSUME NEW k \in Keys PROVE RangeOf(queue[k]) = {} /\ NoDup(queue[k])
    BY <2>1 DEF RangeOf, NoDup
  <2> QED
    BY <2>2, <1>2 DEF Queued
<1>5. Kept(pc, keys, live) /\ WaitedLimits(pc, keys, max) /\ Limited(pc, keys)
  BY <1>2 DEF Kept, WaitedLimits, Limited, Init
<1> QED
  BY <1>1, <1>3, <1>4, <1>5 DEF IInv, Good, TypeOK

(* What AdmissionWithinLimit says of one step, or of the drain that ends a *)
(* step, from the requests' positions pcs.                                 *)
AdmitsFrom(pcs) ==
    \A r \in Reqs : pcs[r] # "holding" /\ pc'[r] = "holding" =>
        \A k \in keys'[r] : running'[k] <= max'[k] /\ k \notin blocked'
Admits == AdmitsFrom(pc)

(* A handler that ends in drainQueues preserves the invariant if the       *)
(* values it drains from satisfy it.                                       *)
LEMMA DrainIInv ==
    ASSUME NEW run, NEW que, NEW pcs, NEW lv,
           Good(run, que, pcs, keys', max', lv),
           DrainQueues(run, que, pcs)
    PROVE  /\ Good(running', queue', pc', keys', max', lv)
           /\ missed' = {}
           /\ AdmitsFrom(pcs)
<1>1. PICK G \in SUBSET Waiting(pcs) :
        /\ DrainGrants(G, Waiting(pcs), run, que, max', blocked', keys')
        /\ running' = GrantedRunning(G, run, keys')
        /\ queue' = GrantedQueue(G, que, keys')
        /\ pc' = GrantedPc(G, pcs)
        /\ missed' = {}
  BY Zenon DEF DrainQueues
<1>2. /\ Good(GrantedRunning(G, run, keys'), GrantedQueue(G, que, keys'), GrantedPc(G, pcs),
              keys', max', lv)
      /\ \A r \in Reqs : pcs[r] # "holding" /\ GrantedPc(G, pcs)[r] = "holding" =>
             \A k \in keys'[r] : GrantedRunning(G, run, keys')[k] <= max'[k] /\ k \notin blocked'
  BY <1>1, DrainKeeps
<1> QED
  BY <1>1, <1>2, Zenon DEF AdmitsFrom

(* A step that changes nothing.                                            *)
LEMMA Stutter ==
    ASSUME IInv, UNCHANGED vars
    PROVE  IInv' /\ Admits
<1>1. IInv'
  BY DEF vars, IInv, TypeOK, Good, Counted, Queued, Kept, WaitedLimits, Limited,
         HoldersIn, WaitersIn, Needing, Waiting
<1>2. Admits
  BY DEF vars, Admits, AdmitsFrom, IInv, TypeOK
<1> QED
  BY <1>1, <1>2

(* acquireMany preserves the invariant in its three outcomes: admitted at  *)
(* once, rejected, or queued and drained.                                  *)
LEMMA AcquireIInv ==
    ASSUME IInv, NEW r \in Reqs, NEW req \in Requirements, NEW bound, NEW failFast,
           AcquireMany(r, req, bound, failFast)
    PROVE  IInv' /\ Admits
<1> DEFINE ks == {k \in Keys : req[k] > 0}
           mx == [k \in Keys |-> IF k \in ks THEN req[k] ELSE max[k]]
           que == [k \in Keys |-> IF k \in ks THEN Append(queue[k], r) ELSE queue[k]]
<1>1. /\ pc[r] \in {"idle", "released"}
      /\ live' = live \cup ks
      /\ max' = mx
      /\ keys' = [keys EXCEPT ![r] = ks]
      /\ blocked' = blocked
  BY DEF AcquireMany
<1>2. req \in [Keys -> Nat] /\ ks \subseteq Keys /\ mx \in [Keys -> Nat]
  BY ConstantsAssumption DEF IInv, TypeOK
<1>3. TypeOK /\ Good(running, queue, pc, keys, max, live)
  BY DEF IInv
<1>4. /\ keys' \in [Reqs -> SUBSET Keys] /\ max' \in [Keys -> Nat]
      /\ live' \subseteq Keys /\ blocked' \subseteq Keys
  BY <1>1, <1>2, <1>3 DEF TypeOK
<1>5. ASSUME NEW pcs \in [Reqs -> PCs], \A q \in Reqs : q # r => pcs[q] = pc[q]
      PROVE  \A k \in Keys :
               /\ HoldersIn(pcs, keys', k) =
                     IF pcs[r] = "holding" /\ k \in ks
                     THEN HoldersIn(pc, keys, k) \cup {r} ELSE HoldersIn(pc, keys, k)
               /\ WaitersIn(pcs, keys', k) =
                     IF pcs[r] = "waiting" /\ k \in ks
                     THEN WaitersIn(pc, keys, k) \cup {r} ELSE WaitersIn(pc, keys, k)
               /\ r \notin HoldersIn(pc, keys, k)
               /\ r \notin WaitersIn(pc, keys, k)
  BY <1>1, <1>3, <1>5 DEF HoldersIn, WaitersIn, Needing, Waiting, TypeOK
<1>6. ASSUME NEW pcs \in [Reqs -> PCs], \A q \in Reqs : q # r => pcs[q] = pc[q]
      PROVE  Kept(pcs, keys', live') /\ WaitedLimits(pcs, keys', max')
  <2>1. Kept(pcs, keys', live')
    BY <1>1, <1>3, <1>6 DEF Kept, Good, TypeOK
  <2>2. ASSUME NEW k \in Keys, WaitersIn(pcs, keys', k) # {}
        PROVE  \E q \in Requirements : max'[k] = q[k]
    <3>1. CASE k \in ks
      BY <3>1, <1>1, <1>2
    <3>2. CASE k \notin ks
      <4>1. WaitersIn(pc, keys, k) # {}
        BY <2>2, <3>2, <1>5, <1>6
      <4>2. max'[k] = max[k]
        BY <3>2, <1>1
      <4> QED
        BY <4>1, <4>2, <1>3 DEF Good, WaitedLimits
    <3> QED
      BY <3>1, <3>2
  <2> QED
    BY <2>1, <2>2 DEF WaitedLimits
<1> HIDE DEF ks, mx
<1>7. CASE /\ ImmediateOK(ks, mx)
           /\ running' = [k \in Keys |-> IF k \in ks THEN running[k] + 1 ELSE running[k]]
           /\ pc' = [pc EXCEPT ![r] = "holding"]
           /\ timer' = timer \ ks
           /\ UNCHANGED <<queue, missed>>
  <2>1. /\ pc' \in [Reqs -> PCs] /\ pc'[r] = "holding"
        /\ \A q \in Reqs : q # r => pc'[q] = pc[q]
    BY <1>3, <1>7 DEF TypeOK, PCs
  <2>2. running' \in [Keys -> Nat] /\ queue' \in [Keys -> Seq(Reqs)]
    BY <1>3, <1>7 DEF TypeOK
  <2>3. ASSUME NEW k \in Keys
        PROVE  Cardinality(HoldersIn(pc', keys', k)) = running'[k]
    <3>1. /\ IsFiniteSet(HoldersIn(pc, keys, k))
          /\ Cardinality(HoldersIn(pc, keys, k)) = running[k]
      BY <1>3, NeedingFinite DEF HoldersIn, Good, Counted
    <3>2. CASE k \in ks
      <4>1. HoldersIn(pc', keys', k) = HoldersIn(pc, keys, k) \cup {r}
        BY <3>2, <2>1, <1>5
      <4>2. Cardinality(HoldersIn(pc, keys, k) \cup {r}) = Cardinality(HoldersIn(pc, keys, k)) + 1
        BY <3>1, <2>1, <1>5, FS_AddElement
      <4>3. Cardinality(HoldersIn(pc', keys', k)) = Cardinality(HoldersIn(pc, keys, k) \cup {r})
        BY <4>1, Zenon
      <4> QED
        BY <4>2, <4>3, <3>1, <3>2, <1>7
    <3>3. CASE k \notin ks
      <4>1. HoldersIn(pc', keys', k) = HoldersIn(pc, keys, k)
        BY <3>3, <2>1, <1>5
      <4>2. Cardinality(HoldersIn(pc', keys', k)) = Cardinality(HoldersIn(pc, keys, k))
        BY <4>1, Zenon
      <4> QED
        BY <4>2, <3>1, <3>3, <1>7
    <3> QED
      BY <3>2, <3>3
  <2>4. Limited(pc', keys')
    <3> SUFFICES ASSUME NEW k \in Keys, HoldersIn(pc', keys', k) # {}
                 PROVE  \E q \in Requirements : Cardinality(HoldersIn(pc', keys', k)) <= q[k]
      BY DEF Limited
    <3>1. CASE k \in ks
      <4>1. running[k] < mx[k] /\ mx[k] = req[k]
        BY <3>1, <1>7 DEF ImmediateOK, mx
      <4>2. running'[k] = running[k] + 1 /\ running[k] \in Nat /\ req[k] \in Nat
        BY <3>1, <1>2, <1>3, <1>7 DEF TypeOK
      <4> QED
        BY <4>1, <4>2, <2>3
    <3>2. CASE k \notin ks
      <4>1. HoldersIn(pc', keys', k) = HoldersIn(pc, keys, k)
        BY <3>2, <2>1, <1>5
      <4> QED
        BY <4>1, <1>3, Zenon DEF Good, Limited
    <3> QED
      BY <3>1, <3>2
  <2>5. Queued(queue', pc', keys')
    <3>1. ASSUME NEW k \in Keys PROVE WaitersIn(pc', keys', k) = WaitersIn(pc, keys, k)
      BY <2>1, <1>5
    <3> QED
      BY <3>1, <1>3, <1>7 DEF Good, Queued
  <2>6. Counted(running', pc', keys')
    BY <2>3 DEF Counted
  <2>7. Admits
    <3> SUFFICES ASSUME NEW q \in Reqs, pc[q] # "holding", pc'[q] = "holding", NEW k \in keys'[q]
                 PROVE  running'[k] <= max'[k] /\ k \notin blocked'
      BY DEF Admits, AdmitsFrom
    <3>1. q = r /\ k \in ks /\ k \in Keys
      BY <2>1, <1>1, <1>2, <1>3 DEF TypeOK
    <3>2. running[k] < mx[k] /\ k \notin blocked /\ running[k] \in Nat /\ mx[k] \in Nat
      BY <3>1, <1>2, <1>3, <1>7 DEF ImmediateOK, TypeOK
    <3> QED
      BY <3>1, <3>2, <1>1, <1>7
  <2> QED
    BY <2>1, <2>2, <2>4, <2>5, <2>6, <2>7, <1>3, <1>4, <1>6, <1>7 DEF IInv, Good, TypeOK
<1>8. CASE /\ pc' = [pc EXCEPT ![r] = "idle"]
           /\ timer' = timer \ ks
           /\ missed' = missed \cup {k \in ks : queue[k] # << >> /\ mx[k] > max[k]}
           /\ UNCHANGED <<running, queue>>
  <2>1. /\ pc' \in [Reqs -> PCs] /\ pc'[r] = "idle"
        /\ \A q \in Reqs : q # r => pc'[q] = pc[q]
    BY <1>3, <1>8 DEF TypeOK, PCs
  <2>2. ASSUME NEW k \in Keys
        PROVE  /\ HoldersIn(pc', keys', k) = HoldersIn(pc, keys, k)
               /\ WaitersIn(pc', keys', k) = WaitersIn(pc, keys, k)
    BY <2>1, <1>5
  <2>3. Counted(running', pc', keys') /\ Limited(pc', keys') /\ Queued(queue', pc', keys')
    <3>1. running' = running /\ queue' = queue
      BY <1>8
    <3> QED
      BY <2>2, <3>1, <1>3, Zenon DEF Good, Counted, Limited, Queued
  <2>4. Admits
    BY <2>1 DEF Admits, AdmitsFrom
  <2> QED
    BY <2>1, <2>3, <2>4, <1>2, <1>3, <1>4, <1>6, <1>8 DEF IInv, Good, TypeOK
<1>9. CASE /\ DrainQueues(running, que, [pc EXCEPT ![r] = "waiting"])
           /\ timer' = (timer \ ks) \cup DrainTimers(running, que)
  <2> DEFINE pcs == [pc EXCEPT ![r] = "waiting"]
  <2>1. /\ pcs \in [Reqs -> PCs] /\ pcs[r] = "waiting"
        /\ \A q \in Reqs : q # r => pcs[q] = pc[q]
    BY <1>3 DEF TypeOK, PCs
  <2> HIDE DEF pcs
  <2>2. ASSUME NEW k \in Keys
        PROVE  HoldersIn(pcs, keys', k) = HoldersIn(pc, keys, k)
    BY <2>1, <1>5
  <2>3. Counted(running, pcs, keys') /\ Limited(pcs, keys')
    BY <2>2, <1>3, Zenon DEF Good, Counted, Limited
  <2>4. ASSUME NEW k \in Keys
        PROVE  que[k] \in Seq(Reqs) /\ RangeOf(que[k]) = WaitersIn(pcs, keys', k) /\ NoDup(que[k])
    <3>1. queue[k] \in Seq(Reqs) /\ RangeOf(queue[k]) = WaitersIn(pc, keys, k) /\ NoDup(queue[k])
      BY <1>3 DEF Good, Queued
    <3>2. CASE k \in ks
      <4>1. WaitersIn(pcs, keys', k) = WaitersIn(pc, keys, k) \cup {r} /\ r \notin WaitersIn(pc, keys, k)
        BY <3>2, <2>1, <1>5
      <4>2. /\ Append(queue[k], r) \in Seq(Reqs)
            /\ RangeOf(Append(queue[k], r)) = RangeOf(queue[k]) \cup {r}
            /\ NoDup(Append(queue[k], r))
        BY <3>1, <4>1, AppendQueue
      <4>3. que[k] = Append(queue[k], r)
        BY <3>2
      <4> QED
        BY <3>1, <4>1, <4>2, <4>3
    <3>3. CASE k \notin ks
      <4>1. WaitersIn(pcs, keys', k) = WaitersIn(pc, keys, k) /\ que[k] = queue[k]
        BY <3>3, <2>1, <1>5
      <4> QED
        BY <3>1, <4>1
    <3> QED
      BY <3>2, <3>3
  <2>5. que \in [Keys -> Seq(Reqs)] /\ Queued(que, pcs, keys')
    BY <2>4 DEF Queued
  <2> HIDE DEF que
  <2>6. Good(running, que, pcs, keys', max', live')
    BY <2>1, <2>3, <2>5, <1>3, <1>4, <1>6 DEF Good
  <2>7. Good(running', queue', pc', keys', max', live') /\ missed' = {} /\ AdmitsFrom(pcs)
    BY <2>6, <1>9, DrainIInv, Zenon DEF pcs
  <2>9. Admits
    BY <2>1, <2>7, <1>1 DEF Admits, AdmitsFrom
  <2>8. timer' \subseteq Keys
    BY <1>9, <1>3 DEF DrainTimers, TypeOK
  <2> QED
    BY <2>7, <2>8, <2>9, <1>4 DEF IInv, TypeOK, Good
<1> QED
  BY <1>7, <1>8, <1>9 DEF AcquireMany, ks, mx

(* The composite release function preserves the invariant.                 *)
LEMMA ReleaseIInv ==
    ASSUME IInv, NEW r \in Reqs, Release(r)
    PROVE  IInv' /\ Admits
<1>1. TypeOK /\ Good(running, queue, pc, keys, max, live)
  BY DEF IInv
<1>2. CASE pc[r] = "released" /\ UNCHANGED vars
  BY <1>2, Stutter
<1>3. CASE pc[r] = "holding"
  <2> DEFINE run == [k \in Keys |->
                 IF k \in keys[r] /\ running[k] > 0 THEN running[k] - 1 ELSE running[k]]
             pcs == [pc EXCEPT ![r] = "released"]
  <2>1. /\ live' = live /\ max' = max /\ keys' = keys /\ blocked' = blocked
        /\ DrainQueues(run, queue, pcs)
        /\ timer' = timer \cup DrainTimers(run, queue)
                    \cup (keys[r] \cap live \cap IdleGates(running', queue'))
    BY <1>3 DEF Release
  <2>2. run \in [Keys -> Nat] /\ pcs \in [Reqs -> PCs]
    BY <1>1 DEF TypeOK, PCs
  <2>3. ASSUME NEW k \in Keys
        PROVE  /\ HoldersIn(pcs, keys, k) = HoldersIn(pc, keys, k) \ {r}
               /\ WaitersIn(pcs, keys, k) = WaitersIn(pc, keys, k)
               /\ k \in keys[r] <=> r \in HoldersIn(pc, keys, k)
    BY <1>1, <1>3 DEF HoldersIn, WaitersIn, Needing, Waiting, TypeOK
  <2>4. ASSUME NEW k \in Keys
        PROVE  Cardinality(HoldersIn(pcs, keys, k)) = run[k] /\ run[k] <= running[k]
    <3>1. /\ IsFiniteSet(HoldersIn(pc, keys, k))
          /\ Cardinality(HoldersIn(pc, keys, k)) = running[k]
          /\ running[k] \in Nat
      BY <1>1, NeedingFinite DEF HoldersIn, Good, Counted
    <3>2. Cardinality(HoldersIn(pcs, keys, k)) = Cardinality(HoldersIn(pc, keys, k) \ {r})
      BY <2>3, Zenon
    <3>3. CASE k \in keys[r]
      <4>1. Cardinality(HoldersIn(pc, keys, k) \ {r}) = Cardinality(HoldersIn(pc, keys, k)) - 1
        BY <3>1, <3>3, <2>3, FS_RemoveElement
      <4>2. running[k] # 0
        BY <3>1, <3>3, <2>3, FS_EmptySet
      <4> QED
        BY <3>1, <3>2, <3>3, <4>1, <4>2
    <3>4. CASE k \notin keys[r]
      <4>1. HoldersIn(pc, keys, k) \ {r} = HoldersIn(pc, keys, k)
        BY <3>4, <2>3
      <4>2. Cardinality(HoldersIn(pc, keys, k) \ {r}) = Cardinality(HoldersIn(pc, keys, k))
        BY <4>1, Zenon
      <4> QED
        BY <3>1, <3>2, <3>4, <4>2
    <3> QED
      BY <3>3, <3>4
  <2>5. Counted(run, pcs, keys)
    BY <2>4 DEF Counted
  <2>6. Queued(queue, pcs, keys) /\ WaitedLimits(pcs, keys, max)
    BY <2>3, <1>1, Zenon DEF Good, Queued, WaitedLimits
  <2>7. Kept(pcs, keys, live)
    BY <1>1, <1>3 DEF Good, Kept, TypeOK
  <2>8. Limited(pcs, keys)
    <3> SUFFICES ASSUME NEW k \in Keys, HoldersIn(pcs, keys, k) # {}
                 PROVE  \E q \in Requirements : Cardinality(HoldersIn(pcs, keys, k)) <= q[k]
      BY DEF Limited
    <3>1. HoldersIn(pc, keys, k) # {}
      BY <2>3
    <3>2. PICK q \in Requirements : Cardinality(HoldersIn(pc, keys, k)) <= q[k]
      BY <3>1, <1>1 DEF Good, Limited
    <3>3. Cardinality(HoldersIn(pc, keys, k)) = running[k] /\ running[k] \in Nat
      BY <1>1 DEF Good, Counted
    <3>4. q[k] \in Nat /\ run[k] \in Nat
      BY <2>2, ConstantsAssumption
    <3> HIDE DEF run, pcs
    <3> QED
      BY <3>2, <3>3, <3>4, <2>4
  <2> HIDE DEF run, pcs
  <2>9. Good(run, queue, pcs, keys', max', live')
    BY <2>1, <2>2, <2>5, <2>6, <2>7, <2>8, <1>1 DEF Good
  <2>10. Good(running', queue', pc', keys', max', live') /\ missed' = {} /\ AdmitsFrom(pcs)
    BY <2>1, <2>9, DrainIInv, Zenon
  <2>12. Admits
    <3>1. \A q \in Reqs : pc[q] # "holding" => pcs[q] # "holding"
      BY <1>1 DEF pcs, TypeOK
    <3> QED
      BY <2>10, <3>1 DEF Admits, AdmitsFrom
  <2>11. timer' \subseteq Keys
    BY <2>1, <1>1 DEF DrainTimers, IdleGates, TypeOK
  <2> QED
    BY <2>1, <2>10, <2>11, <2>12, <1>1 DEF IInv, TypeOK, Good
<1> QED
  BY <1>2, <1>3 DEF Release

(* Leaving the queues by timeout or abort preserves the invariant.         *)
LEMMA GiveUpIInv ==
    ASSUME IInv, NEW r \in Reqs, GiveUp(r)
    PROVE  IInv' /\ Admits
<1> DEFINE que == [k \in Keys |-> IF k \in keys[r] THEN Without(queue[k], r) ELSE queue[k]]
           pcs == [pc EXCEPT ![r] = "idle"]
<1>1. TypeOK /\ Good(running, queue, pc, keys, max, live)
  BY DEF IInv
<1>2. /\ pc[r] = "waiting"
      /\ live' = live /\ max' = max /\ keys' = keys /\ blocked' = blocked
      /\ DrainQueues(running, que, pcs)
      /\ timer' = timer \cup (keys[r] \cap live \cap IdleGates(running, que))
                  \cup DrainTimers(running, que)
  BY DEF GiveUp
<1>3. pcs \in [Reqs -> PCs]
  BY <1>1 DEF TypeOK, PCs
<1>4. ASSUME NEW k \in Keys
      PROVE  /\ HoldersIn(pcs, keys, k) = HoldersIn(pc, keys, k)
             /\ WaitersIn(pcs, keys, k) = WaitersIn(pc, keys, k) \ {r}
             /\ k \notin keys[r] => r \notin WaitersIn(pc, keys, k)
  BY <1>1, <1>2 DEF HoldersIn, WaitersIn, Needing, Waiting, TypeOK
<1>5. Counted(running, pcs, keys) /\ Limited(pcs, keys)
  BY <1>1, <1>4, Zenon DEF Good, Counted, Limited
<1>6. Kept(pcs, keys, live) /\ WaitedLimits(pcs, keys, max)
  BY <1>1, <1>2, <1>4 DEF Good, Kept, WaitedLimits, TypeOK
<1>7. ASSUME NEW k \in Keys
      PROVE  que[k] \in Seq(Reqs) /\ RangeOf(que[k]) = WaitersIn(pcs, keys, k) /\ NoDup(que[k])
  <2>1. queue[k] \in Seq(Reqs) /\ RangeOf(queue[k]) = WaitersIn(pc, keys, k) /\ NoDup(queue[k])
    BY <1>1 DEF Good, Queued
  <2>2. CASE k \in keys[r]
    <3>1. /\ Without(queue[k], r) \in Seq(Reqs)
          /\ RangeOf(Without(queue[k], r)) = RangeOf(queue[k]) \ {r}
          /\ NoDup(Without(queue[k], r))
      BY <2>1, WithoutQueue
    <3>2. que[k] = Without(queue[k], r)
      BY <2>2
    <3> QED
      BY <2>1, <3>1, <3>2, <1>4
  <2>3. CASE k \notin keys[r]
    <3>1. que[k] = queue[k] /\ WaitersIn(pcs, keys, k) = WaitersIn(pc, keys, k)
      BY <2>3, <1>4
    <3> QED
      BY <2>1, <3>1
  <2> QED
    BY <2>2, <2>3
<1>8. que \in [Keys -> Seq(Reqs)] /\ Queued(que, pcs, keys)
  BY <1>7 DEF Queued
<1> HIDE DEF que, pcs
<1>9. Good(running, que, pcs, keys', max', live')
  BY <1>1, <1>2, <1>3, <1>5, <1>6, <1>8 DEF Good
<1>10. Good(running', queue', pc', keys', max', live') /\ missed' = {} /\ AdmitsFrom(pcs)
  BY <1>2, <1>9, DrainIInv, Zenon
<1>12. Admits
  <2>1. \A q \in Reqs : pc[q] # "holding" => pcs[q] # "holding"
    BY <1>1 DEF pcs, TypeOK
  <2> QED
    BY <1>10, <2>1 DEF Admits, AdmitsFrom
<1>11. timer' \subseteq Keys
  BY <1>1, <1>2 DEF DrainTimers, IdleGates, TypeOK
<1> QED
  BY <1>1, <1>2, <1>10, <1>11, <1>12 DEF IInv, TypeOK, Good

(* A gate that is idle is used by nobody.                                  *)
LEMMA IdleUnused ==
    ASSUME NEW run, NEW que, NEW pcs, NEW kk, NEW mx, NEW lv, NEW k \in Keys,
           Good(run, que, pcs, kk, mx, lv), k \in IdleGates(run, que)
    PROVE  Kept(pcs, kk, lv \ {k})
<1>1. run[k] = 0 /\ que[k] = << >>
  BY DEF IdleGates
<1>2. WaitersIn(pcs, kk, k) = {}
  <2>1. RangeOf(que[k]) = {}
    BY <1>1 DEF RangeOf
  <2> QED
    BY <2>1 DEF Good, Queued
<1>3. HoldersIn(pcs, kk, k) = {}
  <2>1. Cardinality(HoldersIn(pcs, kk, k)) = 0
    BY <1>1 DEF Good, Counted
  <2> QED
    BY <2>1, NeedingFinite, Zenon DEF HoldersIn
<1>4. \A q \in Reqs : pcs[q] \in {"waiting", "holding"} => k \notin kk[q]
  BY <1>2, <1>3 DEF HoldersIn, WaitersIn, Needing, Waiting
<1> QED
  BY <1>4 DEF Good, Kept

(* markBlocked, the end of a block and a cleanup timer preserve it.        *)
LEMMA BlockIInv ==
    ASSUME IInv, NEW k \in Keys, MarkBlocked(k) \/ BlockLapses(k) \/ CleanupTimer(k)
    PROVE  IInv' /\ Admits
<1>1. TypeOK /\ Good(running, queue, pc, keys, max, live)
  BY DEF IInv
<1>2. running' = running /\ queue' = queue /\ pc' = pc /\ keys' = keys
  BY DEF MarkBlocked, BlockLapses, CleanupTimer
<1>3. TypeOK'
  BY <1>1, <1>2 DEF TypeOK, MarkBlocked, BlockLapses, CleanupTimer
<1>4. Kept(pc, keys, live')
  <2>1. CASE live \subseteq live'
    BY <2>1, <1>1 DEF Good, Kept
  <2>2. CASE k \in IdleGates(running, queue) /\ live' = live \ {k}
    BY <2>2, <1>1, IdleUnused
  <2> QED
    BY <2>1, <2>2 DEF MarkBlocked, BlockLapses, CleanupTimer
<1>5. WaitedLimits(pc, keys, max')
  <2> SUFFICES ASSUME NEW j \in Keys, WaitersIn(pc, keys, j) # {}
               PROVE  \E q \in Requirements : max'[j] = q[j]
    BY DEF WaitedLimits
  <2>1. j \in live
    BY <1>1 DEF Good, Kept, WaitersIn, Needing, Waiting
  <2>2. max'[j] = max[j]
    BY <2>1, <1>1 DEF MarkBlocked, BlockLapses, CleanupTimer, TypeOK
  <2> QED
    BY <2>2, <1>1 DEF Good, WaitedLimits
<1>6. Good(running, queue, pc, keys, max', live')
  BY <1>1, <1>3, <1>4, <1>5 DEF Good, TypeOK
<1>7. Good(running', queue', pc', keys', max', live')
  BY <1>2, <1>6, Zenon
<1>8. Admits
  BY <1>2 DEF Admits, AdmitsFrom
<1> QED
  BY <1>3, <1>7, <1>8 DEF IInv

(* unblock preserves it: it drains before it removes an idle gate.         *)
LEMMA UnblockIInv ==
    ASSUME IInv, NEW k \in Keys, Unblock(k)
    PROVE  IInv' /\ Admits
<1> DEFINE idle == {k} \cap IdleGates(running', queue')
<1>1. TypeOK /\ Good(running, queue, pc, keys, max, live)
  BY DEF IInv
<1>2. /\ blocked' = blocked \ {k} /\ max' = max /\ keys' = keys
      /\ DrainQueues(running, queue, pc)
      /\ live' = live \ idle
      /\ timer' = (timer \cup DrainTimers(running, queue)) \ idle
  BY DEF Unblock
<1>3. Good(running, queue, pc, keys', max', live)
  BY <1>1, <1>2, Zenon
<1>4. Good(running', queue', pc', keys', max', live) /\ missed' = {} /\ Admits
  BY <1>2, <1>3, DrainIInv, Zenon DEF Admits
<1>5. Kept(pc', keys', live')
  <2>1. CASE k \in IdleGates(running', queue')
    <3>1. live' = live \ {k}
      BY <2>1, <1>2
    <3> QED
      BY <2>1, <3>1, <1>4, IdleUnused
  <2>2. CASE k \notin IdleGates(running', queue')
    <3>1. live' = live
      BY <2>2, <1>2
    <3> QED
      BY <3>1, <1>4 DEF Good
  <2> QED
    BY <2>1, <2>2
<1>6. timer' \subseteq Keys /\ live' \subseteq Keys /\ blocked' \subseteq Keys
  BY <1>1, <1>2 DEF DrainTimers, TypeOK
<1> QED
  BY <1>4, <1>5, <1>6 DEF IInv, TypeOK, Good

-----------------------------------------------------------------------------
(* Every step preserves the invariant and admits only within the limits.   *)
LEMMA NextIInv == IInv /\ [Next]_vars => IInv' /\ Admits
<1> SUFFICES ASSUME IInv, [Next]_vars PROVE IInv' /\ Admits
  OBVIOUS
<1>1. CASE UNCHANGED vars
  BY <1>1, Stutter
<1>2. CASE \E r \in Reqs, req \in Requirements, b \in QueueBounds, ff \in BOOLEAN :
              AcquireMany(r, req, b, ff)
  BY <1>2, AcquireIInv
<1>3. CASE \E r \in Reqs : Release(r) \/ WaitTimeout(r) \/ Abort(r)
  BY <1>3, ReleaseIInv, GiveUpIInv DEF WaitTimeout, Abort
<1>4. CASE \E k \in AccountKeys : MarkBlocked(k) \/ BlockLapses(k) \/ Unblock(k)
  BY <1>4, BlockIInv, UnblockIInv, ConstantsAssumption
<1>5. CASE \E k \in Keys : CleanupTimer(k)
  BY <1>5, BlockIInv
<1> QED
  BY <1>1, <1>2, <1>3, <1>4, <1>5 DEF Next

(* The inductive invariant holds in every reachable state.                 *)
THEOREM Invariance == Spec => []IInv
<1>1. IInv /\ [Next]_vars => IInv'
  BY NextIInv
<1> QED
  BY InitIInv, <1>1, PTL DEF Spec

(* The variables of the admission control keep their types.                *)
THEOREM TypeCorrectness == Spec => []TypeOK
<1>1. IInv => TypeOK
  BY DEF IInv
<1> QED
  BY Invariance, <1>1, PTL

(* No partial, leaked or doubly returned reservation: for any number of    *)
(* gates, requests and limits, acquireMany, the composite release, timeout *)
(* and abort keep every gate's count equal to the requests running in it.  *)
THEOREM ReservationsAccounted == Spec => []GatesCountHolders
<1>1. IInv => GatesCountHolders
  BY DEF IInv, Good, Counted, HoldersIn, GatesCountHolders, Holders
<1> QED
  BY Invariance, <1>1, PTL

(* Gate queues and waiting requests always agree (removeRequest).          *)
THEOREM QueuesConsistent == Spec => []QueuesHoldWaiters
<1>1. IInv => QueuesHoldWaiters
  BY DEF IInv, Good, Queued, WaitersIn, QueuesHoldWaiters
<1> QED
  BY Invariance, <1>1, PTL

(* Cleanup never removes a gate in use (cleanupGateIfIdle).                *)
THEOREM CleanupSpares == Spec => []UsedGatesStay
<1>1. IInv => UsedGatesStay
  BY DEF IInv, Good, Kept, UsedGatesStay
<1> QED
  BY Invariance, <1>1, PTL

(* Whoever waits stands in the queue of each of its gates, and whoever     *)
(* waits or runs finds them in the Map (removeRequest, cleanupGateIfIdle). *)
THEOREM RequestsKept == Spec => []NobodyLost
<1>1. QueuesHoldWaiters /\ UsedGatesStay => NobodyLost
  BY DEF NobodyLost
<1> QED
  BY QueuesConsistent, CleanupSpares, <1>1, PTL

(* The requests running in a gate never exceed the largest limit any       *)
(* caller configures for it, however the limits change while they run.     *)
THEOREM ConcurrencyBounded == Spec => []HoldersWithinConfiguredLimit
<1>1. IInv => HoldersWithinConfiguredLimit
  BY DEF IInv, Good, Limited, HoldersIn, HoldersWithinConfiguredLimit, Holders
<1> QED
  BY Invariance, <1>1, PTL

(* Every admission respects the limits and blocks in force at that moment, *)
(* also one by a release that hands its own slots on (acquireMany,         *)
(* drainQueues).                                                           *)
THEOREM AdmissionsBounded == Spec => AdmissionWithinLimit
<1>1. IInv /\ [Next]_vars =>
        [\A r \in Reqs : pc[r] # "holding" /\ pc'[r] = "holding" =>
            \A k \in keys'[r] : running'[k] <= max'[k] /\ k \notin blocked']_vars
  BY NextIInv DEF Admits, AdmitsFrom
<1> QED
  BY Invariance, <1>1, PTL DEF Spec, AdmissionWithinLimit

-----------------------------------------------------------------------------
(* The order of the queues, and what drainQueues leaves standing.          *)

(* The requests of a set that can be acquired are the first ones of every  *)
(* queue they stand in.                                                    *)
LEMMA Prefixes ==
    ASSUME NEW run, NEW que, NEW pcs, NEW kk, NEW mx, NEW blk, NEW G \in SUBSET Waiting(pcs),
           Drainable(run, que, pcs, kk), CanAcquireAll(G, run, que, mx, blk, kk), NEW k \in Keys
    PROVE  LET n == Cardinality(Needing(G, k, kk))
           IN  /\ n \in 0..Len(que[k])
               /\ Needing(G, k, kk) = {que[k][i] : i \in 1..n}
               /\ n > 0 => k \notin blk /\ run[k] + n <= mx[k]
<1> DEFINE n == Cardinality(Needing(G, k, kk))
<1>1. G \subseteq Reqs
  BY DEF Waiting
<1>2. n \in Nat /\ (n = 0 <=> Needing(G, k, kk) = {})
  BY <1>1, NeedingFinite
<1>3. Len(que[k]) \in Nat
  <2>1. que[k] \in Seq(Reqs)
    BY DEF Drainable
  <2> QED
    BY <2>1, LenProperties
<1>4. n > 0 => /\ k \notin blk /\ run[k] + n <= mx[k] /\ n <= Len(que[k])
               /\ Needing(G, k, kk) = {que[k][i] : i \in 1..n}
  BY DEF CanAcquireAll
<1> HIDE DEF n
<1>5. CASE n > 0
  BY <1>2, <1>3, <1>4, <1>5 DEF n
<1>6. CASE n = 0
  <2>1. {que[k][i] : i \in 1..n} = {}
    BY <1>6
  <2> QED
    BY <1>2, <1>3, <1>6, <2>1 DEF n
<1> QED
  BY <1>2, <1>5, <1>6

(* One more request can be acquired when it is the next one of every queue *)
(* and there is room for it.                                               *)
LEMMA OneMore ==
    ASSUME NEW run, NEW que, NEW pcs, NEW kk, NEW mx, NEW blk, NEW G \in SUBSET Waiting(pcs),
           Drainable(run, que, pcs, kk), mx \in [Keys -> Nat],
           CanAcquireAll(G, run, que, mx, blk, kk), NEW r \in Waiting(pcs), r \notin G,
           \A k \in kk[r] : LET n == Cardinality(Needing(G, k, kk))
                            IN  /\ n + 1 <= Len(que[k]) /\ que[k][n + 1] = r
                                /\ run[k] + n + 1 <= mx[k] /\ k \notin blk
    PROVE  CanAcquireAll(G \cup {r}, run, que, mx, blk, kk)
<1> DEFINE H == G \cup {r}
<1> SUFFICES ASSUME NEW k \in Keys
             PROVE  LET m == Cardinality(Needing(H, k, kk))
                    IN  m > 0 => /\ k \notin blk /\ run[k] + m <= mx[k] /\ m <= Len(que[k])
                                 /\ Needing(H, k, kk) = {que[k][i] : i \in 1..m}
  BY DEF CanAcquireAll
<1> DEFINE n == Cardinality(Needing(G, k, kk))
           m == Cardinality(Needing(H, k, kk))
<1>1. /\ n \in 0..Len(que[k]) /\ Needing(G, k, kk) = {que[k][i] : i \in 1..n}
      /\ n > 0 => k \notin blk /\ run[k] + n <= mx[k]
  BY Prefixes
<1>2. CASE k \notin kk[r]
  <2>1. Needing(H, k, kk) = Needing(G, k, kk)
    BY <1>2 DEF Needing
  <2>2. m = n
    BY <2>1, Zenon
  <2>3. Needing(H, k, kk) = {que[k][i] : i \in 1..m}
    BY <1>1, <2>1, <2>2
  <2> HIDE DEF m, n, H
  <2>4. m > 0 => k \notin blk /\ run[k] + m <= mx[k] /\ m <= Len(que[k])
    <3>1. que[k] \in Seq(Reqs)
      BY DEF Drainable
    <3>2. Len(que[k]) \in Nat
      BY <3>1, LenProperties
    <3> QED
      BY <1>1, <2>2, <3>2
  <2> QED
    BY <2>3, <2>4 DEF m
<1>3. CASE k \in kk[r]
  <2>1. Needing(H, k, kk) = Needing(G, k, kk) \cup {r} /\ r \notin Needing(G, k, kk)
    BY <1>3 DEF Needing
  <2>2. m = n + 1
    <3>1. IsFiniteSet(Needing(G, k, kk))
      <4>1. G \subseteq Reqs
        BY DEF Waiting
      <4> QED
        BY <4>1, NeedingFinite
    <3>2. Cardinality(Needing(G, k, kk) \cup {r}) = n + 1
      BY <2>1, <3>1, FS_AddElement
    <3> QED
      BY <2>1, <3>2, Zenon
  <2>3. n + 1 <= Len(que[k]) /\ que[k][n + 1] = r /\ run[k] + n + 1 <= mx[k] /\ k \notin blk
    BY <1>3
  <2>4. run[k] \in Nat /\ mx[k] \in Nat
    BY DEF Drainable
  <2> HIDE DEF m, n, H
  <2>5. Needing(H, k, kk) = {que[k][i] : i \in 1..(n + 1)}
    <3>1. 1..(n + 1) = (1..n) \cup {n + 1}
      BY <1>1
    <3>2. Needing(H, k, kk) = {que[k][i] : i \in 1..n} \cup {que[k][n + 1]}
      BY <1>1, <2>1, <2>3
    <3> QED
      BY <3>1, <3>2
  <2>6. run[k] + m <= mx[k]
    BY <1>1, <2>2, <2>3, <2>4
  <2> QED
    BY <2>2, <2>3, <2>5, <2>6 DEF m
<1> QED
  BY <1>2, <1>3

(* A request that could be acquired alone.                                 *)
Free(r, run, que, mx, blk, kk) ==
    \A k \in kk[r] : k \notin blk /\ run[k] < mx[k] /\ Len(que[k]) > 0 /\ que[k][1] = r

LEMMA CanAcquireOne ==
    ASSUME NEW run \in [Keys -> Nat], NEW que, NEW mx \in [Keys -> Nat], NEW blk,
           NEW kk \in [Reqs -> SUBSET Keys], NEW r \in Reqs,
           CanAcquireAll({r}, run, que, mx, blk, kk)
    PROVE  Free(r, run, que, mx, blk, kk)
<1> SUFFICES ASSUME NEW k \in kk[r]
             PROVE  k \notin blk /\ run[k] < mx[k] /\ Len(que[k]) > 0 /\ que[k][1] = r
  BY DEF Free
<1>1. k \in Keys /\ Needing({r}, k, kk) = {r}
  BY DEF Needing
<1>2. Cardinality(Needing({r}, k, kk)) = 1
  <2>1. Cardinality({r}) = 1
    BY FS_Singleton
  <2>2. Cardinality(Needing({r}, k, kk)) = Cardinality({r})
    BY <1>1, Zenon
  <2> QED
    BY <2>1, <2>2
<1> DEFINE n == Cardinality(Needing({r}, k, kk))
<1>3. n > 0 => /\ k \notin blk /\ run[k] + n <= mx[k] /\ n <= Len(que[k])
               /\ Needing({r}, k, kk) = {que[k][i] : i \in 1..n}
  BY <1>1 DEF CanAcquireAll
<1>4. run[k] \in Nat /\ mx[k] \in Nat /\ n = 1
  BY <1>1, <1>2
<1> HIDE DEF n
<1>5. k \notin blk /\ run[k] + 1 <= mx[k] /\ 1 <= Len(que[k])
  BY <1>3, <1>4
<1>6. que[k][1] \in {que[k][i] : i \in 1..n}
  <2>1. 1 \in 1..n
    BY <1>4
  <2> QED
    BY <2>1
<1>7. que[k][1] \in {r}
  <2>1. n > 0
    BY <1>4
  <2> QED
    BY <1>1, <1>3, <1>6, <2>1, Zenon
<1> QED
  BY <1>4, <1>5, <1>7

(* After drainQueues nobody is left that could be acquired.                *)
LEMMA DrainLeavesNone ==
    ASSUME NEW run, NEW que, NEW pcs, NEW kk, NEW mx \in [Keys -> Nat], NEW blk,
           NEW G \in SUBSET Waiting(pcs), Drainable(run, que, pcs, kk),
           DrainGrants(G, Waiting(pcs), run, que, mx, blk, kk), NEW r \in Waiting(pcs) \ G,
           Free(r, GrantedRunning(G, run, kk), GrantedQueue(G, que, kk), mx, blk, kk)
    PROVE  FALSE
<1>1. CanAcquireAll(G, run, que, mx, blk, kk)
  BY DEF DrainGrants
<1>2. ASSUME NEW k \in kk[r]
      PROVE  LET n == Cardinality(Needing(G, k, kk))
             IN  /\ n + 1 <= Len(que[k]) /\ que[k][n + 1] = r
                 /\ run[k] + n + 1 <= mx[k] /\ k \notin blk
  <2> DEFINE n == Cardinality(Needing(G, k, kk))
             rest == SubSeq(que[k], n + 1, Len(que[k]))
  <2>1. k \in Keys /\ que[k] \in Seq(Reqs) /\ run[k] \in Nat /\ mx[k] \in Nat
    BY DEF Drainable, Waiting
  <2>2. n \in 0..Len(que[k])
    BY <1>1, <2>1, Prefixes
  <2>3. GrantedRunning(G, run, kk)[k] = run[k] + n /\ GrantedQueue(G, que, kk)[k] = rest
    BY <2>1 DEF GrantedRunning, GrantedQueue
  <2>4. k \notin blk /\ run[k] + n < mx[k] /\ Len(rest) > 0 /\ rest[1] = r
    BY <2>3 DEF Free
  <2>5. Len(que[k]) \in Nat
    BY <2>1, LenProperties
  <2> HIDE DEF n
  <2>6. Len(rest) = Len(que[k]) - n /\ \A i \in 1..Len(que[k]) - n : rest[i] = que[k][n + i]
    BY <2>1, <2>2, <2>5, SubSeqProperties
  <2> HIDE DEF rest
  <2> QED
    BY <2>1, <2>2, <2>4, <2>5, <2>6 DEF n
<1>3. CanAcquireAll(G \cup {r}, run, que, mx, blk, kk)
  BY <1>1, <1>2, OneMore
<1> QED
  BY <1>3 DEF DrainGrants

(* Requests stand in the same order in every queue they share: that of     *)
(* their arrival.                                                          *)
Ranked(que) ==
    \E rank \in [Reqs -> Nat] : \A k \in Keys : \A x, y \in Reqs :
        Before(que[k], x, y) => rank[x] < rank[y]

(* Then drainQueues has only one outcome: of two sets that can be acquired,*)
(* the first request of the one that is not in the other could follow.     *)
LEMMA DrainContains ==
    ASSUME NEW run, NEW que, NEW pcs, NEW kk, NEW mx \in [Keys -> Nat], NEW blk,
           Drainable(run, que, pcs, kk), Ranked(que),
           NEW G \in SUBSET Waiting(pcs), DrainGrants(G, Waiting(pcs), run, que, mx, blk, kk),
           NEW H \in SUBSET Waiting(pcs), CanAcquireAll(H, run, que, mx, blk, kk)
    PROVE  H \subseteq G
<1> SUFFICES ASSUME H \ G # {} PROVE FALSE
  OBVIOUS
<1>0. H \subseteq Reqs
  BY DEF Waiting
<1>1. PICK rank \in [Reqs -> Nat] : \A k \in Keys : \A x, y \in Reqs :
        Before(que[k], x, y) => rank[x] < rank[y]
  BY DEF Ranked
<1>2. PICK r \in H \ G : \A x \in H \ G : rank[r] <= rank[x]
  <2> DEFINE T == {rank[x] : x \in H \ G}
  <2>1. T \in SUBSET Nat /\ T # {}
    BY <1>0
  <2>2. PICK m \in T : \A j \in T : m <= j
    <3> HIDE DEF T
    <3> QED
      BY <2>1, LeastNat
  <2>3. PICK r \in H \ G : rank[r] = m
    OBVIOUS
  <2>4. ASSUME NEW x \in H \ G PROVE rank[r] <= rank[x]
    BY <2>2, <2>3
  <2> QED
    BY <2>4
<1>3. CanAcquireAll(G, run, que, mx, blk, kk)
  BY DEF DrainGrants
<1>4. ASSUME NEW k \in Keys
      PROVE  LET m == Cardinality(Needing(H, k, kk))
             IN  /\ m \in 0..Len(que[k]) /\ Needing(H, k, kk) = {que[k][i] : i \in 1..m}
                 /\ m > 0 => k \notin blk /\ run[k] + m <= mx[k]
  BY Prefixes
<1>5. ASSUME NEW k \in kk[r]
      PROVE  LET n == Cardinality(Needing(G, k, kk))
             IN  /\ n + 1 <= Len(que[k]) /\ que[k][n + 1] = r
                 /\ run[k] + n + 1 <= mx[k] /\ k \notin blk
  <2> DEFINE n == Cardinality(Needing(G, k, kk))
             m == Cardinality(Needing(H, k, kk))
  <2>1. k \in Keys /\ que[k] \in Seq(Reqs) /\ run[k] \in Nat /\ mx[k] \in Nat /\ NoDup(que[k])
    BY <1>0 DEF Drainable, Queued
  <2>2. n \in 0..Len(que[k]) /\ Needing(G, k, kk) = {que[k][i] : i \in 1..n}
    BY <1>3, <2>1, Prefixes
  <2>3. /\ m \in 0..Len(que[k]) /\ Needing(H, k, kk) = {que[k][i] : i \in 1..m}
        /\ m > 0 => k \notin blk /\ run[k] + m <= mx[k]
    BY <1>4, <2>1
  <2>4. Len(que[k]) \in Nat
    BY <2>1, LenProperties
  <2> HIDE DEF n, m
  <2>5. PICK p \in 1..m : que[k][p] = r
    <3>1. r \in Needing(H, k, kk)
      BY DEF Needing
    <3> QED
      BY <2>3, <3>1
  <2>6. ~(p <= n)
    <3> SUFFICES ASSUME p <= n PROVE FALSE
      OBVIOUS
    <3>1. p \in 1..n
      BY <2>2, <2>3
    <3>2. r \in Needing(G, k, kk)
      BY <2>2, <2>5, <3>1
    <3> QED
      BY <3>2 DEF Needing
  <2>7. ~(n + 1 < p)
    <3> SUFFICES ASSUME n + 1 < p PROVE FALSE
      OBVIOUS
    <3> DEFINE x == que[k][n + 1]
    <3>1. n + 1 \in 1..m /\ n + 1 \in 1..Len(que[k]) /\ p \in 1..Len(que[k])
      BY <2>2, <2>3, <2>4
    <3>2. x \in Needing(H, k, kk)
      BY <2>3, <3>1
    <3>3. x \in H /\ k \in kk[x]
      BY <3>2 DEF Needing
    <3>4. x \notin G
      <4> SUFFICES ASSUME x \in G PROVE FALSE
        OBVIOUS
      <4>1. x \in Needing(G, k, kk)
        BY <3>3 DEF Needing
      <4>2. PICK i \in 1..n : x = que[k][i]
        BY <2>2, <4>1
      <4>3. i \in 1..Len(que[k]) /\ i # n + 1
        BY <2>2, <2>4
      <4> QED
        BY <2>1, <3>1, <4>2, <4>3 DEF NoDup
    <3>5. Before(que[k], x, r)
      BY <2>5, <3>1 DEF Before
    <3> HIDE DEF x
    <3>6. rank[x] < rank[r] /\ rank[r] <= rank[x] /\ rank[x] \in Nat /\ rank[r] \in Nat
      BY <1>0, <1>1, <1>2, <2>1, <3>3, <3>4, <3>5
    <3> QED
      BY <3>6
  <2>8. p = n + 1 /\ p <= m /\ m > 0
    BY <2>2, <2>3, <2>6, <2>7
  <2> QED
    BY <2>1, <2>2, <2>3, <2>4, <2>5, <2>8 DEF n
<1>6. CanAcquireAll(G \cup {r}, run, que, mx, blk, kk)
  BY <1>3, <1>5, OneMore
<1> QED
  BY <1>6 DEF DrainGrants

(* And it has one: a largest set that can be acquired.                     *)
LEMMA DrainExists ==
    ASSUME NEW run, NEW que, NEW pcs, NEW kk, NEW mx, NEW blk
    PROVE  \E G \in SUBSET Waiting(pcs) : DrainGrants(G, Waiting(pcs), run, que, mx, blk, kk)
<1> DEFINE A == {G \in SUBSET Waiting(pcs) : CanAcquireAll(G, run, que, mx, blk, kk)}
           T == {Cardinality(G) : G \in A}
           c == Cardinality(Reqs)
<1>1. IsFiniteSet(Reqs) /\ c \in Nat
  BY ConstantsAssumption, FS_CardinalityType
<1>2. ASSUME NEW G \in A PROVE IsFiniteSet(G) /\ Cardinality(G) \in 0..c
  <2>1. G \subseteq Reqs
    BY DEF Waiting
  <2>2. IsFiniteSet(G) /\ Cardinality(G) <= c
    BY <1>1, <2>1, FS_Subset
  <2>3. Cardinality(G) \in Nat
    BY <2>2, FS_CardinalityType
  <2> QED
    BY <1>1, <2>2, <2>3
<1>3. T \in SUBSET Nat /\ IsFiniteSet(T)
  <2>1. T \subseteq 0..c
    BY <1>2
  <2>2. IsFiniteSet(0..c)
    BY <1>1, FS_Interval
  <2> HIDE DEF T, c
  <2>3. IsFiniteSet(T)
    BY <2>1, <2>2, FS_Subset, Zenon
  <2>4. T \in SUBSET Nat
    BY <1>1, <2>1
  <2> QED
    BY <2>3, <2>4
<1>4. {} \in A
  <2>1. ASSUME NEW k PROVE Cardinality(Needing({}, k, kk)) = 0
    <3>1. Needing({}, k, kk) = {}
      BY DEF Needing
    <3> QED
      BY <3>1, FS_EmptySet, Zenon
  <2>2. CanAcquireAll({}, run, que, mx, blk, kk)
    BY <2>1 DEF CanAcquireAll
  <2> QED
    BY <2>2
<1>5. PICK G \in A : \A H \in A : Cardinality(H) <= Cardinality(G)
  <2>1. T # {}
    BY <1>4
  <2>2. PICK m \in T : \A j \in T : j <= m
    <3> HIDE DEF T
    <3> QED
      BY <1>3, <2>1, GreatestNat
  <2>3. PICK G \in A : Cardinality(G) = m
    OBVIOUS
  <2>4. ASSUME NEW H \in A PROVE Cardinality(H) <= Cardinality(G)
    BY <2>2, <2>3
  <2> QED
    BY <2>4
<1>6. ASSUME NEW r \in Waiting(pcs) \ G, CanAcquireAll(G \cup {r}, run, que, mx, blk, kk)
      PROVE  FALSE
  <2>1. G \cup {r} \in A
    BY <1>6
  <2>2. IsFiniteSet(G) /\ Cardinality(G) \in Nat
    BY <1>2
  <2>3. Cardinality(G \cup {r}) = Cardinality(G) + 1
    BY <2>2, FS_AddElement
  <2>4. Cardinality(G \cup {r}) <= Cardinality(G)
    BY <1>5, <2>1
  <2> QED
    BY <2>2, <2>3, <2>4
<1> QED
  BY <1>5, <1>6 DEF DrainGrants

-----------------------------------------------------------------------------
(* The handlers keep that order.                                           *)

Steady == TypeOK /\ Queued(queue, pc, keys) /\ Ranked(queue) /\ OnlyMissedRoomStrands

(* What NoOvertaking says of one step.                                     *)
Fifo ==
    \A r \in Reqs : pc[r] # "holding" /\ pc'[r] = "holding" =>
        \A k \in keys'[r] : \A i \in 1..Len(queue[k]) :
            (\A j \in 1..i : queue[k][j] # r) =>
                queue[k][i] \notin {queue'[k][j] : j \in 1..Len(queue'[k])}

Orderly == Ranked(queue') /\ OnlyMissedRoomStrands' /\ Fifo

(* Queues from which a handler may drain: those that stay keep their place.*)
InPlace(que) ==
    \A k \in Keys : \A x, y \in Reqs :
        Before(que[k], x, y) /\ y \in RangeOf(queue[k]) => Before(queue[k], x, y)

LEMMA DrainOrderly ==
    ASSUME Steady, NEW run, NEW que, NEW pcs, Drainable(run, que, pcs, keys'),
           max' \in [Keys -> Nat], DrainQueues(run, que, pcs), Ranked(que), InPlace(que),
           \A r \in Reqs : pcs[r] = "holding" => pc[r] = "holding"
    PROVE  Orderly
<1>1. PICK G \in SUBSET Waiting(pcs) :
        /\ DrainGrants(G, Waiting(pcs), run, que, max', blocked', keys')
        /\ running' = GrantedRunning(G, run, keys')
        /\ queue' = GrantedQueue(G, que, keys')
        /\ pc' = GrantedPc(G, pcs)
        /\ missed' = {}
  BY Zenon DEF DrainQueues
<1>2. G \subseteq Reqs /\ CanAcquireAll(G, run, que, max', blocked', keys')
  BY <1>1 DEF Waiting, DrainGrants
<1>3. /\ keys' \in [Reqs -> SUBSET Keys]
      /\ \A k \in Keys : que[k] \in Seq(Reqs) /\ NoDup(que[k]) /\ RangeOf(que[k]) \subseteq Reqs
  BY DEF Drainable, Queued, WaitersIn, Needing, Waiting
<1>4. \A r \in Reqs : pc'[r] = IF r \in G THEN "holding" ELSE pcs[r]
  BY <1>1 DEF GrantedPc
<1>5. ASSUME NEW k \in Keys
      PROVE  \E n \in 0..Len(que[k]) :
                /\ queue'[k] = SubSeq(que[k], n + 1, Len(que[k]))
                /\ Needing(G, k, keys') = {que[k][i] : i \in 1..n}
  <2>1. queue'[k] = SubSeq(que[k], Cardinality(Needing(G, k, keys')) + 1, Len(que[k]))
    BY <1>1 DEF GrantedQueue
  <2>2. /\ Cardinality(Needing(G, k, keys')) \in 0..Len(que[k])
        /\ Needing(G, k, keys') = {que[k][i] : i \in 1..Cardinality(Needing(G, k, keys'))}
    BY <1>2, Prefixes
  <2> QED
    BY <2>1, <2>2
<1>6. Ranked(queue')
  <2>1. PICK rank \in [Reqs -> Nat] : \A k \in Keys : \A x, y \in Reqs :
          Before(que[k], x, y) => rank[x] < rank[y]
    BY DEF Ranked
  <2>2. ASSUME NEW k \in Keys, NEW x \in Reqs, NEW y \in Reqs, Before(queue'[k], x, y)
        PROVE  Before(que[k], x, y)
    <3>1. PICK n \in 0..Len(que[k]) : queue'[k] = SubSeq(que[k], n + 1, Len(que[k]))
      BY <1>5
    <3> QED
      BY <1>3, <2>2, <3>1, DropOrder
  <2> QED
    BY <2>1, <2>2 DEF Ranked
<1>7. OnlyMissedRoomStrands'
  <2> SUFFICES ASSUME NEW r \in Waiting(pc'),
                      CanAcquireAll({r}, running', queue', max', blocked', keys')
               PROVE  FALSE
    BY DEF OnlyMissedRoomStrands
  <2>1. r \in Waiting(pcs) \ G /\ r \in Reqs
    BY <1>4 DEF Waiting
  <2>2. running' \in [Keys -> Nat]
    <3>1. \A k \in Keys : running'[k] = run[k] + Cardinality(Needing(G, k, keys'))
      BY <1>1 DEF GrantedRunning
    <3>2. \A k \in Keys : run[k] \in Nat /\ Cardinality(Needing(G, k, keys')) \in Nat
      BY <1>2, NeedingFinite DEF Drainable
    <3>3. running' = [k \in Keys |-> running'[k]]
      BY <1>1 DEF GrantedRunning
    <3> QED
      BY <3>1, <3>2, <3>3
  <2>3. Free(r, running', queue', max', blocked', keys')
    BY <1>3, <2>1, <2>2, CanAcquireOne
  <2>4. Free(r, GrantedRunning(G, run, keys'), GrantedQueue(G, que, keys'), max', blocked', keys')
    BY <1>1, <2>3, Zenon
  <2> QED
    BY <1>1, <2>1, <2>4, DrainLeavesNone
<1>8. Fifo
  <2> SUFFICES ASSUME NEW r \in Reqs, pc[r] # "holding", pc'[r] = "holding", NEW k \in keys'[r],
                      NEW i \in 1..Len(queue[k]), \A j \in 1..i : queue[k][j] # r,
                      queue[k][i] \in RangeOf(queue'[k])
               PROVE  FALSE
    BY DEF Fifo, RangeOf
  <2>1. k \in Keys /\ r \in G
    BY <1>3, <1>4
  <2>2. /\ queue[k] \in Seq(Reqs) /\ NoDup(queue[k]) /\ Len(queue[k]) \in Nat
        /\ queue[k][i] \in RangeOf(queue[k]) /\ queue[k][i] \in Reqs
    BY <2>1 DEF Steady, TypeOK, Queued, RangeOf
  <2>3. PICK n \in 0..Len(que[k]) : /\ queue'[k] = SubSeq(que[k], n + 1, Len(que[k]))
                                    /\ Needing(G, k, keys') = {que[k][j] : j \in 1..n}
    BY <1>5, <2>1
  <2>4. r \in {que[k][j] : j \in 1..n}
    BY <2>1, <2>3 DEF Needing
  <2>5. Before(que[k], r, queue[k][i])
    <3>1. queue[k][i] \in RangeOf(SubSeq(que[k], n + 1, Len(que[k])))
      BY <2>3
    <3> QED
      BY <1>3, <2>1, <2>4, <3>1, DropOrder
  <2>6. Before(queue[k], r, queue[k][i])
    BY <2>1, <2>2, <2>5 DEF InPlace
  <2>7. PICK a \in 1..Len(queue[k]), b \in 1..Len(queue[k]) :
          a < b /\ queue[k][a] = r /\ queue[k][b] = queue[k][i]
    BY <2>6 DEF Before
  <2>8. b = i
    BY <2>2, <2>7 DEF NoDup
  <2> QED
    BY <2>2, <2>7, <2>8
<1> QED
  BY <1>6, <1>7, <1>8 DEF Orderly

(* A request that is free can be acquired.                                 *)
LEMMA FreeIsAcquirable ==
    ASSUME NEW run, NEW que, NEW pcs, NEW kk, NEW mx \in [Keys -> Nat], NEW blk,
           Drainable(run, que, pcs, kk), NEW r \in Waiting(pcs), Free(r, run, que, mx, blk, kk)
    PROVE  CanAcquireAll({r}, run, que, mx, blk, kk)
<1>1. ASSUME NEW k PROVE Cardinality(Needing({}, k, kk)) = 0
  <2>1. Needing({}, k, kk) = {}
    BY DEF Needing
  <2> QED
    BY <2>1, FS_EmptySet, Zenon
<1>2. CanAcquireAll({}, run, que, mx, blk, kk)
  BY <1>1 DEF CanAcquireAll
<1>3. ASSUME NEW k \in kk[r]
      PROVE  LET n == Cardinality(Needing({}, k, kk))
             IN  /\ n + 1 <= Len(que[k]) /\ que[k][n + 1] = r
                 /\ run[k] + n + 1 <= mx[k] /\ k \notin blk
  <2>1. k \notin blk /\ run[k] < mx[k] /\ Len(que[k]) > 0 /\ que[k][1] = r
    BY DEF Free
  <2>2. run[k] \in Nat /\ mx[k] \in Nat /\ que[k] \in Seq(Reqs)
    BY DEF Drainable, Waiting
  <2>3. Len(que[k]) \in Nat
    BY <2>2, LenProperties
  <2> QED
    BY <1>1, <2>1, <2>2, <2>3
<1>4. CanAcquireAll({} \cup {r}, run, que, mx, blk, kk)
  BY <1>2, <1>3, OneMore
<1>5. {} \cup {r} = {r}
  OBVIOUS
<1> QED
  BY <1>4, <1>5, Zenon

(* A handler that drains nothing and leaves the queues alone, if the gates *)
(* with waiters that gain room are recorded.                               *)
LEMMA QuietOrderly ==
    ASSUME Steady, TypeOK', queue' = queue, missed \subseteq missed',
           Waiting(pc') = Waiting(pc), \A r \in Waiting(pc) : keys'[r] = keys[r],
           \A k \in Keys : queue[k] # << >> /\ k \notin blocked' /\ running'[k] < max'[k] =>
               (k \notin blocked /\ running[k] < max[k]) \/ k \in missed',
           Fifo
    PROVE  Orderly
<1>1. Ranked(queue')
  BY Zenon DEF Steady
<1>2. OnlyMissedRoomStrands'
  <2> SUFFICES ASSUME NEW r \in Waiting(pc'),
                      CanAcquireAll({r}, running', queue', max', blocked', keys'),
                      keys'[r] \cap missed' = {}
               PROVE  FALSE
    BY DEF OnlyMissedRoomStrands
  <2>1. r \in Waiting(pc) /\ r \in Reqs /\ keys'[r] = keys[r]
    BY DEF Waiting
  <2>2. Free(r, running', queue', max', blocked', keys')
    BY <2>1, CanAcquireOne DEF TypeOK
  <2>3. ASSUME NEW k \in keys[r]
        PROVE  k \notin blocked /\ running[k] < max[k] /\ Len(queue[k]) > 0 /\ queue[k][1] = r
    <3>1. k \notin blocked' /\ running'[k] < max'[k] /\ Len(queue[k]) > 0 /\ queue[k][1] = r
      BY <2>1, <2>2 DEF Free
    <3>2. k \in Keys /\ k \notin missed' /\ queue[k] # << >>
      BY <2>1, <3>1 DEF Steady, TypeOK
    <3> QED
      BY <3>1, <3>2
  <2>4. Drainable(running, queue, pc, keys) /\ max \in [Keys -> Nat]
    BY DEF Steady, TypeOK, Drainable
  <2>5. CanAcquireAll({r}, running, queue, max, blocked, keys)
    <3>1. Free(r, running, queue, max, blocked, keys)
      BY <2>3 DEF Free
    <3> QED
      BY <2>1, <2>4, <3>1, FreeIsAcquirable
  <2>6. keys[r] \cap missed # {}
    BY <2>1, <2>5 DEF Steady, OnlyMissedRoomStrands
  <2> QED
    BY <2>1, <2>6
<1> QED
  BY <1>1, <1>2 DEF Orderly

(* Queues in which requests only leave.                                    *)
LEMMA LeavingKeepsOrder ==
    ASSUME Ranked(queue), NEW que,
           \A k \in Keys : \A x, y \in Reqs : Before(que[k], x, y) => Before(queue[k], x, y)
    PROVE  Ranked(que) /\ InPlace(que)
  BY DEF Ranked, InPlace

(* A request that nobody knows yet is appended to some of the queues.      *)
LEMMA ArrivingKeepsOrder ==
    ASSUME TypeOK, Ranked(queue), NEW r \in Reqs, \A k \in Keys : r \notin RangeOf(queue[k]),
           NEW ks,
           NEW que, \A k \in Keys : que[k] = IF k \in ks THEN Append(queue[k], r) ELSE queue[k]
    PROVE  Ranked(que) /\ InPlace(que)
<1>1. PICK rank \in [Reqs -> Nat] : \A k \in Keys : \A x, y \in Reqs :
        Before(queue[k], x, y) => rank[x] < rank[y]
  BY DEF Ranked
<1>2. PICK top \in Nat : \A x \in Reqs : rank[x] <= top
  <2> DEFINE T == {rank[x] : x \in Reqs}
  <2>1. T \in SUBSET Nat /\ T # {}
    OBVIOUS
  <2>2. IsFiniteSet(T)
    <3>1. IsFiniteSet(Reqs)
      BY ConstantsAssumption
    <3>2. rank \in Surjection(Reqs, T)
      BY DEF Surjection
    <3> QED
      BY <3>1, <3>2, FS_Surjection
  <2>3. PICK m \in T : \A j \in T : j <= m
    <3> HIDE DEF T
    <3> QED
      BY <2>1, <2>2, GreatestNat
  <2>4. \A x \in Reqs : rank[x] <= m
    BY <2>3
  <2> QED
    BY <2>1, <2>4
<1>3. ASSUME NEW k \in Keys, NEW x \in Reqs, NEW y \in Reqs, Before(que[k], x, y)
      PROVE  Before(queue[k], x, y) \/ (x \in RangeOf(queue[k]) /\ y = r)
  <2>1. queue[k] \in Seq(Reqs)
    BY DEF TypeOK
  <2>2. CASE que[k] = queue[k]
    BY <1>3, <2>2
  <2>3. CASE que[k] = Append(queue[k], r)
    BY <1>3, <2>1, <2>3, AppendOrder
  <2> QED
    BY <2>2, <2>3
<1>4. InPlace(que)
  BY <1>3 DEF InPlace
<1>5. ASSUME NEW k \in Keys, NEW x, NEW y, Before(queue[k], x, y) PROVE x # r /\ y # r
  BY <1>5 DEF Before, RangeOf
<1>6. Ranked(que)
  <2> DEFINE above == [x \in Reqs |-> IF x = r THEN top + 1 ELSE rank[x]]
  <2>1. above \in [Reqs -> Nat]
    OBVIOUS
  <2>2. ASSUME NEW k \in Keys, NEW x \in Reqs, NEW y \in Reqs, Before(que[k], x, y)
        PROVE  above[x] < above[y]
    <3>1. CASE Before(queue[k], x, y)
      BY <1>1, <1>5, <3>1
    <3>2. CASE x \in RangeOf(queue[k]) /\ y = r
      <4>1. x # r /\ rank[x] <= top /\ rank[x] \in Nat
        BY <1>2, <3>2
      <4> QED
        BY <3>2, <4>1
    <3> QED
      BY <1>3, <2>2, <3>1, <3>2
  <2> HIDE DEF above
  <2> QED
    BY <2>1, <2>2 DEF Ranked
<1> QED
  BY <1>4, <1>6

LEMMA AcquireOrderly ==
    ASSUME Steady, TypeOK', NEW r \in Reqs, NEW req, NEW bound, NEW failFast,
           AcquireMany(r, req, bound, failFast)
    PROVE  Orderly
<1> DEFINE ks == {k \in Keys : req[k] > 0}
           mx == [k \in Keys |-> IF k \in ks THEN req[k] ELSE max[k]]
           que == [k \in Keys |-> IF k \in ks THEN Append(queue[k], r) ELSE queue[k]]
<1>1. /\ pc[r] \in {"idle", "released"} /\ max' = mx /\ blocked' = blocked
      /\ keys' = [keys EXCEPT ![r] = ks]
  BY DEF AcquireMany
<1>2. TypeOK /\ Queued(queue, pc, keys) /\ Ranked(queue)
  BY DEF Steady
<1>3. /\ ks \subseteq Keys /\ keys'[r] = ks /\ \A q \in Reqs : q # r => keys'[q] = keys[q]
      /\ \A k \in Keys : max'[k] = IF k \in ks THEN mx[k] ELSE max[k]
  BY <1>1, <1>2 DEF TypeOK
<1> HIDE DEF ks, mx
<1>4. ASSUME NEW state \in {"holding", "idle"}, pc' = [pc EXCEPT ![r] = state]
      PROVE  Waiting(pc') = Waiting(pc) /\ \A q \in Waiting(pc) : keys'[q] = keys[q]
  BY <1>1, <1>2, <1>3, <1>4 DEF Waiting, TypeOK
<1>5. CASE /\ ImmediateOK(ks, mx)
           /\ running' = [k \in Keys |-> IF k \in ks THEN running[k] + 1 ELSE running[k]]
           /\ pc' = [pc EXCEPT ![r] = "holding"]
           /\ UNCHANGED <<queue, missed>>
  <2>1. \A k \in ks : queue[k] = << >>
    BY <1>5 DEF ImmediateOK
  <2>2. Fifo
    <3> SUFFICES ASSUME NEW q \in Reqs, pc[q] # "holding", pc'[q] = "holding",
                        NEW k \in keys'[q]
                 PROVE  Len(queue[k]) = 0
      BY DEF Fifo
    <3>1. q = r
      BY <1>2, <1>5 DEF TypeOK
    <3> QED
      BY <1>3, <2>1, <3>1
  <2>3. ASSUME NEW k \in Keys, queue[k] # << >>
        PROVE  running'[k] = running[k] /\ max'[k] = max[k]
    BY <1>3, <1>5, <2>1, <2>3
  <2> QED
    BY <1>1, <1>4, <1>5, <2>2, <2>3, QuietOrderly
<1>6. CASE /\ pc' = [pc EXCEPT ![r] = "idle"]
           /\ missed' = missed \cup {k \in ks : queue[k] # << >> /\ mx[k] > max[k]}
           /\ UNCHANGED <<running, queue>>
  <2>1. Fifo
    <3>1. \A q \in Reqs : pc'[q] = "holding" => pc[q] = "holding"
      BY <1>2, <1>6 DEF TypeOK
    <3> QED
      BY <3>1 DEF Fifo
  <2>2. ASSUME NEW k \in Keys, queue[k] # << >>, running'[k] < max'[k]
        PROVE  running[k] < max[k] \/ k \in missed'
    <3>1. running[k] \in Nat /\ max[k] \in Nat /\ max'[k] \in Nat /\ running'[k] = running[k]
      BY <1>2, <1>6 DEF TypeOK
    <3> QED
      BY <1>3, <1>6, <2>2, <3>1
  <2> QED
    BY <1>1, <1>4, <1>6, <2>1, <2>2, QuietOrderly
<1>7. CASE DrainQueues(running, que, [pc EXCEPT ![r] = "waiting"])
  <2> DEFINE pcs == [pc EXCEPT ![r] = "waiting"]
  <2>1. /\ pcs \in [Reqs -> PCs] /\ \A q \in Reqs : pcs[q] = "holding" => pc[q] = "holding"
        /\ \A q \in Reqs : pcs[q] = IF q = r THEN "waiting" ELSE pc[q]
    BY <1>2 DEF TypeOK, PCs
  <2>2. DrainQueues(running, que, pcs)
    BY <1>7
  <2> HIDE DEF pcs
  <2>3. ASSUME NEW k \in Keys
        PROVE  /\ WaitersIn(pcs, keys', k) =
                     IF k \in ks THEN WaitersIn(pc, keys, k) \cup {r} ELSE WaitersIn(pc, keys, k)
               /\ r \notin RangeOf(queue[k])
    <3>1. /\ r \notin WaitersIn(pc, keys, k)
          /\ \A q \in Reqs : q \in WaitersIn(pc, keys, k) <=> pc[q] = "waiting" /\ k \in keys[q]
          /\ \A q \in Reqs : q \in WaitersIn(pcs, keys', k) <=> pcs[q] = "waiting" /\ k \in keys'[q]
          /\ WaitersIn(pc, keys, k) \subseteq Reqs /\ WaitersIn(pcs, keys', k) \subseteq Reqs
      BY <1>1 DEF WaitersIn, Needing, Waiting
    <3>2. r \notin RangeOf(queue[k])
      BY <1>2, <3>1 DEF Queued
    <3>3. ASSUME NEW q \in Reqs
          PROVE  q \in WaitersIn(pcs, keys', k) <=>
                   q \in WaitersIn(pc, keys, k) \/ (k \in ks /\ q = r)
      BY <1>3, <2>1, <3>1
    <3>4. CASE k \in ks
      BY <3>1, <3>2, <3>3, <3>4
    <3>5. CASE k \notin ks
      BY <3>1, <3>2, <3>3, <3>5
    <3> QED
      BY <3>4, <3>5
  <2>4. ASSUME NEW k \in Keys
        PROVE  que[k] \in Seq(Reqs) /\ RangeOf(que[k]) = WaitersIn(pcs, keys', k) /\ NoDup(que[k])
    <3>1. queue[k] \in Seq(Reqs) /\ RangeOf(queue[k]) = WaitersIn(pc, keys, k) /\ NoDup(queue[k])
      BY <1>2 DEF TypeOK, Queued
    <3>2. CASE k \in ks
      <4>1. /\ Append(queue[k], r) \in Seq(Reqs)
            /\ RangeOf(Append(queue[k], r)) = RangeOf(queue[k]) \cup {r}
            /\ NoDup(Append(queue[k], r))
        BY <2>3, <3>1, AppendQueue
      <4>2. que[k] = Append(queue[k], r)
        BY <3>2
      <4> QED
        BY <2>3, <3>1, <3>2, <4>1, <4>2
    <3>3. CASE k \notin ks
      <4>1. que[k] = queue[k]
        BY <3>3
      <4> QED
        BY <2>3, <3>1, <3>3, <4>1
    <3> QED
      BY <3>2, <3>3
  <2>5. que \in [Keys -> Seq(Reqs)] /\ Queued(que, pcs, keys')
    BY <2>4 DEF Queued
  <2>6. \A k \in Keys : que[k] = IF k \in ks THEN Append(queue[k], r) ELSE queue[k]
    OBVIOUS
  <2> HIDE DEF que
  <2>7. Drainable(running, que, pcs, keys')
    BY <1>2, <2>1, <2>5 DEF Drainable, TypeOK
  <2>8. Ranked(que) /\ InPlace(que)
    BY <1>2, <2>3, <2>6, ArrivingKeepsOrder
  <2> QED
    BY <2>1, <2>2, <2>7, <2>8, DrainOrderly DEF TypeOK
<1> QED
  BY <1>5, <1>6, <1>7 DEF AcquireMany, ks, mx

LEMMA LeaveOrderly ==
    ASSUME Steady, TypeOK', NEW r \in Reqs, Release(r) \/ GiveUp(r)
    PROVE  Orderly
<1>1. /\ TypeOK /\ Queued(queue, pc, keys) /\ Ranked(queue)
      /\ \A k \in Keys : queue[k] \in Seq(Reqs) /\ NoDup(queue[k])
  BY DEF Steady, TypeOK, Queued
<1>2. CASE pc[r] = "released" /\ UNCHANGED vars
  <2>1. Fifo
    BY <1>2 DEF Fifo, vars
  <2> QED
    BY <1>2, <2>1, QuietOrderly DEF vars
<1>3. CASE pc[r] = "holding" /\ Release(r)
  <2> DEFINE run == [k \in Keys |->
                 IF k \in keys[r] /\ running[k] > 0 THEN running[k] - 1 ELSE running[k]]
             pcs == [pc EXCEPT ![r] = "released"]
  <2>1. keys' = keys /\ DrainQueues(run, queue, pcs)
    BY <1>3 DEF Release
  <2>2. /\ run \in [Keys -> Nat] /\ pcs \in [Reqs -> PCs] /\ Waiting(pcs) = Waiting(pc)
        /\ \A q \in Reqs : pcs[q] = "holding" => pc[q] = "holding"
    BY <1>1, <1>3 DEF TypeOK, PCs, Waiting
  <2> HIDE DEF run, pcs
  <2>3. Drainable(run, queue, pcs, keys')
    BY <1>1, <2>1, <2>2 DEF Drainable, TypeOK, Queued, WaitersIn
  <2>4. Ranked(queue) /\ InPlace(queue)
    BY <1>1, LeavingKeepsOrder
  <2> QED
    BY <2>1, <2>2, <2>3, <2>4, DrainOrderly DEF TypeOK
<1>4. CASE GiveUp(r)
  <2> DEFINE que == [k \in Keys |-> IF k \in keys[r] THEN Without(queue[k], r) ELSE queue[k]]
             pcs == [pc EXCEPT ![r] = "idle"]
  <2>1. keys' = keys /\ DrainQueues(running, que, pcs) /\ pc[r] = "waiting"
    BY <1>4 DEF GiveUp
  <2>2. /\ pcs \in [Reqs -> PCs] /\ \A q \in Reqs : pcs[q] = "holding" => pc[q] = "holding"
        /\ \A k \in Keys : WaitersIn(pcs, keys, k) = WaitersIn(pc, keys, k) \ {r}
        /\ \A k \in Keys : k \notin keys[r] => r \notin WaitersIn(pc, keys, k)
    BY <1>1 DEF TypeOK, PCs, WaitersIn, Needing, Waiting
  <2> HIDE DEF pcs
  <2>3. ASSUME NEW k \in Keys
        PROVE  /\ que[k] \in Seq(Reqs) /\ RangeOf(que[k]) = WaitersIn(pcs, keys, k)
               /\ NoDup(que[k])
               /\ \A x, y \in Reqs : Before(que[k], x, y) => Before(queue[k], x, y)
    <3>1. queue[k] \in Seq(Reqs) /\ RangeOf(queue[k]) = WaitersIn(pc, keys, k) /\ NoDup(queue[k])
      BY <1>1 DEF Queued
    <3>2. CASE k \in keys[r]
      <4>1. /\ Without(queue[k], r) \in Seq(Reqs)
            /\ RangeOf(Without(queue[k], r)) = RangeOf(queue[k]) \ {r}
            /\ NoDup(Without(queue[k], r))
        BY <3>1, WithoutQueue
      <4>2. que[k] = Without(queue[k], r)
        BY <3>2
      <4>3. \A x, y \in Reqs : Before(que[k], x, y) => Before(queue[k], x, y)
        BY <3>1, <4>2, WithoutOrder
      <4> QED
        BY <2>2, <3>1, <4>1, <4>2, <4>3
    <3>3. CASE k \notin keys[r]
      <4>1. que[k] = queue[k]
        BY <3>3
      <4> QED
        BY <2>2, <3>1, <3>3, <4>1
    <3> QED
      BY <3>2, <3>3
  <2>4. que \in [Keys -> Seq(Reqs)] /\ Queued(que, pcs, keys)
    BY <2>3 DEF Queued
  <2>5. \A k \in Keys : \A x, y \in Reqs : Before(que[k], x, y) => Before(queue[k], x, y)
    BY <2>3
  <2> HIDE DEF que
  <2>6. Drainable(running, que, pcs, keys')
    BY <1>1, <2>1, <2>2, <2>4 DEF Drainable, TypeOK
  <2>7. Ranked(que) /\ InPlace(que)
    BY <1>1, <2>5, LeavingKeepsOrder
  <2> QED
    BY <2>1, <2>2, <2>6, <2>7, DrainOrderly DEF TypeOK
<1> QED
  BY <1>2, <1>3, <1>4 DEF Release

LEMMA GateOrderly ==
    ASSUME Steady, TypeOK', NEW k \in Keys,
           MarkBlocked(k) \/ BlockLapses(k) \/ CleanupTimer(k) \/ Unblock(k)
    PROVE  Orderly
<1>1. TypeOK /\ Queued(queue, pc, keys) /\ Ranked(queue)
  BY DEF Steady
<1>2. CASE MarkBlocked(k) \/ BlockLapses(k) \/ CleanupTimer(k)
  <2>1. /\ queue' = queue /\ pc' = pc /\ keys' = keys /\ running' = running
        /\ missed \subseteq missed'
    BY <1>2 DEF MarkBlocked, BlockLapses, CleanupTimer
  <2>2. Fifo
    BY <2>1 DEF Fifo
  <2>3. ASSUME NEW j \in Keys, queue[j] # << >>, j \notin blocked', running'[j] < max'[j]
        PROVE  (j \notin blocked /\ running[j] < max[j]) \/ j \in missed'
    <3>1. CASE MarkBlocked(k)
      <4>1. blocked' = blocked \cup {k} /\ (j # k => max'[j] = max[j])
        BY <1>1, <3>1 DEF MarkBlocked, TypeOK
      <4> QED
        BY <2>1, <2>3, <4>1
    <3>2. CASE BlockLapses(k)
      BY <2>1, <2>3, <3>2 DEF BlockLapses
    <3>3. CASE CleanupTimer(k)
      BY <2>1, <2>3, <3>3 DEF CleanupTimer
    <3> QED
      BY <1>2, <3>1, <3>2, <3>3
  <2> QED
    BY <2>1, <2>2, <2>3, QuietOrderly
<1>3. CASE Unblock(k)
  <2>1. keys' = keys /\ DrainQueues(running, queue, pc)
    BY <1>3 DEF Unblock
  <2>2. Drainable(running, queue, pc, keys')
    BY <1>1, <2>1 DEF Drainable, TypeOK
  <2>3. Ranked(queue) /\ InPlace(queue)
    BY <1>1, LeavingKeepsOrder
  <2> QED
    BY <2>1, <2>2, <2>3, DrainOrderly DEF TypeOK
<1> QED
  BY <1>2, <1>3

LEMMA InitSteady == Init => Steady
<1> SUFFICES ASSUME Init PROVE Steady
  OBVIOUS
<1>1. TypeOK /\ Queued(queue, pc, keys)
  BY InitIInv DEF IInv, Good
<1>2. Ranked(queue)
  <2>1. ASSUME NEW k \in Keys, NEW x, NEW y PROVE ~Before(queue[k], x, y)
    BY DEF Init, Before
  <2>2. [x \in Reqs |-> 0] \in [Reqs -> Nat]
    OBVIOUS
  <2> QED
    BY <2>1, <2>2 DEF Ranked
<1>3. OnlyMissedRoomStrands
  BY DEF Init, OnlyMissedRoomStrands, Waiting
<1> QED
  BY <1>1, <1>2, <1>3 DEF Steady

LEMMA NextOrderly == Steady /\ IInv' /\ [Next]_vars => Steady' /\ Fifo
<1> SUFFICES ASSUME Steady, IInv', [Next]_vars PROVE Orderly
  BY DEF Orderly, Steady, IInv, Good
<1>0. TypeOK'
  BY DEF IInv
<1>1. CASE UNCHANGED vars
  <2>1. Fifo
    BY <1>1 DEF Fifo, vars
  <2> QED
    BY <1>0, <1>1, <2>1, QuietOrderly DEF vars
<1>2. CASE \E r \in Reqs, req \in Requirements, b \in QueueBounds, ff \in BOOLEAN :
              AcquireMany(r, req, b, ff)
  BY <1>0, <1>2, AcquireOrderly
<1>3. CASE \E r \in Reqs : Release(r) \/ WaitTimeout(r) \/ Abort(r)
  BY <1>0, <1>3, LeaveOrderly DEF WaitTimeout, Abort
<1>4. CASE \E k \in AccountKeys : MarkBlocked(k) \/ BlockLapses(k) \/ Unblock(k)
  BY <1>0, <1>4, GateOrderly, ConstantsAssumption
<1>5. CASE \E k \in Keys : CleanupTimer(k)
  BY <1>0, <1>5, GateOrderly
<1> QED
  BY <1>1, <1>2, <1>3, <1>4, <1>5 DEF Next

(* The queues stay in the order of arrival and nobody is left behind,      *)
(* whatever handlers run: the second inductive invariant.                  *)
THEOREM OrderInvariance == Spec => []Steady
<1>1. Steady /\ IInv' /\ [Next]_vars => Steady'
  BY NextOrderly
<1> QED
  BY InitSteady, Invariance, <1>1, PTL DEF Spec

(* drainQueues strands nobody: a waiter that could be admitted stands      *)
(* behind a gate whose block lapsed or whose limit a rejected call raised, *)
(* the two ways a gate gains room without a drain.                         *)
THEOREM DrainStrandsNobody == Spec => []OnlyMissedRoomStrands
<1>1. Steady => OnlyMissedRoomStrands
  BY DEF Steady
<1> QED
  BY OrderInvariance, <1>1, PTL

(* The outcome of drainQueues does not depend on the order in which it     *)
(* visits the Set queuedRequests: one set of grants, and only one, is      *)
(* stable in every reachable state.                                        *)
THEOREM DrainDetermined == Spec => []DrainIsUnique
<1>1. Steady => DrainIsUnique
  <2> SUFFICES ASSUME Steady PROVE DrainIsUnique
    OBVIOUS
  <2>1. Drainable(running, queue, pc, keys) /\ max \in [Keys -> Nat] /\ Ranked(queue)
    BY DEF Steady, TypeOK, Drainable
  <2>2. PICK G \in SUBSET Waiting(pc) :
          DrainGrants(G, Waiting(pc), running, queue, max, blocked, keys)
    BY DrainExists
  <2>3. ASSUME NEW H \in SUBSET Waiting(pc),
               DrainGrants(H, Waiting(pc), running, queue, max, blocked, keys)
        PROVE  H = G
    <3>1. /\ CanAcquireAll(G, running, queue, max, blocked, keys)
          /\ CanAcquireAll(H, running, queue, max, blocked, keys)
      BY <2>2, <2>3 DEF DrainGrants
    <3>2. H \subseteq G
      BY <2>1, <2>2, <3>1, DrainContains
    <3>3. G \subseteq H
      BY <2>1, <2>3, <3>1, DrainContains
    <3> QED
      BY <3>2, <3>3
  <2> QED
    BY <2>2, <2>3 DEF DrainIsUnique
<1> QED
  BY OrderInvariance, <1>1, PTL

(* FIFO across several gates: a request is admitted, at once or by a       *)
(* drain, only when everyone ahead of it in the queues of its gates has    *)
(* left them.                                                              *)
THEOREM ArrivalOrderKept == Spec => NoOvertaking
<1>1. Steady /\ IInv' /\ [Next]_vars =>
        [\A r \in Reqs : pc[r] # "holding" /\ pc'[r] = "holding" =>
            \A k \in keys'[r] : \A i \in 1..Len(queue[k]) :
                (\A j \in 1..i : queue[k][j] # r) =>
                    queue[k][i] \notin {queue'[k][j] : j \in 1..Len(queue'[k])}]_vars
  BY NextOrderly DEF Fifo
<1> QED
  BY OrderInvariance, Invariance, <1>1, PTL DEF Spec, NoOvertaking

-----------------------------------------------------------------------------
(* AccountSemaphoreReset.  After a reset, requests release slots of gates  *)
(* that no longer exist: the counts are only bounded by the holders, and   *)
(* only the gates of waiting requests are sure to be in the Map.           *)

CountedAtMost(run, pcs, kk) ==
    \A k \in Keys : run[k] <= Cardinality(HoldersIn(pcs, kk, k))

KeptForWaiters(pcs, kk, lv) ==
    \A r \in Waiting(pcs) : kk[r] \subseteq lv

Sound(run, que, pcs, kk, lv) ==
    /\ run \in [Keys -> Nat]
    /\ que \in [Keys -> Seq(Reqs)]
    /\ pcs \in [Reqs -> PCs]
    /\ kk \in [Reqs -> SUBSET Keys]
    /\ CountedAtMost(run, pcs, kk)
    /\ Queued(que, pcs, kk)
    /\ KeptForWaiters(pcs, kk, lv)

(* The inductive invariant with resets.                                    *)
RInv == TypeOK /\ strays \subseteq Keys /\ Sound(running, queue, pc, keys, live)

(* What drainQueues does to it.                                            *)
LEMMA DrainStaysSound ==
    ASSUME NEW run, NEW que, NEW pcs, NEW kk, NEW mx, NEW blk, NEW lv,
           NEW G \in SUBSET Waiting(pcs),
           DrainGrants(G, Waiting(pcs), run, que, mx, blk, kk),
           Sound(run, que, pcs, kk, lv)
    PROVE  Sound(GrantedRunning(G, run, kk), GrantedQueue(G, que, kk), GrantedPc(G, pcs), kk, lv)
<1>d. /\ run \in [Keys -> Nat] /\ que \in [Keys -> Seq(Reqs)] /\ pcs \in [Reqs -> PCs]
      /\ kk \in [Reqs -> SUBSET Keys]
      /\ CountedAtMost(run, pcs, kk) /\ Queued(que, pcs, kk) /\ KeptForWaiters(pcs, kk, lv)
  BY DEF Sound
<1> DEFINE run2 == GrantedRunning(G, run, kk)
           que2 == GrantedQueue(G, que, kk)
           pcs2 == GrantedPc(G, pcs)
<1>0. Drained(G, run, pcs, kk, mx, blk, run2, que2, pcs2)
  <2>1. Drainable(run, que, pcs, kk)
    BY <1>d DEF Drainable
  <2> QED
    BY <2>1, DrainParts
<1> HIDE DEF run2, que2, pcs2
<1>1. /\ run2 \in [Keys -> Nat] /\ que2 \in [Keys -> Seq(Reqs)] /\ pcs2 \in [Reqs -> PCs]
      /\ Queued(que2, pcs2, kk)
      /\ \A r \in Reqs : pcs2[r] = IF r \in G THEN "holding" ELSE pcs[r]
  BY <1>0 DEF Drained, Drainable
<1>2. \A k \in Keys : Cardinality(HoldersIn(pcs, kk, k)) \in Nat
  BY NeedingFinite DEF HoldersIn
<1>3. CountedAtMost(run2, pcs2, kk)
  BY <1>d, <1>0, <1>2 DEF CountedAtMost, Drained
<1>4. KeptForWaiters(pcs2, kk, lv)
  BY <1>d, <1>1 DEF KeptForWaiters, Waiting
<1> QED
  BY <1>d, <1>1, <1>3, <1>4 DEF run2, que2, pcs2, Sound

(* A handler that ends in drainQueues keeps it if what it drains from does.*)
LEMMA DrainRInv ==
    ASSUME NEW run, NEW que, NEW pcs, NEW lv,
           Sound(run, que, pcs, keys', lv),
           DrainQueues(run, que, pcs)
    PROVE  Sound(running', queue', pc', keys', lv) /\ missed' = {}
<1>1. PICK G \in SUBSET Waiting(pcs) :
        /\ DrainGrants(G, Waiting(pcs), run, que, max', blocked', keys')
        /\ running' = GrantedRunning(G, run, keys')
        /\ queue' = GrantedQueue(G, que, keys')
        /\ pc' = GrantedPc(G, pcs)
        /\ missed' = {}
  BY Zenon DEF DrainQueues
<1>2. Sound(GrantedRunning(G, run, keys'), GrantedQueue(G, que, keys'), GrantedPc(G, pcs), keys', lv)
  BY <1>1, DrainStaysSound
<1> QED
  BY <1>1, <1>2, Zenon

(* The holders of a gate after one request came or went.                   *)
LEMMA HoldersCount ==
    ASSUME NEW pcs, NEW kk, NEW k, NEW r
    PROVE  LET H == HoldersIn(pcs, kk, k)
           IN  /\ IsFiniteSet(H) /\ Cardinality(H) \in Nat
               /\ r \notin H => Cardinality(H \cup {r}) = Cardinality(H) + 1
               /\ r \in H => Cardinality(H \ {r}) = Cardinality(H) - 1 /\ Cardinality(H) > 0
<1> DEFINE H == HoldersIn(pcs, kk, k)
<1>1. IsFiniteSet(H) /\ Cardinality(H) \in Nat
  BY NeedingFinite DEF HoldersIn
<1>2. r \notin H => Cardinality(H \cup {r}) = Cardinality(H) + 1
  BY <1>1, FS_AddElement
<1>3. r \in H => Cardinality(H \ {r}) = Cardinality(H) - 1
  BY <1>1, FS_RemoveElement
<1>4. r \in H => Cardinality(H) # 0
  BY <1>1, FS_EmptySet
<1> QED
  BY <1>1, <1>2, <1>3, <1>4

(* acquireMany in its three outcomes.                                      *)
LEMMA AcquireRInv ==
    ASSUME RInv, NEW r \in Reqs, NEW req \in Requirements, NEW bound, NEW failFast,
           AcquireMany(r, req, bound, failFast), strays' = strays
    PROVE  RInv'
<1> DEFINE ks == {k \in Keys : req[k] > 0}
           mx == [k \in Keys |-> IF k \in ks THEN req[k] ELSE max[k]]
           que == [k \in Keys |-> IF k \in ks THEN Append(queue[k], r) ELSE queue[k]]
<1>1. /\ pc[r] \in {"idle", "released"}
      /\ live' = live \cup ks
      /\ max' = mx
      /\ keys' = [keys EXCEPT ![r] = ks]
      /\ blocked' = blocked
  BY DEF AcquireMany
<1>2. req \in [Keys -> Nat] /\ ks \subseteq Keys /\ mx \in [Keys -> Nat]
  BY ConstantsAssumption DEF RInv, TypeOK
<1>3. TypeOK /\ Sound(running, queue, pc, keys, live) /\ strays' \subseteq Keys
  BY DEF RInv
<1>4. /\ keys' \in [Reqs -> SUBSET Keys] /\ max' \in [Keys -> Nat]
      /\ live' \subseteq Keys /\ blocked' \subseteq Keys
  BY <1>1, <1>2, <1>3 DEF TypeOK
<1>5. ASSUME NEW pcs \in [Reqs -> PCs], \A q \in Reqs : q # r => pcs[q] = pc[q]
      PROVE  \A k \in Keys :
               /\ HoldersIn(pcs, keys', k) =
                     IF pcs[r] = "holding" /\ k \in ks
                     THEN HoldersIn(pc, keys, k) \cup {r} ELSE HoldersIn(pc, keys, k)
               /\ WaitersIn(pcs, keys', k) =
                     IF pcs[r] = "waiting" /\ k \in ks
                     THEN WaitersIn(pc, keys, k) \cup {r} ELSE WaitersIn(pc, keys, k)
               /\ r \notin HoldersIn(pc, keys, k)
               /\ r \notin WaitersIn(pc, keys, k)
  BY <1>1, <1>3, <1>5 DEF HoldersIn, WaitersIn, Needing, Waiting, TypeOK
<1>6. ASSUME NEW pcs \in [Reqs -> PCs], \A q \in Reqs : q # r => pcs[q] = pc[q]
      PROVE  KeptForWaiters(pcs, keys', live')
  BY <1>1, <1>3, <1>6 DEF KeptForWaiters, Sound, TypeOK, Waiting
<1> HIDE DEF ks, mx
<1>7. CASE /\ running' = [k \in Keys |-> IF k \in ks THEN running[k] + 1 ELSE running[k]]
           /\ pc' = [pc EXCEPT ![r] = "holding"]
           /\ timer' = timer \ ks
           /\ UNCHANGED <<queue, missed>>
  <2>1. /\ pc' \in [Reqs -> PCs] /\ pc'[r] = "holding"
        /\ \A q \in Reqs : q # r => pc'[q] = pc[q]
    BY <1>3, <1>7 DEF TypeOK, PCs
  <2>2. running' \in [Keys -> Nat] /\ queue' \in [Keys -> Seq(Reqs)]
    BY <1>3, <1>7 DEF TypeOK
  <2>3. ASSUME NEW k \in Keys PROVE running'[k] <= Cardinality(HoldersIn(pc', keys', k))
    <3>0. r \notin HoldersIn(pc, keys, k)
      BY <2>1, <1>5
    <3>1. /\ running[k] \in Nat /\ running[k] <= Cardinality(HoldersIn(pc, keys, k))
          /\ Cardinality(HoldersIn(pc, keys, k)) \in Nat
          /\ Cardinality(HoldersIn(pc, keys, k) \cup {r}) = Cardinality(HoldersIn(pc, keys, k)) + 1
      BY <3>0, <1>3, HoldersCount DEF Sound, CountedAtMost
    <3>2. Cardinality(HoldersIn(pc', keys', k)) =
            Cardinality(IF k \in ks THEN HoldersIn(pc, keys, k) \cup {r} ELSE HoldersIn(pc, keys, k))
      BY <2>1, <1>5, Zenon
    <3>3. CASE k \in ks
      BY <3>1, <3>2, <3>3, <1>7
    <3>4. CASE k \notin ks
      BY <3>1, <3>2, <3>4, <1>7
    <3> QED
      BY <3>3, <3>4
  <2>4. Queued(queue', pc', keys')
    <3>1. ASSUME NEW k \in Keys PROVE WaitersIn(pc', keys', k) = WaitersIn(pc, keys, k)
      BY <2>1, <1>5
    <3> QED
      BY <3>1, <1>3, <1>7 DEF Sound, Queued
  <2>5. CountedAtMost(running', pc', keys')
    BY <2>3 DEF CountedAtMost
  <2> QED
    BY <2>1, <2>2, <2>4, <2>5, <1>3, <1>4, <1>6, <1>7 DEF RInv, Sound, TypeOK
<1>8. CASE /\ pc' = [pc EXCEPT ![r] = "idle"]
           /\ timer' = timer \ ks
           /\ missed' = missed \cup {k \in ks : queue[k] # << >> /\ mx[k] > max[k]}
           /\ UNCHANGED <<running, queue>>
  <2>1. /\ pc' \in [Reqs -> PCs] /\ pc'[r] = "idle"
        /\ \A q \in Reqs : q # r => pc'[q] = pc[q]
    BY <1>3, <1>8 DEF TypeOK, PCs
  <2>2. ASSUME NEW k \in Keys
        PROVE  /\ HoldersIn(pc', keys', k) = HoldersIn(pc, keys, k)
               /\ WaitersIn(pc', keys', k) = WaitersIn(pc, keys, k)
    BY <2>1, <1>5
  <2>3. CountedAtMost(running', pc', keys') /\ Queued(queue', pc', keys')
    <3>1. running' = running /\ queue' = queue
      BY <1>8
    <3> QED
      BY <2>2, <3>1, <1>3, Zenon DEF Sound, CountedAtMost, Queued
  <2>4. missed' \subseteq Keys
    BY <1>2, <1>3, <1>8 DEF TypeOK
  <2> QED
    BY <2>1, <2>3, <2>4, <1>3, <1>4, <1>6, <1>8 DEF RInv, Sound, TypeOK
<1>9. CASE DrainQueues(running, que, [pc EXCEPT ![r] = "waiting"])
           /\ timer' = (timer \ ks) \cup DrainTimers(running, que)
  <2> DEFINE pcs == [pc EXCEPT ![r] = "waiting"]
  <2>1. /\ pcs \in [Reqs -> PCs] /\ pcs[r] = "waiting"
        /\ \A q \in Reqs : q # r => pcs[q] = pc[q]
    BY <1>3 DEF TypeOK, PCs
  <2>2. CountedAtMost(running, pcs, keys')
    <3>1. ASSUME NEW k \in Keys PROVE HoldersIn(pcs, keys', k) = HoldersIn(pc, keys, k)
      BY <2>1, <1>5
    <3> QED
      BY <3>1, <1>3, Zenon DEF Sound, CountedAtMost
  <2> HIDE DEF pcs
  <2>3. ASSUME NEW k \in Keys
        PROVE  que[k] \in Seq(Reqs) /\ RangeOf(que[k]) = WaitersIn(pcs, keys', k) /\ NoDup(que[k])
    <3>1. queue[k] \in Seq(Reqs) /\ RangeOf(queue[k]) = WaitersIn(pc, keys, k) /\ NoDup(queue[k])
      BY <1>3 DEF Sound, Queued
    <3>2. CASE k \in ks
      <4>1. WaitersIn(pcs, keys', k) = WaitersIn(pc, keys, k) \cup {r} /\ r \notin WaitersIn(pc, keys, k)
        BY <3>2, <2>1, <1>5
      <4>2. /\ Append(queue[k], r) \in Seq(Reqs)
            /\ RangeOf(Append(queue[k], r)) = RangeOf(queue[k]) \cup {r}
            /\ NoDup(Append(queue[k], r))
        BY <3>1, <4>1, AppendQueue
      <4>3. que[k] = Append(queue[k], r)
        BY <3>2
      <4> QED
        BY <3>1, <4>1, <4>2, <4>3
    <3>3. CASE k \notin ks
      <4>1. WaitersIn(pcs, keys', k) = WaitersIn(pc, keys, k) /\ que[k] = queue[k]
        BY <3>3, <2>1, <1>5
      <4> QED
        BY <3>1, <4>1
    <3> QED
      BY <3>2, <3>3
  <2>4. que \in [Keys -> Seq(Reqs)] /\ Queued(que, pcs, keys')
    BY <2>3 DEF Queued
  <2> HIDE DEF que
  <2>5. Sound(running, que, pcs, keys', live')
    BY <2>1, <2>2, <2>4, <1>3, <1>4, <1>6 DEF Sound
  <2>6. Sound(running', queue', pc', keys', live') /\ missed' = {}
    BY <2>5, <1>9, DrainRInv, Zenon DEF pcs
  <2>7. timer' \subseteq Keys
    BY <1>9, <1>3 DEF DrainTimers, TypeOK
  <2> QED
    BY <2>6, <2>7, <1>3, <1>4 DEF RInv, TypeOK, Sound
<1> QED
  BY <1>7, <1>8, <1>9 DEF AcquireMany, ks, mx

(* The composite release function: a slot of a gate that was dropped since *)
(* is given back to the gate that has its key now, if that counts any.     *)
LEMMA ReleaseRInv ==
    ASSUME RInv, NEW r \in Reqs, pc[r] = "holding", Release(r), strays' = strays
    PROVE  RInv'
<1>1. TypeOK /\ Sound(running, queue, pc, keys, live) /\ strays' \subseteq Keys
  BY DEF RInv
<1> DEFINE run == [k \in Keys |->
               IF k \in keys[r] /\ running[k] > 0 THEN running[k] - 1 ELSE running[k]]
           pcs == [pc EXCEPT ![r] = "released"]
<1>2. /\ live' = live /\ max' = max /\ keys' = keys /\ blocked' = blocked
      /\ DrainQueues(run, queue, pcs)
      /\ timer' = timer \cup DrainTimers(run, queue)
                  \cup (keys[r] \cap live \cap IdleGates(running', queue'))
  BY DEF Release
<1>3. run \in [Keys -> Nat] /\ pcs \in [Reqs -> PCs]
  BY <1>1 DEF TypeOK, PCs
<1>4. ASSUME NEW k \in Keys
      PROVE  /\ HoldersIn(pcs, keys, k) = HoldersIn(pc, keys, k) \ {r}
             /\ WaitersIn(pcs, keys, k) = WaitersIn(pc, keys, k)
             /\ k \in keys[r] <=> r \in HoldersIn(pc, keys, k)
  BY <1>1 DEF HoldersIn, WaitersIn, Needing, Waiting, TypeOK
<1>5. ASSUME NEW k \in Keys PROVE run[k] <= Cardinality(HoldersIn(pcs, keys, k))
  <2> DEFINE H == HoldersIn(pc, keys, k)
  <2>1. /\ running[k] \in Nat /\ running[k] <= Cardinality(H) /\ Cardinality(H) \in Nat
        /\ r \in H => Cardinality(H \ {r}) = Cardinality(H) - 1 /\ Cardinality(H) > 0
    BY <1>1, HoldersCount DEF Sound, CountedAtMost
  <2>2. Cardinality(HoldersIn(pcs, keys, k)) = Cardinality(H \ {r})
    BY <1>4, Zenon
  <2>3. CASE r \in H
    BY <2>1, <2>2, <2>3, <1>4
  <2>4. CASE r \notin H
    <3>1. H \ {r} = H
      BY <2>4
    <3>2. Cardinality(H \ {r}) = Cardinality(H)
      BY <3>1, Zenon
    <3> QED
      BY <2>1, <2>2, <2>4, <3>2, <1>4
  <2> QED
    BY <2>3, <2>4
<1>6. CountedAtMost(run, pcs, keys)
  BY <1>5 DEF CountedAtMost
<1>7. Queued(queue, pcs, keys)
  BY <1>4, <1>1, Zenon DEF Sound, Queued
<1>8. KeptForWaiters(pcs, keys, live)
  BY <1>1 DEF Sound, KeptForWaiters, Waiting, TypeOK
<1> HIDE DEF run, pcs
<1>9. Sound(run, queue, pcs, keys', live')
  BY <1>1, <1>2, <1>3, <1>6, <1>7, <1>8 DEF Sound
<1>10. Sound(running', queue', pc', keys', live') /\ missed' = {}
  BY <1>2, <1>9, DrainRInv, Zenon
<1>11. timer' \subseteq Keys
  BY <1>2, <1>1 DEF DrainTimers, IdleGates, TypeOK
<1> QED
  BY <1>1, <1>2, <1>10, <1>11 DEF RInv, TypeOK, Sound

(* Leaving the queues by timeout or abort.                                 *)
LEMMA GiveUpRInv ==
    ASSUME RInv, NEW r \in Reqs, GiveUp(r), strays' = strays
    PROVE  RInv'
<1> DEFINE que == [k \in Keys |-> IF k \in keys[r] THEN Without(queue[k], r) ELSE queue[k]]
           pcs == [pc EXCEPT ![r] = "idle"]
<1>1. TypeOK /\ Sound(running, queue, pc, keys, live) /\ strays' \subseteq Keys
  BY DEF RInv
<1>2. /\ pc[r] = "waiting"
      /\ live' = live /\ max' = max /\ keys' = keys /\ blocked' = blocked
      /\ DrainQueues(running, que, pcs)
      /\ timer' = timer \cup (keys[r] \cap live \cap IdleGates(running, que))
                  \cup DrainTimers(running, que)
  BY DEF GiveUp
<1>3. pcs \in [Reqs -> PCs]
  BY <1>1 DEF TypeOK, PCs
<1>4. ASSUME NEW k \in Keys
      PROVE  /\ HoldersIn(pcs, keys, k) = HoldersIn(pc, keys, k)
             /\ WaitersIn(pcs, keys, k) = WaitersIn(pc, keys, k) \ {r}
             /\ k \notin keys[r] => r \notin WaitersIn(pc, keys, k)
  BY <1>1, <1>2 DEF HoldersIn, WaitersIn, Needing, Waiting, TypeOK
<1>5. CountedAtMost(running, pcs, keys)
  BY <1>1, <1>4, Zenon DEF Sound, CountedAtMost
<1>6. KeptForWaiters(pcs, keys, live)
  BY <1>1, <1>2 DEF Sound, KeptForWaiters, Waiting, TypeOK
<1>7. ASSUME NEW k \in Keys
      PROVE  que[k] \in Seq(Reqs) /\ RangeOf(que[k]) = WaitersIn(pcs, keys, k) /\ NoDup(que[k])
  <2>1. queue[k] \in Seq(Reqs) /\ RangeOf(queue[k]) = WaitersIn(pc, keys, k) /\ NoDup(queue[k])
    BY <1>1 DEF Sound, Queued
  <2>2. CASE k \in keys[r]
    <3>1. /\ Without(queue[k], r) \in Seq(Reqs)
          /\ RangeOf(Without(queue[k], r)) = RangeOf(queue[k]) \ {r}
          /\ NoDup(Without(queue[k], r))
      BY <2>1, WithoutQueue
    <3>2. que[k] = Without(queue[k], r)
      BY <2>2
    <3> QED
      BY <2>1, <3>1, <3>2, <1>4
  <2>3. CASE k \notin keys[r]
    <3>1. que[k] = queue[k] /\ WaitersIn(pcs, keys, k) = WaitersIn(pc, keys, k)
      BY <2>3, <1>4
    <3> QED
      BY <2>1, <3>1
  <2> QED
    BY <2>2, <2>3
<1>8. que \in [Keys -> Seq(Reqs)] /\ Queued(que, pcs, keys)
  BY <1>7 DEF Queued
<1> HIDE DEF que, pcs
<1>9. Sound(running, que, pcs, keys', live')
  BY <1>1, <1>2, <1>3, <1>5, <1>6, <1>8 DEF Sound
<1>10. Sound(running', queue', pc', keys', live') /\ missed' = {}
  BY <1>2, <1>9, DrainRInv, Zenon
<1>11. timer' \subseteq Keys
  BY <1>1, <1>2 DEF DrainTimers, IdleGates, TypeOK
<1> QED
  BY <1>1, <1>2, <1>10, <1>11 DEF RInv, TypeOK, Sound

(* Nobody waits in a gate that is idle.                                    *)
LEMMA IdleUnwaited ==
    ASSUME NEW run, NEW que, NEW pcs, NEW kk, NEW lv, NEW k \in Keys,
           Sound(run, que, pcs, kk, lv), k \in IdleGates(run, que)
    PROVE  KeptForWaiters(pcs, kk, lv \ {k})
<1>1. que[k] = << >>
  BY DEF IdleGates
<1>2. RangeOf(que[k]) = {}
  BY <1>1 DEF RangeOf
<1>3. WaitersIn(pcs, kk, k) = {}
  BY <1>2 DEF Sound, Queued
<1>4. \A q \in Waiting(pcs) : k \notin kk[q]
  BY <1>3 DEF WaitersIn, Needing
<1> QED
  BY <1>4 DEF Sound, KeptForWaiters

(* The handlers that touch neither counts nor queues.                      *)
LEMMA BlockRInv ==
    ASSUME RInv, NEW k \in Keys,
           \/ (MarkBlocked(k) \/ BlockLapses(k) \/ CleanupTimer(k)) /\ strays' = strays
           \/ StrayTimer(k)
    PROVE  RInv'
<1>1. TypeOK /\ strays \subseteq Keys /\ Sound(running, queue, pc, keys, live)
  BY DEF RInv
<1>2. running' = running /\ queue' = queue /\ pc' = pc /\ keys' = keys
  BY DEF MarkBlocked, BlockLapses, CleanupTimer, StrayTimer
<1>3. TypeOK'
  BY <1>1, <1>2 DEF TypeOK, MarkBlocked, BlockLapses, CleanupTimer, StrayTimer
<1>4. strays' \subseteq Keys
  BY <1>1 DEF StrayTimer
<1>5. KeptForWaiters(pc, keys, live')
  <2>1. CASE live \subseteq live'
    BY <2>1, <1>1 DEF Sound, KeptForWaiters
  <2>2. CASE k \in IdleGates(running, queue) /\ live' = live \ {k}
    BY <2>2, <1>1, IdleUnwaited
  <2> QED
    BY <2>1, <2>2 DEF MarkBlocked, BlockLapses, CleanupTimer, StrayTimer
<1>6. Sound(running, queue, pc, keys, live')
  BY <1>1, <1>5 DEF Sound
<1>7. Sound(running', queue', pc', keys', live')
  BY <1>2, <1>6, Zenon
<1> QED
  BY <1>3, <1>4, <1>7 DEF RInv

(* unblock.                                                                *)
LEMMA UnblockRInv ==
    ASSUME RInv, NEW k \in Keys, Unblock(k), strays' = strays
    PROVE  RInv'
<1> DEFINE idle == {k} \cap IdleGates(running', queue')
<1>1. TypeOK /\ strays' \subseteq Keys /\ Sound(running, queue, pc, keys, live)
  BY DEF RInv
<1>2. /\ blocked' = blocked \ {k} /\ max' = max /\ keys' = keys
      /\ DrainQueues(running, queue, pc)
      /\ live' = live \ idle
      /\ timer' = (timer \cup DrainTimers(running, queue)) \ idle
  BY DEF Unblock
<1>3. Sound(running, queue, pc, keys', live)
  BY <1>1, <1>2, Zenon
<1>4. Sound(running', queue', pc', keys', live) /\ missed' = {}
  BY <1>2, <1>3, DrainRInv, Zenon
<1>5. KeptForWaiters(pc', keys', live')
  <2>1. CASE k \in IdleGates(running', queue')
    <3>1. live' = live \ {k}
      BY <2>1, <1>2
    <3> QED
      BY <2>1, <3>1, <1>4, IdleUnwaited
  <2>2. CASE k \notin IdleGates(running', queue')
    <3>1. live' = live
      BY <2>2, <1>2
    <3> QED
      BY <3>1, <1>4 DEF Sound
  <2> QED
    BY <2>1, <2>2
<1>6. timer' \subseteq Keys /\ live' \subseteq Keys /\ blocked' \subseteq Keys
  BY <1>1, <1>2 DEF DrainTimers, TypeOK
<1> QED
  BY <1>1, <1>2, <1>4, <1>5, <1>6 DEF RInv, TypeOK, Sound

(* resetAll.                                                               *)
LEMMA ResetAllRInv ==
    ASSUME RInv, ResetAll
    PROVE  RInv'
<1>1. TypeOK /\ strays' \subseteq Keys
  BY DEF RInv, ResetAll
<1>2. /\ live' = {} /\ blocked' = {} /\ timer' = {} /\ missed' = {} /\ max' = max /\ keys' = keys
      /\ running' = [k \in Keys |-> 0] /\ queue' = [k \in Keys |-> << >>]
      /\ pc' = [r \in Reqs |-> IF pc[r] = "waiting" THEN "idle" ELSE pc[r]]
  BY DEF ResetAll
<1>3. TypeOK'
  BY <1>1, <1>2, EmptySeq DEF TypeOK, PCs
<1>4. Waiting(pc') = {}
  BY <1>1, <1>2 DEF Waiting
<1>5. CountedAtMost(running', pc', keys')
  <2>1. \A k \in Keys : Cardinality(HoldersIn(pc', keys', k)) \in Nat
    BY NeedingFinite DEF HoldersIn
  <2> QED
    BY <2>1, <1>2 DEF CountedAtMost
<1>6. Queued(queue', pc', keys')
  <2>1. ASSUME NEW k \in Keys PROVE queue'[k] = << >> /\ WaitersIn(pc', keys', k) = {}
    BY <1>2, <1>4 DEF WaitersIn, Needing
  <2>2. ASSUME NEW k \in Keys PROVE RangeOf(queue'[k]) = {} /\ NoDup(queue'[k])
    BY <2>1 DEF RangeOf, NoDup
  <2> QED
    BY <2>1, <2>2 DEF Queued
<1>7. KeptForWaiters(pc', keys', live')
  BY <1>4 DEF KeptForWaiters
<1> QED
  BY <1>1, <1>3, <1>5, <1>6, <1>7 DEF RInv, Sound, TypeOK

(* reset(key).                                                             *)
LEMMA ResetRInv ==
    ASSUME RInv, NEW k \in Keys, Reset(k)
    PROVE  RInv'
<1> DEFINE out == {r \in Waiting(pc) : k \in keys[r]}
           que == [j \in Keys |-> WithoutAll(queue[j], out)]
           run == [running EXCEPT ![k] = 0]
           armed == (UNION {keys[r] : r \in out}) \cap live \cap IdleGates(running, que)
           pcs == [r \in Reqs |-> IF r \in out THEN "idle" ELSE pc[r]]
<1>1. TypeOK /\ strays \subseteq Keys /\ Sound(running, queue, pc, keys, live)
  BY DEF RInv
<1>2. /\ blocked' = blocked \ {k} /\ live' = live \ {k} /\ max' = max /\ keys' = keys
      /\ DrainQueues(run, que, pcs)
      /\ timer' = (timer \cup armed \cup DrainTimers(run, que)) \ {k}
      /\ strays' = strays \cup (armed \cap {k})
  BY DEF Reset
<1>3. run \in [Keys -> Nat] /\ pcs \in [Reqs -> PCs]
  BY <1>1 DEF TypeOK, PCs
<1>4. ASSUME NEW j \in Keys
      PROVE  /\ HoldersIn(pcs, keys, j) = HoldersIn(pc, keys, j)
             /\ WaitersIn(pcs, keys, j) = WaitersIn(pc, keys, j) \ out
  BY <1>1 DEF HoldersIn, WaitersIn, Needing, Waiting, TypeOK
<1>5. CountedAtMost(run, pcs, keys)
  <2>1. ASSUME NEW j \in Keys PROVE run[j] <= Cardinality(HoldersIn(pcs, keys, j))
    <3>1. Cardinality(HoldersIn(pcs, keys, j)) = Cardinality(HoldersIn(pc, keys, j))
      BY <1>4, Zenon
    <3>2. Cardinality(HoldersIn(pc, keys, j)) \in Nat
      BY NeedingFinite DEF HoldersIn
    <3>3. running[j] <= Cardinality(HoldersIn(pc, keys, j)) /\ running \in [Keys -> Nat]
      BY <1>1 DEF Sound, CountedAtMost
    <3> HIDE DEF pcs
    <3> QED
      BY <3>1, <3>2, <3>3
  <2> QED
    BY <2>1 DEF CountedAtMost
<1>6. KeptForWaiters(pcs, keys, live \ {k})
  BY <1>1 DEF Sound, KeptForWaiters, Waiting
<1> HIDE DEF out
<1>7. ASSUME NEW j \in Keys
      PROVE  que[j] \in Seq(Reqs) /\ RangeOf(que[j]) = WaitersIn(pcs, keys, j) /\ NoDup(que[j])
  <2>1. queue[j] \in Seq(Reqs) /\ RangeOf(queue[j]) = WaitersIn(pc, keys, j) /\ NoDup(queue[j])
    BY <1>1 DEF Sound, Queued
  <2>2. /\ WithoutAll(queue[j], out) \in Seq(Reqs)
        /\ RangeOf(WithoutAll(queue[j], out)) = RangeOf(queue[j]) \ out
        /\ NoDup(WithoutAll(queue[j], out))
    BY <2>1, WithoutAllQueue
  <2>3. que[j] = WithoutAll(queue[j], out)
    OBVIOUS
  <2> HIDE DEF que, pcs
  <2> QED
    BY <2>1, <2>2, <2>3, <1>4
<1>8. que \in [Keys -> Seq(Reqs)] /\ Queued(que, pcs, keys)
  BY <1>7 DEF Queued
<1>9. armed \subseteq Keys /\ DrainTimers(run, que) \subseteq Keys
  <2> HIDE DEF que, run
  <2>1. IdleGates(running, que) \subseteq Keys
    BY DEF IdleGates
  <2>2. armed \subseteq IdleGates(running, que)
    BY Zenon
  <2> QED
    BY <2>1, <2>2 DEF DrainTimers
<1> HIDE DEF que, pcs, run, armed
<1>10. Sound(run, que, pcs, keys', live')
  BY <1>1, <1>2, <1>3, <1>5, <1>6, <1>8 DEF Sound
<1>11. Sound(running', queue', pc', keys', live') /\ missed' = {}
  BY <1>2, <1>10, DrainRInv, Zenon
<1>12. /\ timer' \subseteq Keys /\ live' \subseteq Keys /\ blocked' \subseteq Keys
       /\ strays' \subseteq Keys
  BY <1>1, <1>2, <1>9 DEF TypeOK
<1> QED
  BY <1>1, <1>2, <1>11, <1>12 DEF RInv, TypeOK, Sound

(* Every step preserves the invariant with resets.                         *)
LEMMA RNextRInv == RInv /\ [RNext]_rvars => RInv'
<1> SUFFICES ASSUME RInv, [RNext]_rvars PROVE RInv'
  OBVIOUS
<1>1. ASSUME UNCHANGED vars, UNCHANGED strays PROVE RInv'
  <2>1. /\ live' = live /\ running' = running /\ max' = max /\ queue' = queue /\ blocked' = blocked
        /\ timer' = timer /\ pc' = pc /\ keys' = keys /\ missed' = missed /\ strays' = strays
    BY <1>1 DEF vars
  <2>2. TypeOK' /\ strays' \subseteq Keys
    BY <2>1 DEF RInv, TypeOK
  <2>3. Sound(running', queue', pc', keys', live')
    BY <2>1, Zenon DEF RInv
  <2> QED
    BY <2>2, <2>3 DEF RInv
<1>2. CASE UNCHANGED rvars
  BY <1>1, <1>2 DEF rvars
<1>3. CASE \E r \in Reqs, req \in Requirements, b \in QueueBounds, ff \in BOOLEAN :
              AcquireMany(r, req, b, ff) /\ strays' = strays
  BY <1>3, AcquireRInv
<1>4. CASE \E r \in Reqs : (Release(r) \/ WaitTimeout(r) \/ Abort(r)) /\ strays' = strays
  <2>1. PICK r \in Reqs : (Release(r) \/ GiveUp(r)) /\ strays' = strays
    BY <1>4 DEF WaitTimeout, Abort
  <2>2. CASE Release(r) /\ pc[r] # "holding"
    BY <2>1, <2>2, <1>1 DEF Release
  <2> QED
    BY <2>1, <2>2, ReleaseRInv, GiveUpRInv
<1>5. CASE \E k \in AccountKeys : (MarkBlocked(k) \/ BlockLapses(k) \/ Unblock(k)) /\ strays' = strays
  BY <1>5, BlockRInv, UnblockRInv, ConstantsAssumption
<1>6. CASE \E k \in Keys : (CleanupTimer(k) /\ strays' = strays) \/ Reset(k) \/ StrayTimer(k)
  BY <1>6, BlockRInv, ResetRInv
<1>7. CASE ResetAll
  BY <1>7, ResetAllRInv
<1> QED
  BY <1>2, <1>3, <1>4, <1>5, <1>6, <1>7 DEF RNext, Next

(* The invariant holds in every state that handlers and resets reach.      *)
THEOREM ResetInvariance == RSpec => []RInv
<1>1. Init /\ strays = {} => RInv
  <2> SUFFICES ASSUME Init, strays = {} PROVE RInv
    OBVIOUS
  <2>1. IInv
    BY InitIInv
  <2>2. CountedAtMost(running, pc, keys) /\ KeptForWaiters(pc, keys, live)
    BY <2>1 DEF IInv, Good, Counted, CountedAtMost, Kept, KeptForWaiters, Waiting
  <2> QED
    BY <2>1, <2>2 DEF IInv, Good, RInv, Sound
<1>2. RInv /\ [RNext]_rvars => RInv'
  BY RNextRInv
<1> QED
  BY <1>1, <1>2, PTL DEF RSpec

(* However often an operator resets gates under running requests, whose    *)
(* late releases reach gates created since, no gate ever counts more       *)
(* requests than run in it (resetAll, reset and the composite release).    *)
THEOREM ResetLeavesNoPhantoms == RSpec => []NoPhantomPermits
<1>1. RInv => NoPhantomPermits
  BY DEF RInv, Sound, CountedAtMost, HoldersIn, NoPhantomPermits, Holders
<1> QED
  BY ResetInvariance, <1>1, PTL

(* No reset and no cleanup timer left over from one takes a gate away from *)
(* a request that waits in it (reset, cleanupGateIfIdle).                  *)
THEOREM ResetSparesWaiters == RSpec => []ResetKeepsWaitedGates
<1>1. RInv => ResetKeepsWaitedGates
  BY DEF RInv, Sound, KeptForWaiters, ResetKeepsWaitedGates
<1> QED
  BY ResetInvariance, <1>1, PTL
=============================================================================
