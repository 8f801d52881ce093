----------------------- MODULE AdmissionControlProofs -----------------------
(***************************************************************************)
(* The admission controller for any number of requests, tenants, costs and *)
(* limits.  Dispatch is a loop, so what it leaves behind is proved by      *)
(* induction over its rounds (CountUp).                                    *)
(***************************************************************************)
EXTENDS AdmissionControl, WaitQueueProofs

-----------------------------------------------------------------------------
(* Positions.                                                              *)

(* A position of a ring of n, i places further on.                         *)
LEMMA Wrap ==
    ASSUME NEW n \in Nat \ {0}, NEW c \in 0..(n - 1), NEW i \in 0..(n - 1)
    PROVE  (c + i) % n = IF c + i < n THEN c + i ELSE c + i - n
<1>1. CASE c + i < n
  BY <1>1
<1>2. CASE c + i >= n
  BY <1>2
<1> QED
  BY <1>1, <1>2

-----------------------------------------------------------------------------
(* Costs.                                                                  *)

Units(S) == UNION {{r} \X (1..Cost[r]) : r \in S}

LEMMA UnitsFinite ==
    ASSUME NEW S \in SUBSET Reqs
    PROVE  IsFiniteSet(Units(S)) /\ CostOf(S) \in Nat /\ CostOf(S) = Cardinality(Units(S))
<1> DEFINE f == [r \in S |-> {r} \X (1..Cost[r])]
           T == {{r} \X (1..Cost[r]) : r \in S}
<1>1. IsFiniteSet(S)
  BY FS_Subset, QueueAssumption
<1>2. f \in Surjection(S, T)
  BY DEF Surjection
<1>3. IsFiniteSet(T)
  BY <1>1, <1>2, FS_Surjection
<1>4. ASSUME NEW r \in S PROVE IsFiniteSet({r} \X (1..Cost[r]))
  <2>1. IsFiniteSet({r}) /\ IsFiniteSet(1..Cost[r])
    BY FS_Singleton, CountTo, QueueAssumption
  <2> QED
    BY <2>1, FS_Product
<1>5. IsFiniteSet(UNION T)
  BY <1>3, <1>4, FS_UNION
<1> QED
  BY <1>5, FS_CardinalityType DEF Units, CostOf

LEMMA CostAdded ==
    ASSUME NEW S \in SUBSET Reqs, NEW r \in Reqs, r \notin S
    PROVE  CostOf(S \cup {r}) = CostOf(S) + Cost[r]
<1> DEFINE P == {r} \X (1..Cost[r])
<1>1. Units(S \cup {r}) = Units(S) \cup P
  BY Zenon DEF Units
<1>0. Units(S) \cap P = {}
  <2> SUFFICES ASSUME NEW x \in S, NEW u, u \in {x} \X (1..Cost[x]), u \in P PROVE FALSE
    BY Zenon DEF Units
  <2> QED
    OBVIOUS
<1>2. IsFiniteSet(P) /\ Cardinality(P) = Cost[r]
  <2>1. Cost[r] \in Nat \ {0}
    BY QueueAssumption
  <2>2. /\ IsFiniteSet({r}) /\ Cardinality({r}) = 1
        /\ IsFiniteSet(1..Cost[r]) /\ Cardinality(1..Cost[r]) = Cost[r]
    BY <2>1, FS_Singleton, CountTo
  <2> HIDE DEF P
  <2>3. IsFiniteSet(P) /\ Cardinality(P) = 1 * Cost[r]
    BY <2>2, FS_Product DEF P
  <2> QED
    BY <2>1, <2>3
<1>3. IsFiniteSet(Units(S)) /\ CostOf(S) = Cardinality(Units(S)) /\ CostOf(S) \in Nat
  BY UnitsFinite
<1>4. S \cup {r} \in SUBSET Reqs
  OBVIOUS
<1>5. CostOf(S \cup {r}) = Cardinality(Units(S \cup {r}))
  BY <1>4, UnitsFinite
<1>6. Cost[r] \in Nat
  BY QueueAssumption
<1> HIDE DEF P
<1>7. Cardinality(Units(S) \cup P) = CostOf(S) + Cost[r] - Cardinality({})
  BY <1>0, <1>2, <1>3, FS_Union
<1>8. Cardinality(Units(S) \cup P) = CostOf(S) + Cost[r]
  BY <1>3, <1>6, <1>7, FS_EmptySet
<1> QED
  BY <1>1, <1>5, <1>8, Zenon

LEMMA CostRemoved ==
    ASSUME NEW S \in SUBSET Reqs, NEW r \in S
    PROVE  CostOf(S \ {r}) = CostOf(S) - Cost[r] /\ Cost[r] <= CostOf(S)
<1>1. S \ {r} \in SUBSET Reqs /\ r \in Reqs /\ r \notin S \ {r} /\ (S \ {r}) \cup {r} = S
  OBVIOUS
<1>2. CostOf(S) = CostOf(S \ {r}) + Cost[r]
  BY <1>1, CostAdded
<1>3. CostOf(S) \in Nat /\ CostOf(S \ {r}) \in Nat /\ Cost[r] \in Nat
  BY <1>1, UnitsFinite, QueueAssumption
<1> QED
  BY <1>2, <1>3

LEMMA CostOfNone == CostOf({}) = 0
<1>1. Units({}) = {}
  BY DEF Units
<1>2. CostOf({}) = Cardinality(Units({}))
  BY UnitsFinite
<1> QED
  BY <1>1, <1>2, FS_EmptySet

-----------------------------------------------------------------------------
(* The queue.  Q is the set of the requests that are queued.               *)

(* The tenants that have entries are in the ring, once, with the cursor.   *)
Ring(q) ==
    /\ NoDup(q.order)
    /\ \A t \in Tenants : t \in RangeOf(q.order) <=> q.bucket[t] # << >>
    /\ q.cursor = 0 \/ q.cursor < Len(q.order)

(* Each bucket holds its tenant's entries, once.                           *)
Lined(q, Q) ==
    \A t \in Tenants : /\ NoDup(q.bucket[t])
                       /\ RangeOf(q.bucket[t]) = {r \in Q : Tenant[r] = t}

Totals(q, Q) == q.count = Cardinality(Q) /\ q.cost = CostOf(Q)

(* Only the head of a bucket has been passed over, and seldom enough.      *)
Passed(q) ==
    \A r \in Reqs :
        /\ q.skips[r] <= MaxSkips
        /\ q.skips[r] > 0 => q.bucket[Tenant[r]] # << >> /\ r = Head(q.bucket[Tenant[r]])

Kept(q, Q) == q \in Queues /\ Q \subseteq Reqs /\ Lined(q, Q) /\ Totals(q, Q) /\ Passed(q)
Sound(q, Q) == Kept(q, Q) /\ Ring(q)

LEMMA EmptySound == Sound(EmptyQueue, {})
<1>1. EmptyQueue \in Queues
  BY QueueAssumption DEF EmptyQueue, Queues
<1>2. RangeOf(<< >>) = {} /\ NoDup(<< >>)
  BY DEF RangeOf, NoDup
<1>3. Lined(EmptyQueue, {})
  BY <1>2 DEF Lined, EmptyQueue
<1>4. Totals(EmptyQueue, {})
  BY CostOfNone, FS_EmptySet DEF Totals, EmptyQueue
<1>5. Passed(EmptyQueue)
  BY QueueAssumption DEF Passed, EmptyQueue
<1>6. Ring(EmptyQueue)
  BY <1>2 DEF Ring, EmptyQueue
<1> QED
  BY <1>1, <1>3, <1>4, <1>5, <1>6 DEF Sound, Kept

(* What a sound queue says of its heads.                                   *)
LEMMA HeadOfBucket ==
    ASSUME NEW q, NEW Q, Kept(q, Q), NEW t \in Tenants, q.bucket[t] # << >>
    PROVE  /\ Head(q.bucket[t]) \in Q
           /\ Tenant[Head(q.bucket[t])] = t
<1>1. q.bucket[t] \in Seq(Reqs) /\ NoDup(q.bucket[t])
      /\ RangeOf(q.bucket[t]) = {r \in Q : Tenant[r] = t}
  BY DEF Kept, Lined, Queues
<1>2. Head(q.bucket[t]) \in RangeOf(q.bucket[t])
  BY <1>1, ShiftQueue
<1> QED
  BY <1>1, <1>2

(* The cursor goes round the ring.                                         *)
LEMMA RingIndex ==
    ASSUME NEW q, NEW Q, Sound(q, Q), NEW i \in Offsets(q)
    PROVE  /\ Len(q.order) \in Nat \ {0} /\ i \in Nat /\ i < Len(q.order)
           /\ q.cursor \in Nat /\ q.cursor < Len(q.order)
           /\ IndexAt(q, i) = IF q.cursor + i < Len(q.order) THEN q.cursor + i
                              ELSE q.cursor + i - Len(q.order)
<1>1. q.order \in Seq(Tenants) /\ q.cursor \in Nat
  BY DEF Sound, Kept, Queues
<1>2. Len(q.order) \in Nat
  BY <1>1, LenProperties
<1>3. i \in Nat /\ i < Len(q.order) /\ Len(q.order) # 0
  BY <1>2 DEF Offsets
<1>4. q.cursor < Len(q.order)
  BY <1>1, <1>2, <1>3 DEF Sound, Ring
<1>5. IndexAt(q, i) = IF q.cursor + i < Len(q.order) THEN q.cursor + i
                      ELSE q.cursor + i - Len(q.order)
  <2>1. /\ Len(q.order) \in Nat \ {0} /\ q.cursor \in 0..(Len(q.order) - 1)
        /\ i \in 0..(Len(q.order) - 1)
    BY <1>1, <1>2, <1>3, <1>4
  <2> QED
    BY <2>1, Wrap DEF IndexAt
<1> QED
  BY <1>1, <1>2, <1>3, <1>4, <1>5

LEMMA RingHead ==
    ASSUME NEW q, NEW Q, Sound(q, Q), NEW i \in Offsets(q)
    PROVE  LET t == q.order[IndexAt(q, i) + 1]
           IN  /\ IndexAt(q, i) \in Nat /\ IndexAt(q, i) < Len(q.order)
               /\ t \in Tenants /\ t \in RangeOf(q.order) /\ q.bucket[t] # << >>
               /\ HeadAt(q, i) = Head(q.bucket[t])
               /\ HeadAt(q, i) \in Q /\ HeadAt(q, i) \in Reqs
               /\ Tenant[HeadAt(q, i)] = t
<1> DEFINE n == IndexAt(q, i)
           t == q.order[n + 1]
<1>1. q.order \in Seq(Tenants) /\ Q \subseteq Reqs /\ Ring(q) /\ Kept(q, Q)
  BY DEF Sound, Kept, Queues
<1>2. Len(q.order) \in Nat \ {0} /\ n \in Nat /\ n < Len(q.order)
  BY RingIndex
<1>3. HeadAt(q, i) = Head(q.bucket[t])
  BY DEF HeadAt
<1> HIDE DEF n
<1>4. n + 1 \in 1..Len(q.order)
  BY <1>2
<1>5. t \in Tenants /\ t \in RangeOf(q.order)
  BY <1>1, <1>4, ElementOfSeq DEF RangeOf
<1> HIDE DEF t
<1>6. q.bucket[t] # << >>
  BY <1>1, <1>5 DEF Ring
<1>7. Head(q.bucket[t]) \in Q /\ Tenant[Head(q.bucket[t])] = t
  BY <1>1, <1>5, <1>6, HeadOfBucket
<1> QED
  BY <1>1, <1>2, <1>3, <1>5, <1>6, <1>7 DEF t, n

(* The ring and the cursor can be changed without harm to the entries.     *)
LEMMA TurnedKept ==
    ASSUME NEW q, NEW Q, Kept(q, Q), NEW o \in Seq(Tenants), NEW c \in Nat
    PROVE  /\ Kept([q EXCEPT !.order = o, !.cursor = c], Q)
           /\ Kept([q EXCEPT !.cursor = c], Q)
<1> DEFINE u == [q EXCEPT !.order = o, !.cursor = c]
           v == [q EXCEPT !.cursor = c]
<1>1. q \in Queues
  BY DEF Kept
<1>2. /\ u \in Queues /\ u.bucket = q.bucket /\ u.skips = q.skips
      /\ u.count = q.count /\ u.cost = q.cost
  BY <1>1 DEF Queues
<1>3. /\ v \in Queues /\ v.bucket = q.bucket /\ v.skips = q.skips
      /\ v.count = q.count /\ v.cost = q.cost
  BY <1>1 DEF Queues
<1> HIDE DEF u, v
<1>4. Kept(u, Q)
  BY <1>2 DEF Kept, Lined, Totals, Passed
<1>5. Kept(v, Q)
  BY <1>3 DEF Kept, Lined, Totals, Passed
<1> QED
  BY <1>4, <1>5 DEF u, v

(* The entry r leaves its bucket.                                          *)
LEMMA LeftKept ==
    ASSUME NEW q, NEW Q, Kept(q, Q), NEW r \in Q
    PROVE  /\ Kept(Left(q, r), Q \ {r})
           /\ Left(q, r).order = q.order /\ Left(q, r).cursor = q.cursor
           /\ \A x \in Reqs : Left(q, r).skips[x] = IF x = r THEN 0 ELSE q.skips[x]
           /\ Left(q, r).age = AgesWithout(q.age, r)
<1> DEFINE l == Left(q, r)
           t == Tenant[r]
<1>1. q \in Queues /\ Q \subseteq Reqs /\ r \in Reqs /\ t \in Tenants
  BY QueueAssumption DEF Kept
<1>2. /\ l.order = q.order /\ l.cursor = q.cursor
      /\ l.bucket = [q.bucket EXCEPT ![t] = Without(@, r)]
      /\ l.skips = [q.skips EXCEPT ![r] = 0]
      /\ l.age = AgesWithout(q.age, r)
      /\ l.count = q.count - 1 /\ l.cost = q.cost - Cost[r]
  BY <1>1 DEF Left, Queues
<1>3. AgesWithout(q.age, r) \in [Reqs -> Nat]
  <2>1. q.age \in [Reqs -> Nat]
    BY <1>1 DEF Queues
  <2> QED
    BY <1>1, <2>1 DEF AgesWithout
<1>4. /\ q.bucket[t] \in Seq(Reqs) /\ NoDup(q.bucket[t])
      /\ RangeOf(q.bucket[t]) = {x \in Q : Tenant[x] = t}
  BY <1>1 DEF Kept, Lined, Queues
<1>5. /\ Without(q.bucket[t], r) \in Seq(Reqs) /\ NoDup(Without(q.bucket[t], r))
      /\ RangeOf(Without(q.bucket[t], r)) = RangeOf(q.bucket[t]) \ {r}
  BY <1>4, WithoutQueue
<1>6. Totals(l, Q \ {r}) /\ l.count \in Nat /\ l.cost \in Nat
  <2>1. IsFiniteSet(Q) /\ Q \ {r} \in SUBSET Reqs /\ Q \in SUBSET Reqs
    BY <1>1, FS_Subset, QueueAssumption
  <2>2. /\ Cardinality(Q \ {r}) = Cardinality(Q) - 1
        /\ IsFiniteSet(Q \ {r})
    BY <2>1, FS_RemoveElement
  <2>3. Cardinality(Q \ {r}) \in Nat
    BY <2>2, FS_CardinalityType
  <2>4. CostOf(Q \ {r}) = CostOf(Q) - Cost[r]
    BY <2>1, CostRemoved
  <2>5. CostOf(Q \ {r}) \in Nat
    BY <2>1, UnitsFinite
  <2>6. q.count = Cardinality(Q) /\ q.cost = CostOf(Q)
    BY DEF Kept, Totals
  <2> HIDE DEF l
  <2> QED
    BY <1>2, <2>2, <2>3, <2>4, <2>5, <2>6 DEF Totals
<1>7. l \in Queues
  <2>1. q.count - 1 \in Nat /\ q.cost - Cost[r] \in Nat
    BY <1>2, <1>6
  <2> QED
    BY <1>1, <1>3, <1>5, <2>1 DEF Left, Queues
<1> HIDE DEF l
<1>8. Lined(l, Q \ {r})
  <2> SUFFICES ASSUME NEW u \in Tenants
               PROVE  /\ NoDup(l.bucket[u])
                      /\ RangeOf(l.bucket[u]) = {x \in Q \ {r} : Tenant[x] = u}
    BY DEF Lined
  <2>1. CASE u = t
    <3>1. l.bucket[u] = Without(q.bucket[t], r)
      BY <1>1, <1>2, <2>1 DEF Queues
    <3> QED
      BY <1>4, <1>5, <2>1, <3>1
  <2>2. CASE u # t
    <3>1. l.bucket[u] = q.bucket[u]
      BY <1>1, <1>2, <2>2 DEF Queues
    <3>2. NoDup(q.bucket[u]) /\ RangeOf(q.bucket[u]) = {x \in Q : Tenant[x] = u}
      BY DEF Kept, Lined
    <3> QED
      BY <3>1, <3>2, <2>2
  <2> QED
    BY <2>1, <2>2
<1>9. Passed(l)
  <2> SUFFICES ASSUME NEW x \in Reqs
               PROVE  /\ l.skips[x] <= MaxSkips
                      /\ l.skips[x] > 0 => /\ l.bucket[Tenant[x]] # << >>
                                           /\ x = Head(l.bucket[Tenant[x]])
    BY DEF Passed
  <2>0. q.skips \in [Reqs -> Nat] /\ q.bucket \in [Tenants -> Seq(Reqs)] /\ Tenant[x] \in Tenants
    BY <1>1, QueueAssumption DEF Queues
  <2>1. CASE x = r
    BY <1>1, <1>2, <2>0, <2>1, QueueAssumption
  <2>2. CASE x # r /\ q.skips[x] = 0
    BY <1>2, <2>0, <2>2, QueueAssumption
  <2>3. CASE x # r /\ q.skips[x] > 0
    <3>1. q.bucket[Tenant[x]] # << >> /\ x = Head(q.bucket[Tenant[x]]) /\ q.skips[x] <= MaxSkips
      BY <2>3 DEF Kept, Passed
    <3>2. l.skips[x] = q.skips[x]
      BY <1>2, <2>0, <2>3
    <3>3. CASE Tenant[x] # t
      BY <1>2, <2>0, <3>1, <3>2, <3>3
    <3>4. CASE Tenant[x] = t
      <4>1. l.bucket[t] = Without(q.bucket[t], r)
        BY <1>1, <1>2, <2>0
      <4>2. q.bucket[t] # << >> /\ r # Head(q.bucket[t])
        BY <2>3, <3>1, <3>4
      <4>3. Without(q.bucket[t], r) # << >> /\ Head(Without(q.bucket[t], r)) = Head(q.bucket[t])
        BY <1>4, <4>2, WithoutHead
      <4> QED
        BY <3>1, <3>2, <3>4, <4>1, <4>3
    <3> QED
      BY <3>3, <3>4
  <2> QED
    BY <2>0, <2>1, <2>2, <2>3
<1>10. Kept(l, Q \ {r})
  BY <1>1, <1>6, <1>7, <1>8, <1>9 DEF Kept
<1>11. \A x \in Reqs : l.skips[x] = IF x = r THEN 0 ELSE q.skips[x]
  BY <1>1, <1>2 DEF Queues
<1> QED
  BY <1>2, <1>10, <1>11 DEF l

(* The ring and the cursor once the entry r has left.                      *)
LEMMA LeftTurned ==
    ASSUME NEW q, NEW Q, Sound(q, Q), NEW r \in Q, NEW c \in Nat
    PROVE  LET t == Tenant[r]
               l == Left(q, r)
               o == Without(q.order, t)
           IN  /\ t \in Tenants /\ t \in RangeOf(q.order)
               /\ Len(q.order) \in Nat \ {0} /\ Len(o) = Len(q.order) - 1
               /\ l.bucket[t] # << >> => Sound(l, Q \ {r})
               /\ l.bucket[t] # << >> /\ c < Len(q.order) => Sound([l EXCEPT !.cursor = c], Q \ {r})
               /\ l.bucket[t] = << >> /\ (c = 0 \/ c < Len(o)) =>
                    Sound([l EXCEPT !.order = o, !.cursor = c], Q \ {r})
<1> DEFINE t == Tenant[r]
           l == Left(q, r)
           o == Without(q.order, t)
           u == [l EXCEPT !.cursor = c]
           v == [l EXCEPT !.order = o, !.cursor = c]
<1>1. /\ q \in Queues /\ Q \subseteq Reqs /\ Kept(q, Q) /\ Ring(q) /\ r \in Reqs
      /\ q.order \in Seq(Tenants) /\ t \in Tenants /\ q.bucket \in [Tenants -> Seq(Reqs)]
  BY QueueAssumption DEF Sound, Kept, Queues
<1>2. /\ Kept(l, Q \ {r})
      /\ l.order = q.order /\ l.cursor = q.cursor
      /\ l.bucket = [q.bucket EXCEPT ![t] = Without(@, r)]
  <2>1. Kept(l, Q \ {r}) /\ l.order = q.order /\ l.cursor = q.cursor
    BY <1>1, LeftKept
  <2>2. l.bucket = [q.bucket EXCEPT ![t] = Without(@, r)]
    BY <1>1 DEF Left, Queues
  <2> QED
    BY <2>1, <2>2
<1>3. t \in RangeOf(q.order)
  <2>1. r \in RangeOf(q.bucket[t])
    BY <1>1 DEF Kept, Lined
  <2>2. q.bucket[t] # << >>
    BY <2>1 DEF RangeOf
  <2> QED
    BY <1>1, <2>2 DEF Ring
<1>4. /\ o \in Seq(Tenants) /\ NoDup(o) /\ RangeOf(o) = RangeOf(q.order) \ {t}
      /\ Len(q.order) \in Nat \ {0} /\ Len(o) = Len(q.order) - 1
  <2>1. PICK m \in 1..Len(q.order) : q.order[m] = t
    BY <1>3 DEF RangeOf
  <2>2. Len(q.order) \in Nat
    BY <1>1, LenProperties
  <2>3. NoDup(q.order)
    BY <1>1 DEF Ring
  <2>4. Len(Without(q.order, q.order[m])) = Len(q.order) - 1
    BY <1>1, <2>1, <2>3, WithoutAt
  <2>5. o \in Seq(Tenants) /\ NoDup(o) /\ RangeOf(o) = RangeOf(q.order) \ {t}
    BY <1>1, <2>3, WithoutQueue
  <2> QED
    BY <2>1, <2>2, <2>4, <2>5
<1>5. ASSUME NEW x \in Tenants, x # t PROVE l.bucket[x] = q.bucket[x]
  BY <1>1, <1>2, <1>5
<1> HIDE DEF l, o
<1>6. /\ Kept(u, Q \ {r}) /\ u.order = q.order /\ u.bucket = l.bucket /\ u.cursor = c
      /\ Kept(v, Q \ {r}) /\ v.order = o /\ v.bucket = l.bucket /\ v.cursor = c
  <2>1. Kept(u, Q \ {r}) /\ Kept(v, Q \ {r})
    BY <1>2, <1>4, TurnedKept
  <2>2. l \in Queues
    BY <1>2 DEF Kept
  <2>3. u.order = l.order /\ u.bucket = l.bucket /\ u.cursor = c
    BY <2>2 DEF Queues
  <2>4. v.order = o /\ v.bucket = l.bucket /\ v.cursor = c
    BY <2>2 DEF Queues
  <2> QED
    BY <1>2, <2>1, <2>3, <2>4
<1> HIDE DEF u, v
<1>7. ASSUME l.bucket[t] # << >> PROVE Sound(l, Q \ {r})
  BY <1>1, <1>2, <1>3, <1>5, <1>7 DEF Sound, Ring
<1>8. ASSUME l.bucket[t] # << >>, c < Len(q.order) PROVE Sound(u, Q \ {r})
  BY <1>1, <1>3, <1>5, <1>6, <1>8 DEF Sound, Ring
<1>9. ASSUME l.bucket[t] = << >>, c = 0 \/ c < Len(o) PROVE Sound(v, Q \ {r})
  BY <1>1, <1>4, <1>5, <1>6, <1>9 DEF Sound, Ring
<1> QED
  BY <1>1, <1>3, <1>4, <1>7, <1>8, <1>9 DEF l, o, u, v

LEMMA RemoveByIdSound ==
    ASSUME NEW q, NEW Q, Sound(q, Q), NEW r \in Q
    PROVE  Sound(RemoveById(q, r), Q \ {r})
<1> DEFINE t == Tenant[r]
           l == Left(q, r)
           o == Without(q.order, t)
           ti == (CHOOSE i \in DOMAIN q.order : q.order[i] = t) - 1
           c == IF o = << >> THEN 0
                ELSE IF ti < q.cursor THEN q.cursor - 1
                ELSE IF q.cursor >= Len(o) THEN 0 ELSE q.cursor
<1>1. /\ Kept(q, Q) /\ Ring(q) /\ q.order \in Seq(Tenants) /\ q.cursor \in Nat
  BY DEF Sound, Kept, Queues
<1>2. t \in RangeOf(q.order) /\ Len(q.order) \in Nat \ {0} /\ Len(o) = Len(q.order) - 1
  <2>1. 0 \in Nat
    OBVIOUS
  <2> QED
    BY <2>1, LeftTurned
<1>3. ti \in Nat
  <2>1. DOMAIN q.order = 1..Len(q.order)
    BY <1>1, LenProperties
  <2>2. \E i \in DOMAIN q.order : q.order[i] = t
    BY <1>2, <2>1 DEF RangeOf
  <2>3. (CHOOSE i \in DOMAIN q.order : q.order[i] = t) \in 1..Len(q.order)
    BY <2>1, <2>2
  <2> QED
    BY <2>3
<1>4. l.cursor = q.cursor
  BY <1>1, LeftKept
<1>5. RemoveById(q, r) = IF l.bucket[t] # << >> THEN l ELSE [l EXCEPT !.order = o, !.cursor = c]
  BY <1>4 DEF RemoveById
<1> HIDE DEF l, ti, o
<1>6. c \in Nat /\ (c = 0 \/ c < Len(o))
  BY <1>1, <1>2, <1>3 DEF Ring
<1> HIDE DEF c
<1>7. /\ l.bucket[t] # << >> => Sound(l, Q \ {r})
      /\ l.bucket[t] = << >> => Sound([l EXCEPT !.order = o, !.cursor = c], Q \ {r})
  BY <1>6, LeftTurned DEF l, o
<1> QED
  BY <1>5, <1>7

LEMMA TakeAtSound ==
    ASSUME NEW q, NEW Q, Sound(q, Q), NEW i \in Offsets(q)
    PROVE  Sound(TakeAt(q, IndexAt(q, i)), Q \ {HeadAt(q, i)})
<1> DEFINE n == IndexAt(q, i)
           r == HeadAt(q, i)
           t == q.order[n + 1]
           l == Left(q, r)
           o == Without(q.order, t)
           c == IF l.bucket[t] = << >> THEN IF o = << >> THEN 0 ELSE n % Len(o)
                ELSE (n + 1) % Len(q.order)
<1>1. /\ n \in Nat /\ n < Len(q.order) /\ r \in Q /\ Tenant[r] = t
      /\ r = Head(q.bucket[t])
  BY RingHead
<1>2. Len(q.order) \in Nat \ {0}
  BY RingIndex
<1>3. TakeAt(q, n) = IF l.bucket[t] = << >> THEN [l EXCEPT !.order = o, !.cursor = c]
                     ELSE [l EXCEPT !.cursor = c]
  BY <1>1 DEF TakeAt
<1>4. o \in Seq(Tenants) /\ Len(o) = Len(q.order) - 1
  <2>1. q.order \in Seq(Tenants) /\ NoDup(q.order)
    BY DEF Sound, Kept, Queues, Ring
  <2>2. n + 1 \in 1..Len(q.order)
    BY <1>1, <1>2
  <2> HIDE DEF n
  <2> QED
    BY <2>1, <2>2, WithoutAt
<1> HIDE DEF l, o, n, t, r
<1>5. /\ c \in Nat
      /\ l.bucket[t] = << >> => c = 0 \/ c < Len(o)
      /\ l.bucket[t] # << >> => c < Len(q.order)
  <2>1. CASE l.bucket[t] # << >>
    BY <1>1, <1>2, <2>1
  <2>2. CASE l.bucket[t] = << >> /\ o = << >>
    BY <2>2
  <2>3. CASE l.bucket[t] = << >> /\ o # << >>
    <3>1. Len(o) \in Nat \ {0}
      BY <1>4, <2>3, LenProperties, EmptySeq
    <3>2. c = n % Len(o)
      BY <2>3
    <3> QED
      BY <1>1, <2>3, <3>1, <3>2
  <2> QED
    BY <2>1, <2>2, <2>3
<1> HIDE DEF c
<1>6. /\ l.bucket[t] # << >> => Sound([l EXCEPT !.cursor = c], Q \ {r})
      /\ l.bucket[t] = << >> => Sound([l EXCEPT !.order = o, !.cursor = c], Q \ {r})
  BY <1>1, <1>5, LeftTurned DEF l, o
<1> QED
  BY <1>3, <1>6 DEF n, r

LEMMA DequeueSound ==
    ASSUME NEW q, NEW Q, Sound(q, Q), NEW i \in Offsets(q)
    PROVE  Sound(Dequeue(q, i), Q \ {HeadAt(q, i)})
<1> DEFINE passed == IF Reserved(q) # {} THEN {}
                     ELSE {HeadAt(q, j) : j \in {k \in Offsets(q) : k < i}}
           sk == [r \in Reqs |-> q.skips[r] + IF r \in passed THEN 1 ELSE 0]
           aged == [q EXCEPT !.skips = sk]
<1>1. q \in Queues /\ Ring(q) /\ q.skips \in [Reqs -> Nat] /\ Q \subseteq Reqs
  BY DEF Sound, Kept, Queues
<1>2. Dequeue(q, i) = TakeAt(aged, IndexAt(q, i))
  BY DEF Dequeue
<1>3. ASSUME NEW r \in Reqs, r \in passed
      PROVE  /\ q.skips[r] < MaxSkips
             /\ q.bucket[Tenant[r]] # << >> /\ r = Head(q.bucket[Tenant[r]])
  <2>1. PICK j \in Offsets(q) : r = HeadAt(q, j) /\ Reserved(q) = {}
    BY <1>3
  <2>2. q.skips[r] < MaxSkips
    BY <1>1, <2>1, QueueAssumption DEF Reserved
  <2>3. q.bucket[Tenant[r]] # << >> /\ r = Head(q.bucket[Tenant[r]])
    BY <2>1, RingHead
  <2> QED
    BY <2>2, <2>3
<1> HIDE DEF passed
<1>4. sk \in [Reqs -> Nat]
  BY <1>1
<1>5. /\ aged \in Queues /\ aged.order = q.order /\ aged.bucket = q.bucket /\ aged.cursor = q.cursor
      /\ aged.count = q.count /\ aged.cost = q.cost /\ aged.skips = sk
  BY <1>1, <1>4 DEF Queues
<1>6. Passed(aged)
  <2> SUFFICES ASSUME NEW r \in Reqs
               PROVE  /\ sk[r] <= MaxSkips
                      /\ sk[r] > 0 => q.bucket[Tenant[r]] # << >> /\ r = Head(q.bucket[Tenant[r]])
    BY <1>5 DEF Passed
  <2>1. /\ q.skips[r] <= MaxSkips
        /\ q.skips[r] > 0 => q.bucket[Tenant[r]] # << >> /\ r = Head(q.bucket[Tenant[r]])
    BY DEF Sound, Kept, Passed
  <2> QED
    BY <1>1, <1>3, <2>1, QueueAssumption
<1> HIDE DEF sk, aged
<1>7. Sound(aged, Q)
  BY <1>1, <1>5, <1>6 DEF Sound, Kept, Lined, Totals, Ring
<1>8. /\ i \in Offsets(aged) /\ IndexAt(aged, i) = IndexAt(q, i)
      /\ HeadAt(aged, i) = HeadAt(q, i)
  BY <1>5 DEF Offsets, IndexAt, HeadAt
<1> QED
  BY <1>2, <1>7, <1>8, TakeAtSound

LEMMA NewestNat ==
    ASSUME NEW q \in Queues, NEW r \in Reqs
    PROVE  Newest(q) \in Nat
<1> DEFINE T == {q.age[x] : x \in Reqs}
<1>1. q.age \in [Reqs -> Nat]
  BY DEF Queues
<1>2. q.age \in Surjection(Reqs, T)
  BY <1>1 DEF Surjection
<1>3. IsFiniteSet(T)
  BY <1>2, QueueAssumption, FS_Surjection
<1>4. T \in SUBSET Nat /\ T # {}
  BY <1>1
<1>5. \E m \in T : \A k \in T : k <= m
  <2> HIDE DEF T
  <2> QED
    BY <1>3, <1>4, GreatestNat
<1>6. \E m \in T : \A x \in Reqs : q.age[x] <= m
  BY <1>5
<1>7. Newest(q) \in T
  BY <1>6 DEF Newest
<1> QED
  BY <1>4, <1>7

(* Offset i has the oldest head of S, the first one of its millisecond.    *)
First(q, S, i) ==
    /\ i \in S
    /\ \A j \in S : \/ q.age[HeadAt(q, i)] < q.age[HeadAt(q, j)]
                    \/ q.age[HeadAt(q, i)] = q.age[HeadAt(q, j)] /\ i <= j

LEMMA OldestFirst ==
    ASSUME NEW q, NEW S \in SUBSET Nat, S # {}, \A i \in S : q.age[HeadAt(q, i)] \in Nat
    PROVE  First(q, S, Oldest(q, S)) /\ \A i : First(q, S, i) => i = Oldest(q, S)
<1> DEFINE age(i) == q.age[HeadAt(q, i)]
           T == {age(i) : i \in S}
<1>1. Oldest(q, S) = CHOOSE i \in S : \A j \in S : age(i) < age(j) \/ (age(i) = age(j) /\ i <= j)
  BY DEF Oldest
<1>2. \A i : First(q, S, i) <=> i \in S /\ \A j \in S : age(i) < age(j) \/ (age(i) = age(j) /\ i <= j)
  BY DEF First
<1>3. \A i \in S : age(i) \in Nat
  OBVIOUS
<1> HIDE DEF age
<1>4. T \in SUBSET Nat /\ T # {}
  BY <1>3
<1>5. PICK a \in T : \A b \in T : a <= b
  <2> HIDE DEF T
  <2> QED
    BY <1>4, LeastNat
<1> DEFINE U == {i \in S : age(i) = a}
<1>6. U \in SUBSET Nat /\ U # {}
  BY <1>5
<1>7. PICK i \in U : \A j \in U : i <= j
  <2> HIDE DEF U
  <2> QED
    BY <1>6, LeastNat
<1>8. ASSUME NEW j \in S PROVE age(i) < age(j) \/ (age(i) = age(j) /\ i <= j)
  <2>1. age(i) = a /\ a <= age(j) /\ a \in Nat /\ age(j) \in Nat
    BY <1>3, <1>4, <1>5, <1>7
  <2> QED
    BY <1>7, <2>1
<1>9. First(q, S, i)
  BY <1>2, <1>7, <1>8
<1>10. First(q, S, Oldest(q, S))
  BY <1>1, <1>2, <1>9
<1>11. ASSUME NEW j, First(q, S, j) PROVE j = Oldest(q, S)
  <2> DEFINE k == Oldest(q, S)
  <2>1. /\ j \in S /\ k \in S /\ j \in Nat /\ k \in Nat /\ age(j) \in Nat /\ age(k) \in Nat
        /\ age(j) < age(k) \/ (age(j) = age(k) /\ j <= k)
        /\ age(k) < age(j) \/ (age(k) = age(j) /\ k <= j)
    BY <1>2, <1>3, <1>10, <1>11
  <2> HIDE DEF k
  <2> QED
    BY <2>1 DEF k
<1> QED
  BY <1>10, <1>11

(* The head with the first claim, if heads reserve capacity.               *)
Claim(q) == HeadAt(q, Oldest(q, Reserved(q)))

LEMMA ClaimQueued ==
    ASSUME NEW q, NEW Q, Sound(q, Q), Reserved(q) # {}
    PROVE  /\ First(q, Reserved(q), Oldest(q, Reserved(q)))
           /\ \A i : First(q, Reserved(q), i) => i = Oldest(q, Reserved(q))
           /\ Oldest(q, Reserved(q)) \in Offsets(q) /\ Claim(q) \in Q /\ Claim(q) \in Reqs
<1> DEFINE S == Reserved(q)
<1>1. ASSUME NEW i \in S PROVE i \in Offsets(q) /\ i \in Nat /\ HeadAt(q, i) \in Reqs
  <2>1. i \in Offsets(q)
    BY DEF Reserved
  <2> QED
    BY <2>1, RingHead, RingIndex
<1>2. q.age \in [Reqs -> Nat]
  BY DEF Sound, Kept, Queues
<1> HIDE DEF S
<1>3. S \in SUBSET Nat /\ S # {} /\ \A i \in S : q.age[HeadAt(q, i)] \in Nat
  BY <1>1, <1>2 DEF S
<1>4. First(q, S, Oldest(q, S)) /\ \A i : First(q, S, i) => i = Oldest(q, S)
  BY <1>3, OldestFirst
<1>5. Oldest(q, S) \in Offsets(q)
  BY <1>1, <1>4 DEF First
<1>6. Claim(q) \in Q /\ Claim(q) \in Reqs
  BY <1>5, RingHead DEF Claim, S
<1> QED
  BY <1>4, <1>5, <1>6 DEF S

(* The request r is enqueued.                                              *)
LEMMA EnqueuedSound ==
    ASSUME NEW q, NEW Q, Sound(q, Q), NEW r \in Reqs, r \notin Q, NEW sameMs \in BOOLEAN
    PROVE  LET e == Enqueued(q, r, sameMs)
               t == Tenant[r]
           IN  /\ Sound(e, Q \cup {r})
               /\ e.order = IF q.bucket[t] = << >> THEN Append(q.order, t) ELSE q.order
               /\ e.bucket[t] = Append(q.bucket[t], r)
               /\ e.skips = q.skips /\ e.cursor = q.cursor
               /\ \A x \in Reqs \ {r} : e.age[x] = q.age[x]
               /\ q.skips[r] = 0
<1> DEFINE t == Tenant[r]
           e == Enqueued(q, r, sameMs)
           o == IF q.bucket[t] = << >> THEN Append(q.order, t) ELSE q.order
           a == IF sameMs /\ Newest(q) > 0 THEN Newest(q) ELSE Newest(q) + 1
<1>1. /\ q \in Queues /\ Q \subseteq Reqs /\ Kept(q, Q) /\ Ring(q)
      /\ q.order \in Seq(Tenants) /\ t \in Tenants /\ q.bucket \in [Tenants -> Seq(Reqs)]
      /\ q.skips \in [Reqs -> Nat] /\ q.cursor \in Nat /\ q.age \in [Reqs -> Nat]
      /\ q.count \in Nat /\ q.cost \in Nat /\ Cost[r] \in Nat
  BY QueueAssumption DEF Sound, Kept, Queues
<1>2. a \in Nat
  <2>1. Newest(q) \in Nat
    BY <1>1, NewestNat
  <2> QED
    BY <2>1
<1>3. /\ q.bucket[t] \in Seq(Reqs) /\ NoDup(q.bucket[t])
      /\ RangeOf(q.bucket[t]) = {x \in Q : Tenant[x] = t}
  BY <1>1 DEF Kept, Lined
<1>4. /\ Append(q.bucket[t], r) \in Seq(Reqs) /\ NoDup(Append(q.bucket[t], r))
      /\ RangeOf(Append(q.bucket[t], r)) = RangeOf(q.bucket[t]) \cup {r}
  BY <1>3, AppendQueue
<1>5. /\ o \in Seq(Tenants) /\ NoDup(o) /\ RangeOf(o) = RangeOf(q.order) \cup {t}
      /\ q.cursor = 0 \/ q.cursor < Len(o)
  <2>1. CASE q.bucket[t] # << >>
    BY <1>1, <2>1 DEF Ring
  <2>2. CASE q.bucket[t] = << >>
    <3>1. t \notin RangeOf(q.order) /\ NoDup(q.order)
      BY <1>1, <2>2 DEF Ring
    <3>2. /\ Append(q.order, t) \in Seq(Tenants) /\ NoDup(Append(q.order, t))
          /\ RangeOf(Append(q.order, t)) = RangeOf(q.order) \cup {t}
      BY <1>1, <3>1, AppendQueue
    <3>3. Len(Append(q.order, t)) = Len(q.order) + 1 /\ Len(q.order) \in Nat
      BY <1>1, AppendProperties, LenProperties
    <3> QED
      BY <1>1, <2>2, <3>2, <3>3 DEF Ring
  <2> QED
    BY <2>1, <2>2
<1>6. /\ e.order = o /\ e.cursor = q.cursor /\ e.skips = q.skips
      /\ e.bucket = [q.bucket EXCEPT ![t] = Append(@, r)]
      /\ e.age = [q.age EXCEPT ![r] = a]
      /\ e.count = q.count + 1 /\ e.cost = q.cost + Cost[r]
  BY <1>1 DEF Enqueued, Queues
<1>7. e \in Queues
  <2> HIDE DEF o, a
  <2>1. e = [q EXCEPT !.order = o, !.bucket[t] = Append(@, r), !.age[r] = a,
                      !.count = @ + 1, !.cost = @ + Cost[r]]
    BY DEF Enqueued, o, a
  <2> HIDE DEF e
  <2>2. q.count + 1 \in Nat /\ q.cost + Cost[r] \in Nat
    BY <1>1
  <2> HIDE DEF t
  <2> QED
    BY <1>1, <1>2, <1>4, <1>5, <2>1, <2>2 DEF Queues
<1> HIDE DEF e, o, a
<1>8. q.skips[r] = 0
  <2>1. CASE q.bucket[t] = << >>
    BY <1>1, <2>1 DEF Kept, Passed
  <2>2. CASE q.bucket[t] # << >>
    <3>1. Head(q.bucket[t]) \in Q
      BY <1>1, <2>2, HeadOfBucket
    <3>2. q.skips[r] > 0 => r = Head(q.bucket[t])
      BY <1>1 DEF Kept, Passed
    <3> QED
      BY <1>1, <3>1, <3>2
  <2> QED
    BY <2>1, <2>2
<1>9. Totals(e, Q \cup {r})
  <2>1. IsFiniteSet(Q)
    BY <1>1, FS_Subset, QueueAssumption
  <2>2. Cardinality(Q \cup {r}) = Cardinality(Q) + 1
    BY <2>1, FS_AddElement
  <2>3. CostOf(Q \cup {r}) = CostOf(Q) + Cost[r]
    BY <1>1, CostAdded
  <2> QED
    BY <1>1, <1>6, <2>2, <2>3 DEF Totals, Kept
<1>10. ASSUME NEW x \in Tenants
       PROVE  e.bucket[x] = IF x = t THEN Append(q.bucket[t], r) ELSE q.bucket[x]
  BY <1>1, <1>6
<1>11. Lined(e, Q \cup {r})
  <2> SUFFICES ASSUME NEW x \in Tenants
               PROVE  /\ NoDup(e.bucket[x])
                      /\ RangeOf(e.bucket[x]) = {y \in Q \cup {r} : Tenant[y] = x}
    BY DEF Lined
  <2>1. NoDup(q.bucket[x]) /\ RangeOf(q.bucket[x]) = {y \in Q : Tenant[y] = x}
    BY <1>1 DEF Kept, Lined
  <2>2. CASE x = t
    BY <1>3, <1>4, <1>10, <2>2
  <2>3. CASE x # t
    BY <1>10, <2>1, <2>3
  <2> QED
    BY <2>2, <2>3
<1>12. Append(q.bucket[t], r) # << >>
  BY <1>3, AppendHead
<1>13. Passed(e)
  <2> SUFFICES ASSUME NEW x \in Reqs
               PROVE  /\ q.skips[x] <= MaxSkips
                      /\ q.skips[x] > 0 => /\ e.bucket[Tenant[x]] # << >>
                                           /\ x = Head(e.bucket[Tenant[x]])
    BY <1>6 DEF Passed
  <2>1. /\ q.skips[x] <= MaxSkips
        /\ q.skips[x] > 0 => q.bucket[Tenant[x]] # << >> /\ x = Head(q.bucket[Tenant[x]])
    BY <1>1 DEF Kept, Passed
  <2>2. q.bucket[t] # << >> => Head(Append(q.bucket[t], r)) = Head(q.bucket[t])
    BY <1>3, AppendHead
  <2>3. Tenant[x] \in Tenants
    BY QueueAssumption
  <2> QED
    BY <1>10, <1>12, <2>1, <2>2, <2>3
<1>14. Ring(e)
  BY <1>1, <1>5, <1>6, <1>10, <1>12 DEF Ring
<1>15. Sound(e, Q \cup {r})
  BY <1>1, <1>7, <1>9, <1>11, <1>13, <1>14 DEF Sound, Kept
<1>16. \A x \in Reqs \ {r} : e.age[x] = q.age[x]
  BY <1>1, <1>6
<1> QED
  BY <1>1, <1>6, <1>8, <1>10, <1>15, <1>16 DEF e, o

-----------------------------------------------------------------------------
(* Dispatch, round by round.                                               *)

States == {"idle", "queued", "active", "uncounted", "foreign"}
Books == [queue : Queues, cost : Nat, pc : [Reqs -> States]]
In(pcs, state) == {r \in Reqs : pcs[r] = state}

Balanced(s) == Sound(s.queue, In(s.pc, "queued")) /\ s.cost = CostOf(In(s.pc, "active"))

(* Nothing more is taken from the queue.                                   *)
Stable(s, lim) == s.cost >= lim \/ Dequeued(s.queue, lim - s.cost) = {}

(* One entry is taken: r, at offset i, is admitted or found late.          *)
TakenAt(s, u, lim, i, r) ==
    /\ u = [queue |-> u.queue, cost |-> u.cost, pc |-> u.pc]
    /\ s.cost < lim /\ i \in Offsets(s.queue) /\ i \in Dequeued(s.queue, lim - s.cost)
    /\ r = HeadAt(s.queue, i) /\ s.pc[r] = "queued"
    /\ u.queue = Dequeue(s.queue, i)
    /\ \/ u.pc = [s.pc EXCEPT ![r] = "idle"] /\ u.cost = s.cost
       \/ u.pc = [s.pc EXCEPT ![r] = "active"] /\ u.cost = s.cost + Cost[r] /\ u.cost <= lim

LEMMA OneRound ==
    ASSUME NEW s \in Books, Balanced(s), NEW lim \in Nat, NEW u \in Round(s, lim)
    PROVE  \/ u = s /\ Stable(s, lim)
           \/ \E i \in Nat, r \in Reqs : TakenAt(s, u, lim, i, r)
<1> DEFINE next == IF s.cost >= lim THEN {} ELSE Dequeued(s.queue, lim - s.cost)
           taken(r, i) ==
              LET rejected == mode = "enforce" /\ r \in late
              IN  [queue |-> Dequeue(s.queue, i),
                   cost |-> IF rejected THEN s.cost ELSE s.cost + Cost[r],
                   pc |-> [s.pc EXCEPT ![r] = IF rejected THEN "idle" ELSE "active"]]
<1>1. Round(s, lim) = IF next = {} THEN {s} ELSE {taken(HeadAt(s.queue, i), i) : i \in next}
  BY DEF Round
<1>2. CASE next = {}
  BY <1>1, <1>2 DEF Stable
<1>3. CASE next # {}
  <2>1. s.cost < lim /\ s.cost \in Nat /\ next = Dequeued(s.queue, lim - s.cost)
    BY <1>3 DEF Books
  <2>2. PICK i \in next : u = taken(HeadAt(s.queue, i), i)
    BY <1>1, <1>3
  <2> DEFINE r == HeadAt(s.queue, i)
             rejected == mode = "enforce" /\ r \in late
  <2>3. i \in Fitting(s.queue, lim - s.cost)
    BY <2>1 DEF Dequeued
  <2>4. i \in Offsets(s.queue) /\ Cost[r] <= lim - s.cost
    BY <2>3 DEF Fitting
  <2>5. r \in Reqs /\ r \in In(s.pc, "queued") /\ i \in Nat
    BY <2>4, RingHead, RingIndex DEF Balanced
  <2>6. s.pc[r] = "queued" /\ Cost[r] \in Nat
    BY <2>5, QueueAssumption DEF In
  <2>7. /\ u.queue = Dequeue(s.queue, i)
        /\ u.cost = IF rejected THEN s.cost ELSE s.cost + Cost[r]
        /\ u.pc = [s.pc EXCEPT ![r] = IF rejected THEN "idle" ELSE "active"]
        /\ u = [queue |-> u.queue, cost |-> u.cost, pc |-> u.pc]
    BY <2>2
  <2> HIDE DEF r, next
  <2>8. s.cost + Cost[r] <= lim
    BY <2>1, <2>4, <2>6
  <2>9. TakenAt(s, u, lim, i, r)
    <3>1. CASE rejected
      BY <3>1, <2>1, <2>4, <2>6, <2>7 DEF TakenAt, r
    <3>2. CASE ~rejected
      BY <3>2, <2>1, <2>4, <2>6, <2>7, <2>8 DEF TakenAt, r
    <3> QED
      BY <3>1, <3>2
  <2> QED
    BY <2>5, <2>9
<1> QED
  BY <1>2, <1>3

(* An entry taken leaves balanced books with one entry less.               *)
LEMMA TakenBalanced ==
    ASSUME NEW s \in Books, Balanced(s), NEW lim \in Nat, NEW u, NEW i, NEW r,
           TakenAt(s, u, lim, i, r)
    PROVE  u \in Books /\ Balanced(u) /\ r \in Reqs /\ u.queue.count = s.queue.count - 1
<1> DEFINE Q == In(s.pc, "queued")
           A == In(s.pc, "active")
<1>1. /\ s.pc \in [Reqs -> States] /\ s.cost \in Nat /\ Sound(s.queue, Q) /\ s.cost = CostOf(A)
  BY DEF Books, Balanced
<1>2. /\ i \in Offsets(s.queue) /\ r = HeadAt(s.queue, i) /\ u.queue = Dequeue(s.queue, i)
      /\ s.pc[r] = "queued" /\ u = [queue |-> u.queue, cost |-> u.cost, pc |-> u.pc]
  BY DEF TakenAt
<1>3. r \in Reqs /\ r \in Q /\ r \notin A /\ Q \subseteq Reqs /\ A \in SUBSET Reqs
  BY <1>1, <1>2, RingHead DEF In
<1>4. Sound(u.queue, Q \ {r})
  BY <1>1, <1>2, DequeueSound
<1>5. u.queue \in Queues /\ u.queue.count = Cardinality(Q \ {r}) /\ s.queue.count = Cardinality(Q)
  BY <1>1, <1>4 DEF Sound, Kept, Totals
<1>6. u.queue.count = s.queue.count - 1
  <2>1. IsFiniteSet(Q)
    BY <1>3, FS_Subset, QueueAssumption
  <2>2. Cardinality(Q \ {r}) = Cardinality(Q) - 1
    BY <1>3, <2>1, FS_RemoveElement
  <2> QED
    BY <1>5, <2>2
<1>7. Cost[r] \in Nat
  BY <1>3, QueueAssumption
<1>8. CASE u.pc = [s.pc EXCEPT ![r] = "idle"] /\ u.cost = s.cost
  <2>1. u.pc \in [Reqs -> States] /\ In(u.pc, "queued") = Q \ {r} /\ In(u.pc, "active") = A
    BY <1>1, <1>3, <1>8 DEF In, States
  <2> QED
    BY <1>1, <1>2, <1>3, <1>4, <1>5, <1>6, <1>8, <2>1 DEF Books, Balanced
<1>9. CASE u.pc = [s.pc EXCEPT ![r] = "active"] /\ u.cost = s.cost + Cost[r]
  <2>1. /\ u.pc \in [Reqs -> States] /\ In(u.pc, "queued") = Q \ {r}
        /\ In(u.pc, "active") = A \cup {r}
    BY <1>1, <1>3, <1>9 DEF In, States
  <2>2. CostOf(A \cup {r}) = CostOf(A) + Cost[r]
    BY <1>3, CostAdded
  <2>3. u.cost \in Nat
    BY <1>1, <1>7, <1>9
  <2> QED
    BY <1>1, <1>2, <1>3, <1>4, <1>5, <1>6, <1>9, <2>1, <2>2, <2>3 DEF Books, Balanced
<1> QED
  BY <1>8, <1>9 DEF TakenAt

(* The loop's recursive definition defines a function.                     *)
LEMMA RoundsDef ==
    ASSUME NEW s, NEW lim
    PROVE  /\ Cardinality(Reqs) \in Nat
           /\ Rounds(s, lim)[0] = {s}
           /\ \A n \in 0..(Cardinality(Reqs) - 1) :
                 Rounds(s, lim)[n + 1] = UNION {Round(u, lim) : u \in Rounds(s, lim)[n]}
<1> DEFINE N == Cardinality(Reqs)
           After(X) == UNION {Round(u, lim) : u \in X}
           Def(f, k) == f = [n \in 0..k |-> IF n = 0 THEN {s} ELSE After(f[n - 1])]
           S == {k \in Nat : \E f : Def(f, k)}
<1>1. N \in Nat
  BY FS_CardinalityType, QueueAssumption
<1>2. Rounds(s, lim) = CHOOSE f : Def(f, N)
  BY DEF Rounds
<1> HIDE DEF After, N
<1>3. 0 \in S
  <2> DEFINE f == [n \in 0..0 |-> {s}]
  <2>1. Def(f, 0)
    OBVIOUS
  <2> HIDE DEF Def
  <2> QED
    BY <2>1
<1>4. ASSUME NEW k \in 0..(N - 1), k \in S PROVE k + 1 \in S
  <2>1. PICK f : Def(f, k)
    BY <1>4
  <2> DEFINE g == [n \in 0..(k + 1) |-> IF n = k + 1 THEN After(f[k]) ELSE f[n]]
  <2>2. k \in Nat /\ k + 1 \in Nat
    BY <1>1
  <2>3. ASSUME NEW n \in 0..(k + 1)
        PROVE  g[n] = IF n = 0 THEN {s} ELSE After(g[n - 1])
    <3>1. CASE n = k + 1
      <4>1. g[n] = After(f[k]) /\ n - 1 = k /\ k \in 0..(k + 1) /\ k # k + 1 /\ n # 0
        BY <2>2, <3>1
      <4>2. g[n - 1] = f[k]
        BY <4>1
      <4> QED
        BY <4>1, <4>2
    <3>2. CASE n # k + 1
      <4>1. n \in 0..k /\ g[n] = f[n]
        BY <2>2, <3>2
      <4>2. f[n] = IF n = 0 THEN {s} ELSE After(f[n - 1])
        BY <2>1, <4>1
      <4>3. n # 0 => n - 1 \in 0..(k + 1) /\ n - 1 # k + 1
        BY <2>2, <4>1
      <4>4. n # 0 => g[n - 1] = f[n - 1]
        BY <4>3
      <4> QED
        BY <4>1, <4>2, <4>4
    <3> QED
      BY <3>1, <3>2
  <2>4. Def(g, k + 1)
    <3>1. g = [n \in 0..(k + 1) |-> g[n]]
      OBVIOUS
    <3> HIDE DEF g
    <3> QED
      BY <2>3, <3>1
  <2> HIDE DEF Def, g
  <2> QED
    BY <2>2, <2>4
<1>5. N \in S
  <2> HIDE DEF S
  <2>1. \A k \in 0..N : k \in S
    BY <1>1, <1>3, <1>4, CountUp
  <2> QED
    BY <1>1, <2>1
<1>6. Def(Rounds(s, lim), N)
  <2> HIDE DEF Def
  <2> QED
    BY <1>2, <1>5
<1> DEFINE R == Rounds(s, lim)
<1> HIDE DEF R
<1>7. R = [n \in 0..N |-> IF n = 0 THEN {s} ELSE After(R[n - 1])]
  BY <1>6 DEF R
<1>8. R[0] = {s}
  BY <1>1, <1>7
<1>9. ASSUME NEW n \in 0..(N - 1) PROVE R[n + 1] = After(R[n])
  <2>1. n + 1 \in 0..N /\ n + 1 # 0 /\ (n + 1) - 1 = n
    BY <1>1
  <2> QED
    BY <1>7, <2>1
<1> QED
  BY <1>1, <1>8, <1>9 DEF R, After, N

(* What the rounds may have made of the books s.                           *)
Dispatched(s, u, lim) ==
    /\ In(u.pc, "active") \subseteq In(s.pc, "active") \/ u.cost <= lim
    /\ \A r \in Reqs : \/ u.pc[r] = s.pc[r]
                       \/ s.pc[r] = "queued" /\ u.pc[r] \in {"active", "idle"}
    /\ Reserved(s.queue) # {} =>
          u = s \/ u.pc[Claim(s.queue)] # "queued"

LEMMA TakenDispatched ==
    ASSUME NEW s \in Books, Balanced(s), NEW t \in Books, Balanced(t), NEW lim \in Nat, NEW u \in Books,
           NEW i, NEW r \in Reqs, TakenAt(t, u, lim, i, r), Dispatched(s, t, lim)
    PROVE  Dispatched(s, u, lim)
<1>1. /\ t.pc[r] = "queued" /\ t.pc \in [Reqs -> States]
      /\ \/ u.pc = [t.pc EXCEPT ![r] = "idle"] /\ u.cost = t.cost
         \/ u.pc = [t.pc EXCEPT ![r] = "active"] /\ u.cost <= lim
  BY DEF TakenAt, Books
<1>2. In(u.pc, "active") \subseteq In(s.pc, "active") \/ u.cost <= lim
  BY <1>1 DEF Dispatched, In
<1>3. ASSUME NEW x \in Reqs
      PROVE  u.pc[x] = s.pc[x] \/ (s.pc[x] = "queued" /\ u.pc[x] \in {"active", "idle"})
  BY <1>1 DEF Dispatched
<1>4. ASSUME Reserved(s.queue) # {}
      PROVE  u.pc[Claim(s.queue)] # "queued"
  <2> DEFINE h == Claim(s.queue)
  <2>0. h \in Reqs
    BY <1>4, ClaimQueued DEF Balanced
  <2>1. CASE t = s
    <3>1. i \in Dequeued(s.queue, lim - s.cost) /\ r = HeadAt(s.queue, i)
      BY <2>1 DEF TakenAt
    <3>2. i = Oldest(s.queue, Reserved(s.queue))
      BY <1>4, <3>1 DEF Dequeued
    <3>3. r = h
      BY <3>1, <3>2 DEF Claim
    <3> HIDE DEF h
    <3> QED
      BY <1>1, <3>3 DEF h
  <2>2. CASE t.pc[h] # "queued"
    <3> HIDE DEF h
    <3>1. r # h
      BY <1>1, <2>2
    <3>2. u.pc[h] = t.pc[h]
      BY <1>1, <2>0, <3>1
    <3> QED
      BY <2>2, <3>2 DEF h
  <2> QED
    BY <1>4, <2>1, <2>2 DEF Dispatched
<1> QED
  BY <1>2, <1>3, <1>4 DEF Dispatched

LEMMA NobodyQueued ==
    ASSUME NEW q, NEW Q, Sound(q, Q), q.count = 0, NEW available
    PROVE  Q = {} /\ Offsets(q) = {} /\ Reserved(q) = {} /\ Dequeued(q, available) = {}
<1>1. Q = {}
  <2>1. IsFiniteSet(Q) /\ Cardinality(Q) = 0
    BY FS_Subset, QueueAssumption DEF Sound, Kept, Totals
  <2> QED
    BY <2>1, FS_EmptySet
<1>2. Offsets(q) = {}
  <2> SUFFICES ASSUME NEW i \in Offsets(q) PROVE FALSE
    OBVIOUS
  <2> QED
    BY <1>1, RingHead
<1> QED
  BY <1>1, <1>2 DEF Reserved, Dequeued, Fitting

(* Dispatch leaves balanced books from which nothing more is taken.        *)
LEMMA DispatchBooks ==
    ASSUME NEW q, NEW c, NEW pcs, NEW lim \in Nat, Dispatch(q, c, pcs, lim),
           [queue |-> q, cost |-> c, pc |-> pcs] \in Books,
           Balanced([queue |-> q, cost |-> c, pc |-> pcs])
    PROVE  \E u \in Books : /\ Balanced(u) /\ Stable(u, lim) /\ Become(u)
                            /\ Dispatched([queue |-> q, cost |-> c, pc |-> pcs], u, lim)
<1> DEFINE s == [queue |-> q, cost |-> c, pc |-> pcs]
           N == Cardinality(Reqs)
           R == Rounds(s, lim)
           Good(u, n) == /\ u \in Books /\ Balanced(u) /\ Dispatched(s, u, lim)
                         /\ Stable(u, lim) \/ u.queue.count + n <= N
           S == {n \in Nat : \A u \in R[n] : Good(u, n)}
<1>1. s \in Books /\ Balanced(s)
  OBVIOUS
<1>2. PICK u \in R[N] : Become(u)
  BY DEF Dispatch
<1> HIDE DEF s
<1>3. /\ N \in Nat /\ R[0] = {s}
      /\ \A n \in 0..(N - 1) : R[n + 1] = UNION {Round(t, lim) : t \in R[n]}
  BY RoundsDef
<1> HIDE DEF R
<1>4. ASSUME NEW t \in Books, Balanced(t)
      PROVE  t.queue.count \in Nat /\ t.queue.count <= N
  <2> DEFINE Q == In(t.pc, "queued")
  <2>1. t.queue.count = Cardinality(Q) /\ Q \in SUBSET Reqs /\ t.queue.count \in Nat
    BY <1>4 DEF Balanced, Sound, Kept, Totals, In, Queues
  <2>2. Cardinality(Q) <= N
    BY <2>1, FS_Subset, QueueAssumption
  <2> QED
    BY <2>1, <2>2
<1> HIDE DEF N
<1>5. 0 \in S
  <2>1. Dispatched(s, s, lim)
    BY DEF Dispatched
  <2>2. s.queue.count + 0 <= N
    BY <1>1, <1>4
  <2> QED
    BY <1>1, <1>3, <2>1, <2>2
<1>6. ASSUME NEW n \in 0..(N - 1), n \in S PROVE n + 1 \in S
  <2>1. n \in Nat /\ n + 1 \in Nat
    BY <1>3
  <2> SUFFICES ASSUME NEW v \in R[n + 1] PROVE Good(v, n + 1)
    BY <2>1
  <2>2. PICK t \in R[n] : v \in Round(t, lim)
    BY <1>3
  <2>3. Good(t, n)
    BY <1>6, <2>2
  <2>4. t \in Books /\ Balanced(t) /\ Dispatched(s, t, lim) /\ t.queue.count \in Nat
    BY <1>4, <2>3
  <2>5. CASE v = t /\ Stable(t, lim)
    BY <2>4, <2>5
  <2>6. ASSUME NEW i \in Nat, NEW r \in Reqs, TakenAt(t, v, lim, i, r) PROVE Good(v, n + 1)
    <3>1. v \in Books /\ Balanced(v) /\ v.queue.count = t.queue.count - 1
      BY <2>4, <2>6, TakenBalanced
    <3>2. Dispatched(s, v, lim)
      BY <1>1, <2>4, <2>6, <3>1, TakenDispatched
    <3>3. ~Stable(t, lim)
      BY <2>4, <2>6 DEF TakenAt, Stable, Books
    <3>4. t.queue.count + n <= N
      BY <2>3, <3>3
    <3>5. v.queue.count + (n + 1) <= N
      BY <2>1, <2>4, <3>1, <3>4
    <3> QED
      BY <3>1, <3>2, <3>5
  <2> HIDE DEF Good
  <2> QED
    BY <2>2, <2>4, <2>5, <2>6, OneRound
<1>7. N \in S
  <2> HIDE DEF S
  <2>1. \A n \in 0..N : n \in S
    BY <1>3, <1>5, <1>6, CountUp
  <2> QED
    BY <1>3, <2>1
<1>8. Good(u, N)
  BY <1>2, <1>7
<1>9. Stable(u, lim)
  <2>1. CASE u.queue.count + N <= N
    <3>1. u.queue.count = 0
      BY <1>3, <1>4, <1>8, <2>1
    <3>2. Dequeued(u.queue, lim - u.cost) = {}
      BY <1>8, <3>1, NobodyQueued DEF Balanced
    <3> QED
      BY <3>2 DEF Stable
  <2> QED
    BY <1>8, <2>1
<1> QED
  BY <1>2, <1>8, <1>9 DEF s

-----------------------------------------------------------------------------
(* The first claim on capacity survives arrivals and departures of others. *)

TenantAt(q, i) == q.order[IndexAt(q, i) + 1]

(* Two queues that differ in the entry r: f tells where a tenant's offset  *)
(* has moved to.                                                           *)
LEMMA ClaimMoves ==
    ASSUME NEW q, NEW Q, Sound(q, Q), NEW p, NEW P, Sound(p, P), Reserved(q) # {},
           NEW r, r # Claim(q),
           NEW D, D \subseteq Offsets(q), NEW f \in [D -> Nat],
           \A i \in Offsets(q) : TenantAt(q, i) = Tenant[Claim(q)] => i \in D,
           \A i \in D : f[i] \in Offsets(p) /\ TenantAt(p, f[i]) = TenantAt(q, i),
           \A i, j \in D : i <= j => f[i] <= f[j],
           \A k \in Offsets(p) : HeadAt(p, k) = r \/ \E i \in D : f[i] = k,
           \A x \in Reqs \ {r} : p.skips[x] = q.skips[x],
           r \in Reqs => p.skips[r] = 0,
           \A x, y \in Reqs \ {r} : (q.age[x] < q.age[y]) <=> (p.age[x] < p.age[y])
    PROVE  Reserved(p) # {} /\ Claim(p) = Claim(q)
<1> DEFINE o == Oldest(q, Reserved(q))
           x0 == Claim(q)
<1>0. /\ q.skips \in [Reqs -> Nat] /\ p.skips \in [Reqs -> Nat] /\ MaxSkips \in Nat \ {0}
      /\ q.age \in [Reqs -> Nat] /\ p.age \in [Reqs -> Nat] /\ Passed(q) /\ Passed(p)
  BY QueueAssumption DEF Sound, Kept, Queues
<1>1. /\ First(q, Reserved(q), o) /\ o \in Offsets(q) /\ x0 \in Reqs /\ x0 = HeadAt(q, o)
  BY ClaimQueued DEF Claim
<1>2. o \in D
  BY <1>1, RingHead DEF TenantAt
<1>3. ASSUME NEW i \in D, i \in Reserved(q), HeadAt(q, i) # r
      PROVE  HeadAt(p, f[i]) = HeadAt(q, i) /\ f[i] \in Reserved(p) /\ HeadAt(q, i) \in Reqs \ {r}
  <2> DEFINE x == HeadAt(q, i)
  <2>1. i \in Offsets(q) /\ q.skips[x] >= MaxSkips
    BY <1>3 DEF Reserved
  <2>2. x \in Reqs /\ Tenant[x] = TenantAt(q, i)
    BY <2>1, RingHead DEF TenantAt
  <2> HIDE DEF x
  <2>3. p.skips[x] = q.skips[x] /\ p.skips[x] > 0 /\ p.skips[x] >= MaxSkips
    BY <1>0, <1>3, <2>1, <2>2 DEF x
  <2>4. x = Head(p.bucket[Tenant[x]])
    BY <1>0, <2>2, <2>3 DEF Passed
  <2>5. f[i] \in Offsets(p) /\ HeadAt(p, f[i]) = Head(p.bucket[TenantAt(p, f[i])])
    BY RingHead DEF TenantAt
  <2>6. HeadAt(p, f[i]) = x
    BY <2>2, <2>4, <2>5
  <2> QED
    BY <1>3, <2>2, <2>3, <2>5, <2>6 DEF Reserved, x
<1>4. ASSUME NEW k \in Reserved(p)
      PROVE  \E i \in D : f[i] = k /\ i \in Reserved(q) /\ HeadAt(q, i) # r
  <2> DEFINE x == HeadAt(p, k)
  <2>1. k \in Offsets(p) /\ p.skips[x] >= MaxSkips
    BY DEF Reserved
  <2>2. x \in Reqs /\ Tenant[x] = TenantAt(p, k)
    BY <2>1, RingHead DEF TenantAt
  <2>3. x # r
    <3> SUFFICES ASSUME x = r PROVE FALSE
      OBVIOUS
    <3> HIDE DEF x
    <3> QED
      BY <1>0, <2>1, <2>2
  <2>4. PICK i \in D : f[i] = k
    BY <2>1, <2>3
  <2> HIDE DEF x
  <2>5. q.skips[x] = p.skips[x] /\ q.skips[x] > 0 /\ q.skips[x] >= MaxSkips
    BY <1>0, <2>1, <2>2, <2>3
  <2>6. x = Head(q.bucket[Tenant[x]])
    BY <1>0, <2>2, <2>5 DEF Passed
  <2>7. i \in Offsets(q) /\ HeadAt(q, i) = Head(q.bucket[TenantAt(q, i)])
    BY RingHead DEF TenantAt
  <2>8. HeadAt(q, i) = x
    BY <2>2, <2>4, <2>6, <2>7
  <2> QED
    BY <2>3, <2>4, <2>5, <2>7, <2>8 DEF Reserved
<1>5. /\ HeadAt(p, f[o]) = x0 /\ f[o] \in Reserved(p) /\ o \in Reserved(q) /\ x0 \in Reqs \ {r}
  <2>1. o \in Reserved(q)
    BY <1>1 DEF First
  <2> QED
    BY <1>1, <1>2, <1>3, <2>1
<1>6. First(p, Reserved(p), f[o])
  <2> SUFFICES ASSUME NEW k \in Reserved(p)
               PROVE  \/ p.age[HeadAt(p, f[o])] < p.age[HeadAt(p, k)]
                      \/ p.age[HeadAt(p, f[o])] = p.age[HeadAt(p, k)] /\ f[o] <= k
    BY <1>5 DEF First
  <2>1. PICK i \in D : f[i] = k /\ i \in Reserved(q) /\ HeadAt(q, i) # r
    BY <1>4
  <2> DEFINE y == HeadAt(q, i)
  <2>2. HeadAt(p, k) = y /\ y \in Reqs \ {r}
    BY <1>3, <2>1
  <2>3. \/ q.age[x0] < q.age[y]
        \/ q.age[x0] = q.age[y] /\ o <= i
    BY <1>1, <2>1 DEF First
  <2> HIDE DEF y, x0, o
  <2>4. /\ (q.age[x0] < q.age[y]) <=> (p.age[x0] < p.age[y])
        /\ (q.age[y] < q.age[x0]) <=> (p.age[y] < p.age[x0])
    BY <1>5, <2>2
  <2>5. q.age[x0] \in Nat /\ q.age[y] \in Nat /\ p.age[x0] \in Nat /\ p.age[y] \in Nat
    BY <1>0, <1>5, <2>2
  <2>6. o <= i => f[o] <= k
    BY <1>2, <2>1
  <2>7. \/ p.age[x0] < p.age[y]
        \/ p.age[x0] = p.age[y] /\ f[o] <= k
    BY <2>3, <2>4, <2>5, <2>6
  <2> QED
    BY <1>5, <2>2, <2>7
<1>7. f[o] = Oldest(p, Reserved(p))
  BY <1>5, <1>6, ClaimQueued
<1> QED
  BY <1>5, <1>7 DEF Claim

(* Ages keep their order when an entry leaves.                             *)
LEMMA AgesKeepOrder ==
    ASSUME NEW age \in [Reqs -> Nat], NEW r \in Reqs, NEW x \in Reqs \ {r}, NEW y \in Reqs \ {r}
    PROVE  (age[x] < age[y]) <=> (AgesWithout(age, r)[x] < AgesWithout(age, r)[y])
<1> DEFINE alone == \A z \in Reqs \ {r} : age[z] # age[r]
<1>1. /\ AgesWithout(age, r)[x] = IF alone /\ age[x] > age[r] THEN age[x] - 1 ELSE age[x]
      /\ AgesWithout(age, r)[y] = IF alone /\ age[y] > age[r] THEN age[y] - 1 ELSE age[y]
  BY DEF AgesWithout
<1>2. alone => age[x] # age[r] /\ age[y] # age[r]
  OBVIOUS
<1>3. age[x] \in Nat /\ age[y] \in Nat /\ age[r] \in Nat
  OBVIOUS
<1> HIDE DEF alone
<1>4. CASE alone
  BY <1>1, <1>2, <1>3, <1>4
<1>5. CASE ~alone
  BY <1>1, <1>3, <1>5
<1> QED
  BY <1>4, <1>5

(* A new entry does not take the claim over.                               *)
LEMMA EnqueueClaim ==
    ASSUME NEW q, NEW Q, Sound(q, Q), NEW r \in Reqs, r \notin Q, NEW sameMs \in BOOLEAN,
           Reserved(q) # {}
    PROVE  /\ Reserved(Enqueued(q, r, sameMs)) # {}
           /\ Claim(Enqueued(q, r, sameMs)) = Claim(q)
<1> DEFINE e == Enqueued(q, r, sameMs)
           t == Tenant[r]
           n == Len(q.order)
           c == q.cursor
           new == q.bucket[t] = << >>
           D == Offsets(q)
           f == [i \in D |-> IF new /\ c + i >= n THEN i + 1 ELSE i]
<1>1. /\ Sound(e, Q \cup {r})
      /\ e.order = IF q.bucket[t] = << >> THEN Append(q.order, t) ELSE q.order
      /\ e.bucket[t] = Append(q.bucket[t], r)
      /\ e.skips = q.skips /\ e.cursor = q.cursor
      /\ \A x \in Reqs \ {r} : e.age[x] = q.age[x]
      /\ q.skips[r] = 0
  BY EnqueuedSound
<1> HIDE DEF e
<1>2. q.order \in Seq(Tenants) /\ n \in Nat /\ c \in Nat /\ t \in Tenants
  BY LenProperties, QueueAssumption DEF Sound, Kept, Queues
<1>3. r # Claim(q)
  BY ClaimQueued
<1>4. ASSUME NEW i \in D
      PROVE  /\ i \in Nat /\ i < n /\ c < n
             /\ IndexAt(q, i) = IF c + i < n THEN c + i ELSE c + i - n
  BY RingIndex
<1>5. ASSUME NEW k \in Offsets(e)
      PROVE  /\ k \in Nat /\ k < Len(e.order)
             /\ IndexAt(e, k) = IF c + k < Len(e.order) THEN c + k ELSE c + k - Len(e.order)
  BY <1>1, RingIndex
<1>6. /\ f \in [D -> Nat]
      /\ \A i, j \in D : i <= j => f[i] <= f[j]
  BY <1>2, <1>4
<1>9. /\ \A x \in Reqs \ {r} : e.skips[x] = q.skips[x]
      /\ r \in Reqs => e.skips[r] = 0
      /\ \A x, y \in Reqs \ {r} : (q.age[x] < q.age[y]) <=> (e.age[x] < e.age[y])
      /\ \A i \in Offsets(q) : TenantAt(q, i) = Tenant[Claim(q)] => i \in D
      /\ D \subseteq Offsets(q)
  BY <1>1
<1>7. CASE ~new
  <2>1. e.order = q.order
    BY <1>1, <1>7
  <2>2. \A i \in D : f[i] = i /\ i \in Offsets(e) /\ TenantAt(e, i) = TenantAt(q, i)
    BY <1>1, <1>7, <2>1 DEF Offsets, TenantAt, IndexAt
  <2>3. Offsets(e) = D
    BY <2>1 DEF Offsets
  <2> HIDE DEF f
  <2>4. \A i \in D : f[i] \in Offsets(e) /\ TenantAt(e, f[i]) = TenantAt(q, i)
    BY <2>2
  <2>5. \A k \in Offsets(e) : HeadAt(e, k) = r \/ \E i \in D : f[i] = k
    BY <2>2, <2>3
  <2> HIDE DEF D
  <2> QED
    BY <1>1, <1>3, <1>6, <1>9, <2>4, <2>5, ClaimMoves DEF e
<1>8. CASE new
  <2>1. /\ e.order = Append(q.order, t) /\ Len(e.order) = n + 1
        /\ \A m \in 1..n : e.order[m] = q.order[m]
        /\ e.order[n + 1] = t
    BY <1>1, <1>2, <1>8, AppendProperties
  <2>2. ASSUME NEW i \in D PROVE f[i] \in Offsets(e) /\ TenantAt(e, f[i]) = TenantAt(q, i)
    <3>1. f[i] = IF c + i >= n THEN i + 1 ELSE i
      BY <1>8
    <3> HIDE DEF f
    <3>2. f[i] \in Offsets(e)
      BY <1>2, <1>4, <2>1, <3>1 DEF Offsets
    <3>3. IndexAt(e, f[i]) = IndexAt(q, i)
      BY <1>2, <1>4, <1>5, <2>1, <3>1, <3>2
    <3>4. IndexAt(q, i) + 1 \in 1..n
      BY <1>2, <1>4
    <3> QED
      BY <2>1, <3>2, <3>3, <3>4 DEF TenantAt
  <2>3. ASSUME NEW k \in Offsets(e) PROVE HeadAt(e, k) = r \/ \E i \in D : f[i] = k
    <3>0. k \in Nat /\ k < n + 1 /\ IndexAt(e, k) = IF c + k < n + 1 THEN c + k ELSE c + k - (n + 1)
      BY <1>5, <2>1
    <3>1. CASE c + k = n
      <4>1. IndexAt(e, k) + 1 = n + 1
        BY <1>2, <3>0, <3>1
      <4>2. HeadAt(e, k) = Head(e.bucket[t])
        BY <2>1, <4>1 DEF HeadAt
      <4>3. e.bucket[t] = Append(<< >>, r)
        BY <1>1, <1>8
      <4>4. Head(Append(<< >>, r)) = r
        OBVIOUS
      <4> QED
        BY <4>2, <4>3, <4>4
    <3>2. CASE c + k < n
      <4>1. k \in D /\ f[k] = k
        BY <1>2, <3>0, <3>2 DEF Offsets
      <4> QED
        BY <4>1
    <3>3. CASE c + k > n
      <4>1. c < n \/ c = 0
        BY DEF Sound, Ring
      <4>2. k - 1 \in D
        BY <1>2, <3>0, <3>3, <4>1 DEF Offsets
      <4>3. f[k - 1] = k
        BY <1>2, <1>8, <3>0, <3>3, <4>2
      <4> QED
        BY <4>2, <4>3
    <3>4. c + k = n \/ c + k < n \/ c + k > n
      BY <1>2, <3>0
    <3> QED
      BY <3>1, <3>2, <3>3, <3>4
  <2> HIDE DEF f
  <2>4. \A i \in D : f[i] \in Offsets(e) /\ TenantAt(e, f[i]) = TenantAt(q, i)
    BY <2>2
  <2>5. \A k \in Offsets(e) : HeadAt(e, k) = r \/ \E i \in D : f[i] = k
    BY <2>3
  <2> HIDE DEF D
  <2> QED
    BY <1>1, <1>3, <1>6, <1>9, <2>4, <2>5, ClaimMoves DEF e
<1> QED
  BY <1>7, <1>8

(* The ring of n tenants without the one at ti, seen from the cursor c:    *)
(* d is the cursor of removeById, i the offset of another tenant at j.     *)
LEMMA RingWithout ==
    ASSUME NEW n \in Nat, n >= 2, NEW c \in 0..(n - 1), NEW ti \in 0..(n - 1),
           NEW i \in 0..(n - 1), NEW j, j = IF c + i < n THEN c + i ELSE c + i - n, j # ti,
           NEW d, d = IF ti < c THEN c - 1 ELSE IF c >= n - 1 THEN 0 ELSE c,
           NEW a, a = IF ti >= c THEN ti - c ELSE ti - c + n,
           NEW b, b = IF i < a THEN i ELSE i - 1
    PROVE  /\ b \in 0..(n - 2) /\ d \in 0..(n - 2) /\ i # a
           /\ (IF d + b < n - 1 THEN d + b ELSE d + b - (n - 1)) = IF j < ti THEN j ELSE j - 1
<1>1. CASE ti < c
  BY <1>1
<1>2. CASE ti >= c
  BY <1>2
<1> QED
  BY <1>1, <1>2

(* Nor does the departure of another entry.                                *)
LEMMA RemoveClaim ==
    ASSUME NEW q, NEW Q, Sound(q, Q), NEW r \in Q, Reserved(q) # {}, r # Claim(q)
    PROVE  Reserved(RemoveById(q, r)) # {} /\ Claim(RemoveById(q, r)) = Claim(q)
<1> DEFINE p == RemoveById(q, r)
           l == Left(q, r)
           t == Tenant[r]
           n == Len(q.order)
           c == q.cursor
           o == Without(q.order, t)
           m == CHOOSE i \in DOMAIN q.order : q.order[i] = t
           ti == m - 1
           d == IF o = << >> THEN 0 ELSE IF ti < c THEN c - 1 ELSE IF c >= Len(o) THEN 0 ELSE c
           a == IF ti >= c THEN ti - c ELSE ti - c + n
           D == {i \in Offsets(q) : l.bucket[t] # << >> \/ i # a}
           f == [i \in D |-> IF l.bucket[t] # << >> \/ i < a THEN i ELSE i - 1]
<1>1. /\ Sound(p, Q \ {r}) /\ r \in Reqs /\ Kept(q, Q) /\ Ring(q) /\ q.age \in [Reqs -> Nat]
      /\ q.order \in Seq(Tenants) /\ c \in Nat /\ q.skips \in [Reqs -> Nat] /\ l \in Queues
      /\ Kept(l, Q \ {r})
  BY RemoveByIdSound, LeftKept DEF Sound, Kept, Queues
<1>2. /\ l.order = q.order /\ l.cursor = q.cursor
      /\ l.age = AgesWithout(q.age, r)
      /\ \A x \in Reqs : l.skips[x] = IF x = r THEN 0 ELSE q.skips[x]
  BY <1>1, LeftKept
<1>3. p = IF l.bucket[t] # << >> THEN l ELSE [l EXCEPT !.order = o, !.cursor = d]
  BY <1>2 DEF RemoveById
<1>4. t \in RangeOf(q.order) /\ n \in Nat \ {0} /\ Len(o) = n - 1 /\ t \in Tenants
  <2>1. 0 \in Nat
    OBVIOUS
  <2> QED
    BY <2>1, LeftTurned
<1>5. m \in 1..n /\ q.order[m] = t
  <2>1. DOMAIN q.order = 1..n
    BY <1>1, LenProperties
  <2> QED
    BY <1>4, <2>1 DEF RangeOf
<1>6. /\ \A x \in Reqs \ {r} : p.skips[x] = q.skips[x]
      /\ r \in Reqs => p.skips[r] = 0
      /\ p.age = AgesWithout(q.age, r)
  <2> HIDE DEF p, l, o, d
  <2>1. p.skips = l.skips /\ p.age = l.age
    BY <1>1, <1>3 DEF Queues
  <2> QED
    BY <1>1, <1>2, <2>1
<1> HIDE DEF m, l, p, o
<1>7. ASSUME NEW x \in Reqs \ {r}, NEW y \in Reqs \ {r}
      PROVE  (q.age[x] < q.age[y]) <=> (p.age[x] < p.age[y])
  <2>1. (q.age[x] < q.age[y]) <=> (AgesWithout(q.age, r)[x] < AgesWithout(q.age, r)[y])
    BY <1>1, AgesKeepOrder
  <2> QED
    BY <1>6, <2>1
<1>8. ASSUME NEW i \in Offsets(q)
      PROVE  /\ i \in Nat /\ i < n /\ c < n
             /\ IndexAt(q, i) = IF c + i < n THEN c + i ELSE c + i - n
  BY RingIndex
<1>9. CASE l.bucket[t] # << >>
  <2>1. /\ p.order = q.order /\ p.cursor = q.cursor
        /\ D = Offsets(q) /\ Offsets(p) = Offsets(q)
    BY <1>2, <1>3, <1>9 DEF Offsets
  <2>2. \A i \in D : f[i] = i
    BY <1>9
  <2>3. f \in [D -> Nat] /\ \A i, j \in D : i <= j => f[i] <= f[j]
    BY <1>8, <2>1, <2>2
  <2>4. \A i \in D : f[i] \in Offsets(p) /\ TenantAt(p, f[i]) = TenantAt(q, i)
    BY <2>1, <2>2 DEF TenantAt, IndexAt
  <2>5. \A k \in Offsets(p) : HeadAt(p, k) = r \/ \E i \in D : f[i] = k
    BY <2>1, <2>2
  <2>6. \A i \in Offsets(q) : TenantAt(q, i) = Tenant[Claim(q)] => i \in D
    BY <2>1
  <2>7. D \subseteq Offsets(q)
    BY <2>1
  <2> HIDE DEF f, D
  <2> QED
    BY <1>1, <1>6, <1>7, <2>3, <2>4, <2>5, <2>6, <2>7, ClaimMoves DEF p
<1>11. m \in 1..n /\ n \in Nat \ {0} /\ c \in Nat /\ Len(o) = n - 1 /\ ti \in 0..(n - 1)
  BY <1>1, <1>4, <1>5
<1>10. CASE l.bucket[t] = << >>
  <2>0. Len(q.order) = n /\ (c = 0 \/ c < n)
    BY <1>1 DEF Ring
  <2> HIDE DEF n, c
  <2>1. p.order = o /\ p.cursor = d
    BY <1>1, <1>3, <1>10 DEF Queues
  <2>2. ASSUME NEW i \in Offsets(q) PROVE i = a <=> IndexAt(q, i) = ti
    <3>1. /\ i \in Nat /\ i < n /\ c < n
          /\ IndexAt(q, i) = IF c + i < n THEN c + i ELSE c + i - n
      BY <1>8
    <3> QED
      BY <1>11, <3>1
  <2>3. ASSUME NEW i \in D
        PROVE  /\ i \in Offsets(q) /\ i # a /\ IndexAt(q, i) # ti
               /\ f[i] = IF i < a THEN i ELSE i - 1
    BY <1>10, <2>2
  <2>4. D \subseteq Offsets(q)
    OBVIOUS
  <2>5. ASSUME NEW k \in Offsets(p)
        PROVE  /\ k \in Nat /\ k < n - 1 /\ d < n - 1
               /\ IndexAt(p, k) = IF d + k < n - 1 THEN d + k ELSE d + k - (n - 1)
    <3>1. /\ k \in Nat /\ k < Len(p.order) /\ p.cursor < Len(p.order)
          /\ IndexAt(p, k) = IF p.cursor + k < Len(p.order) THEN p.cursor + k
                             ELSE p.cursor + k - Len(p.order)
      BY <1>1, RingIndex
    <3> HIDE DEF d
    <3> QED
      BY <1>11, <2>1, <3>1
  <2>6. \A x \in 1..(n - 1) : o[x] = IF x < m THEN q.order[x] ELSE q.order[x + 1]
    <3>1. NoDup(q.order)
      BY <1>1 DEF Ring
    <3>2. \A x \in 1..Len(q.order) - 1 :
            Without(q.order, q.order[m])[x] = IF x < m THEN q.order[x] ELSE q.order[x + 1]
      BY <1>1, <1>5, <2>0, <3>1, WithoutAt
    <3> QED
      BY <1>5, <2>0, <3>2 DEF o
  <2>7. ASSUME NEW i \in D
        PROVE  f[i] \in Nat /\ f[i] \in Offsets(p) /\ TenantAt(p, f[i]) = TenantAt(q, i)
    <3> DEFINE j == IndexAt(q, i)
               b == f[i]
    <3>1. /\ i \in 0..(n - 1) /\ c \in 0..(n - 1) /\ ti \in 0..(n - 1) /\ n >= 2 /\ j # ti
          /\ j = IF c + i < n THEN c + i ELSE c + i - n
          /\ b = IF i < a THEN i ELSE i - 1
      <4>1. i \in Offsets(q) /\ j # ti /\ b = IF i < a THEN i ELSE i - 1
        BY <2>3
      <4>2. i \in Nat /\ i < n /\ c < n /\ j = IF c + i < n THEN c + i ELSE c + i - n
        BY <1>8, <4>1
      <4> HIDE DEF j, b
      <4> QED
        BY <1>11, <4>1, <4>2
    <3>2. d = IF ti < c THEN c - 1 ELSE IF c >= n - 1 THEN 0 ELSE c
      <4>1. o # << >>
        BY <1>11, <3>1
      <4> QED
        BY <1>11, <4>1
    <3> HIDE DEF j, b, d, f, D, ti, a
    <3>3. /\ b \in 0..(n - 2)
          /\ (IF d + b < n - 1 THEN d + b ELSE d + b - (n - 1)) = IF j < ti THEN j ELSE j - 1
      BY <1>11, <3>1, <3>2, RingWithout DEF a
    <3>4. b \in Offsets(p)
      BY <1>11, <2>1, <3>3 DEF Offsets
    <3>5. IndexAt(p, b) = IF j < ti THEN j ELSE j - 1
      BY <2>5, <3>3, <3>4
    <3>6. o[IndexAt(p, b) + 1] = q.order[j + 1]
      <4>1. CASE j < ti
        <5>1. j + 1 \in 1..(n - 1) /\ j + 1 < m
          BY <1>11, <3>1, <4>1 DEF ti
        <5> QED
          BY <2>6, <3>5, <4>1, <5>1
      <4>2. CASE ~(j < ti)
        <5>1. j \in 1..(n - 1) /\ ~(j < m) /\ (j - 1) + 1 = j
          BY <1>11, <3>1, <4>2 DEF ti
        <5> QED
          BY <2>6, <3>5, <4>2, <5>1
      <4> QED
        BY <4>1, <4>2
    <3> QED
      BY <2>1, <3>3, <3>4, <3>6 DEF TenantAt, b, j
  <2>8. \A i, j \in D : i <= j => f[i] <= f[j]
    BY <1>8, <2>3
  <2>9. ASSUME NEW k \in Offsets(p) PROVE \E i \in D : f[i] = k
    <3> DEFINE i == IF k < a THEN k ELSE k + 1
    <3>1. k \in Nat /\ k < n - 1 /\ a \in Nat
      BY <1>11, <2>0, <2>5
    <3>2. i \in Offsets(q) /\ i # a
      BY <1>11, <2>0, <3>1 DEF Offsets
    <3>3. i \in D /\ f[i] = IF i < a THEN i ELSE i - 1
      BY <1>10, <3>2
    <3> HIDE DEF f, D, a
    <3>4. f[i] = k
      BY <3>1, <3>3
    <3> QED
      BY <3>3, <3>4
  <2>10. ASSUME NEW i \in Offsets(q), TenantAt(q, i) = Tenant[Claim(q)] PROVE i \in D
    <3>1. Claim(q) \in Q \ {r}
      BY ClaimQueued
    <3>2. Tenant[Claim(q)] # t
      <4>1. RangeOf(l.bucket[t]) = {x \in Q \ {r} : Tenant[x] = t}
        BY <1>1, <1>4 DEF Kept, Lined
      <4>2. RangeOf(<< >>) = {}
        BY DEF RangeOf
      <4> QED
        BY <1>10, <3>1, <4>1, <4>2
    <3>3. IndexAt(q, i) # ti
      <4> SUFFICES ASSUME IndexAt(q, i) = ti PROVE FALSE
        OBVIOUS
      <4>1. TenantAt(q, i) = q.order[m]
        BY <1>5 DEF TenantAt
      <4> QED
        BY <1>5, <2>10, <3>2, <4>1
    <3> QED
      BY <2>2, <3>3
  <2>11. f \in [D -> Nat]
    BY <2>7
  <2> HIDE DEF f, D
  <2>12. /\ \A i \in D : f[i] \in Offsets(p) /\ TenantAt(p, f[i]) = TenantAt(q, i)
         /\ \A k \in Offsets(p) : HeadAt(p, k) = r \/ \E i \in D : f[i] = k
         /\ \A i \in Offsets(q) : TenantAt(q, i) = Tenant[Claim(q)] => i \in D
    BY <2>7, <2>9, <2>10
  <2> QED
    BY <1>1, <1>6, <1>7, <2>4, <2>8, <2>11, <2>12, ClaimMoves DEF p
<1> QED
  BY <1>9, <1>10

-----------------------------------------------------------------------------
(* When dequeue takes nothing.                                             *)

LEMMA NothingFits ==
    ASSUME NEW q, NEW Q, Sound(q, Q), NEW a \in Int
    PROVE  Dequeued(q, a) = {} <=>
               IF Reserved(q) # {} THEN Cost[Claim(q)] > a
               ELSE \A i \in Offsets(q) : Cost[HeadAt(q, i)] > a
<1>0. ASSUME NEW i \in Offsets(q) PROVE Cost[HeadAt(q, i)] \in Nat /\ i \in Nat
  BY RingHead, RingIndex, QueueAssumption
<1>1. CASE Reserved(q) # {}
  <2>1. Oldest(q, Reserved(q)) \in Offsets(q)
    BY <1>1, ClaimQueued
  <2> QED
    BY <1>0, <1>1, <2>1 DEF Dequeued, Fitting, Claim
<1>2. CASE Reserved(q) = {}
  <2> DEFINE F == Fitting(q, a)
  <2>1. Dequeued(q, a) = {i \in F : \A j \in F : i <= j}
    BY <1>2 DEF Dequeued
  <2>2. F = {i \in Offsets(q) : Cost[HeadAt(q, i)] <= a}
    BY DEF Fitting
  <2>3. F \in SUBSET Nat
    BY <1>0, <2>2
  <2> HIDE DEF F
  <2>4. F # {} => \E i \in F : \A j \in F : i <= j
    BY <2>3, LeastNat
  <2>5. Dequeued(q, a) = {} <=> F = {}
    BY <2>1, <2>4
  <2>6. F = {} <=> \A i \in Offsets(q) : Cost[HeadAt(q, i)] > a
    BY <1>0, <2>2
  <2> QED
    BY <1>2, <2>5, <2>6
<1> QED
  BY <1>1, <1>2

LEMMA NothingFitsLess ==
    ASSUME NEW q, NEW Q, Sound(q, Q), NEW a \in Int, NEW b \in Int, b <= a, Dequeued(q, a) = {}
    PROVE  Dequeued(q, b) = {}
<1>1. ASSUME NEW i \in Offsets(q) PROVE Cost[HeadAt(q, i)] \in Nat
  BY RingHead, QueueAssumption
<1>2. Reserved(q) # {} => Cost[Claim(q)] \in Nat
  BY ClaimQueued, QueueAssumption
<1> QED
  BY <1>1, <1>2, NothingFits

(* Every head has an offset.                                               *)
LEMMA OffsetOf ==
    ASSUME NEW q, NEW Q, Sound(q, Q), NEW t \in Tenants, q.bucket[t] # << >>
    PROVE  \E i \in Offsets(q) : HeadAt(q, i) = Head(q.bucket[t])
<1> DEFINE n == Len(q.order)
           c == q.cursor
<1>1. q.order \in Seq(Tenants) /\ c \in Nat /\ n \in Nat /\ t \in RangeOf(q.order)
      /\ (c = 0 \/ c < n)
  BY LenProperties DEF Sound, Kept, Queues, Ring
<1>2. PICK m \in 1..n : q.order[m] = t
  BY <1>1 DEF RangeOf
<1> DEFINE i == IF m - 1 >= c THEN m - 1 - c ELSE m - 1 - c + n
<1>3. i \in Offsets(q)
  BY <1>1, <1>2 DEF Offsets
<1>4. IndexAt(q, i) = IF c + i < n THEN c + i ELSE c + i - n
  BY <1>3, RingIndex
<1> HIDE DEF c, n
<1>5. IndexAt(q, i) + 1 = m
  BY <1>1, <1>2, <1>4
<1> HIDE DEF i
<1>6. HeadAt(q, i) = Head(q.bucket[t])
  BY <1>2, <1>5 DEF HeadAt
<1> QED
  BY <1>3, <1>6

(* An entry that does not fit changes nothing for the others.              *)
LEMMA EnqueueFitsNothing ==
    ASSUME NEW q, NEW Q, Sound(q, Q), NEW r \in Reqs, r \notin Q, NEW sameMs \in BOOLEAN,
           NEW a \in Int, Dequeued(q, a) = {}, Cost[r] > a
    PROVE  Dequeued(Enqueued(q, r, sameMs), a) = {}
<1> DEFINE e == Enqueued(q, r, sameMs)
<1>1. Sound(e, Q \cup {r}) /\ e.bucket[Tenant[r]] = Append(q.bucket[Tenant[r]], r)
  BY EnqueuedSound
<1>2. ASSUME NEW t \in Tenants, t # Tenant[r] PROVE e.bucket[t] = q.bucket[t]
  BY <1>2 DEF Enqueued, Sound, Kept, Queues
<1> HIDE DEF e
<1>3. CASE Reserved(q) # {}
  <2>1. Reserved(e) # {} /\ Claim(e) = Claim(q)
    BY <1>3, EnqueueClaim DEF e
  <2> QED
    BY <1>1, <1>3, <2>1, NothingFits DEF e
<1>4. CASE Reserved(q) = {}
  <2>1. \A i \in Offsets(q) : Cost[HeadAt(q, i)] > a
    BY <1>4, NothingFits
  <2>2. ASSUME NEW k \in Offsets(e) PROVE Cost[HeadAt(e, k)] > a
    <3> DEFINE t == e.order[IndexAt(e, k) + 1]
    <3>1. t \in Tenants /\ e.bucket[t] # << >> /\ HeadAt(e, k) = Head(e.bucket[t])
      BY <1>1, RingHead
    <3> HIDE DEF t
    <3>2. q.bucket[t] \in Seq(Reqs)
      BY <3>1 DEF Sound, Kept, Queues
    <3>3. CASE t # Tenant[r]
      <4>1. e.bucket[t] = q.bucket[t]
        BY <1>2, <3>1, <3>3
      <4> QED
        BY <2>1, <3>1, <4>1, OffsetOf
    <3>4. CASE t = Tenant[r] /\ q.bucket[t] # << >>
      <4>1. Head(Append(q.bucket[t], r)) = Head(q.bucket[t])
        BY <3>2, <3>4, AppendHead
      <4> QED
        BY <1>1, <2>1, <3>1, <3>4, <4>1, OffsetOf
    <3>5. CASE t = Tenant[r] /\ q.bucket[t] = << >>
      <4>1. Head(Append(<< >>, r)) = r
        OBVIOUS
      <4> QED
        BY <1>1, <3>1, <3>5, <4>1
    <3> QED
      BY <3>3, <3>4, <3>5
  <2>3. Fitting(e, a) = {}
    <3>1. ASSUME NEW k \in Offsets(e) PROVE Cost[HeadAt(e, k)] \in Nat
      BY <1>1, RingHead, QueueAssumption
    <3> QED
      BY <2>2, <3>1 DEF Fitting
  <2> QED
    BY <2>3 DEF Dequeued, e
<1> QED
  BY <1>3, <1>4

-----------------------------------------------------------------------------
(* The controller.                                                         *)

Now == [queue |-> queue, cost |-> cost, pc |-> pc]

Rest ==
    /\ mode \in {"enforce", "shadow"}
    /\ limit \in MinLimit..MaxLimit
    /\ window \in [pressure : Pressures, consumed : BOOLEAN, freeze : BOOLEAN, completed : BOOLEAN]
    /\ calm \in BOOLEAN

(* The inductive invariant: balanced books from which nothing is taken.    *)
IInv ==
    /\ Rest
    /\ Now \in Books /\ Balanced(Now) /\ Stable(Now, limit)
    /\ late \subseteq In(pc, "queued")

(* A step admits within the limit, or the solo request of an idle system.  *)
Enters ==
    \/ In(pc', "active") \subseteq In(pc, "active")
    \/ CostOf(In(pc', "active")) <= limit'
    \/ \E r \in Reqs : In(pc', "active") = {r} /\ Cost[r] <= MaxLimit

(* While the head with the first claim waits, nobody else starts.          *)
Held ==
    (Reserved(queue) # {} /\ pc'[Claim(queue)] = "queued") =>
        \A x \in Reqs : pc'[x] = "active" =>
            pc[x] = "active" \/ (mode = "shadow" /\ pc[x] = "idle")

Proper == IInv' /\ Enters /\ Held

(* The three parts of the state that dispatch works on.                    *)
LEMMA BooksNow ==
    ASSUME IInv
    PROVE  /\ queue \in Queues /\ cost \in Nat /\ pc \in [Reqs -> States]
           /\ Sound(queue, In(pc, "queued")) /\ cost = CostOf(In(pc, "active"))
           /\ limit \in Nat /\ MaxLimit \in Nat
           /\ cost >= limit \/ Dequeued(queue, limit - cost) = {}
<1>1. Now \in Books /\ Balanced(Now) /\ Stable(Now, limit) /\ limit \in MinLimit..MaxLimit
  BY DEF IInv, Rest
<1>2. /\ Now.queue = queue /\ Now.cost = cost /\ Now.pc = pc
  BY DEF Now
<1>3. {MinLimit, MaxLimit} \subseteq Nat
  BY LimitAssumption
<1>4. /\ queue \in Queues /\ cost \in Nat /\ pc \in [Reqs -> States]
  BY <1>1, <1>2 DEF Books
<1> HIDE DEF Now
<1> QED
  BY <1>1, <1>2, <1>3, <1>4 DEF Balanced, Stable

(* A handler that changes the books to s and dispatches.                   *)
LEMMA DispatchProper ==
    ASSUME IInv, Rest', NEW q \in Queues, NEW c \in Nat, NEW pcs \in [Reqs -> States],
           NEW lim, lim = limit', Dispatch(q, c, pcs, lim),
           Sound(q, In(pcs, "queued")), c = CostOf(In(pcs, "active")),
           In(pcs, "active") \subseteq In(pc, "active"),
           Reserved(queue) # {} => \/ pcs[Claim(queue)] # "queued"
                                   \/ Reserved(q) # {} /\ Claim(q) = Claim(queue)
    PROVE  Proper
<1> DEFINE s == [queue |-> q, cost |-> c, pc |-> pcs]
<1>1. lim \in Nat
  <2>1. limit' \in MinLimit..MaxLimit /\ {MinLimit, MaxLimit} \subseteq Nat
    BY LimitAssumption DEF Rest
  <2> QED
    BY <2>1
<1>2. s \in Books /\ Balanced(s)
  BY DEF Books, Balanced
<1>3. PICK u \in Books : Balanced(u) /\ Stable(u, lim) /\ Become(u) /\ Dispatched(s, u, lim)
  BY <1>1, <1>2, DispatchBooks
<1>4. /\ queue' = u.queue /\ cost' = u.cost /\ pc' = u.pc
      /\ late' = {r \in late : u.pc[r] = "queued"}
  BY <1>3 DEF Become
<1>5. Now' = u
  <2>1. u = [queue |-> u.queue, cost |-> u.cost, pc |-> u.pc]
    BY DEF Books
  <2> QED
    BY <1>4, <2>1 DEF Now
<1>6. late' \subseteq In(pc', "queued")
  <2>1. late \subseteq Reqs
    BY DEF IInv, In
  <2> QED
    BY <1>4, <2>1 DEF In
<1>7. IInv'
  BY <1>3, <1>5, <1>6 DEF IInv
<1>8. Enters
  <2>1. In(u.pc, "active") \subseteq In(s.pc, "active") \/ u.cost <= lim
    BY <1>3 DEF Dispatched
  <2>2. u.cost = CostOf(In(u.pc, "active"))
    BY <1>3 DEF Balanced
  <2>3. s.pc = pcs
    OBVIOUS
  <2> HIDE DEF s
  <2> QED
    BY <1>4, <2>1, <2>2, <2>3 DEF Enters
<1>9. Held
  <2> SUFFICES ASSUME Reserved(queue) # {}, pc'[Claim(queue)] = "queued",
                      NEW x \in Reqs, pc'[x] = "active"
               PROVE  pc[x] = "active"
    BY DEF Held
  <2>1. Claim(queue) \in Reqs
    BY BooksNow, ClaimQueued
  <2>2. s.queue = q /\ s.pc = pcs
    OBVIOUS
  <2> HIDE DEF s
  <2>3. /\ u.pc[Claim(queue)] = pcs[Claim(queue)] \/ u.pc[Claim(queue)] \in {"active", "idle"}
        /\ Reserved(q) # {} => u = s \/ u.pc[Claim(q)] # "queued"
    BY <1>3, <2>1, <2>2 DEF Dispatched
  <2>4. pcs[Claim(queue)] = "queued"
    BY <1>4, <2>3
  <2>5. u = s
    BY <1>4, <2>3, <2>4
  <2>6. x \in In(pcs, "active")
    BY <1>4, <2>2, <2>5 DEF In
  <2> QED
    BY <2>6 DEF In
<1> QED
  BY <1>7, <1>8, <1>9 DEF Proper

(* A handler that leaves the books alone, or only moves requests between   *)
(* states that the books do not count.                                     *)
LEMMA QuietProper ==
    ASSUME IInv, Rest', queue' = queue, cost' = cost, limit' = limit,
           pc' \in [Reqs -> States], In(pc', "queued") = In(pc, "queued"),
           In(pc', "active") = In(pc, "active"), late' \subseteq In(pc, "queued")
    PROVE  Proper
<1>1. /\ queue \in Queues /\ cost \in Nat
      /\ Sound(queue, In(pc, "queued")) /\ cost = CostOf(In(pc, "active"))
      /\ cost >= limit \/ Dequeued(queue, limit - cost) = {}
  BY BooksNow
<1>2. Now' = [queue |-> queue, cost |-> cost, pc |-> pc']
  BY DEF Now
<1>3. Now' \in Books /\ Balanced(Now') /\ Stable(Now', limit')
  BY <1>1, <1>2 DEF Books, Balanced, Stable
<1>4. IInv'
  BY <1>3 DEF IInv
<1> QED
  BY <1>4 DEF Proper, Enters, Held, In

LEMMA AdmitProper ==
    ASSUME IInv, Rest', NEW r \in Reqs, pc[r] = "idle", Admit(r), limit' = limit,
           \/ queue.count = 0 /\ In(pc, "active") = {} /\ Cost[r] <= MaxLimit
           \/ queue.count = 0 /\ cost + Cost[r] <= limit
           \/ mode = "shadow" /\ cost + Cost[r] <= limit
    PROVE  Proper
<1> DEFINE Q == In(pc, "queued")
           A == In(pc, "active")
<1>1. /\ queue \in Queues /\ cost \in Nat /\ pc \in [Reqs -> States] /\ limit \in Nat
      /\ Sound(queue, Q) /\ cost = CostOf(A)
      /\ cost >= limit \/ Dequeued(queue, limit - cost) = {}
  BY BooksNow
<1>2. /\ cost' = cost + Cost[r] /\ pc' = [pc EXCEPT ![r] = "active"]
      /\ queue' = queue /\ late' = late
  BY DEF Admit
<1>3. /\ pc' \in [Reqs -> States] /\ In(pc', "queued") = Q /\ In(pc', "active") = A \cup {r}
      /\ r \notin A /\ A \in SUBSET Reqs
  BY <1>1, <1>2 DEF In, States
<1>4. cost' \in Nat /\ cost' = CostOf(A \cup {r}) /\ Cost[r] \in Nat
  <2>1. Cost[r] \in Nat
    BY QueueAssumption
  <2>2. CostOf(A \cup {r}) = CostOf(A) + Cost[r]
    BY <1>3, CostAdded
  <2> QED
    BY <1>1, <1>2, <2>1, <2>2
<1>5. Stable(Now', limit')
  <2>1. Now'.queue = queue /\ Now'.cost = cost'
    BY <1>2 DEF Now
  <2>2. cost' >= limit \/ Dequeued(queue, limit - cost') = {}
    <3>1. CASE queue.count = 0
      BY <1>1, <3>1, NobodyQueued
    <3>2. CASE cost + Cost[r] <= limit
      <4>1. CASE cost >= limit
        BY <1>1, <1>2, <1>4, <4>1
      <4>2. CASE Dequeued(queue, limit - cost) = {}
        <5>1. limit - cost' \in Int /\ limit - cost \in Int /\ limit - cost' <= limit - cost
          BY <1>1, <1>2, <1>4
        <5> QED
          BY <1>1, <4>2, <5>1, NothingFitsLess
      <4> QED
        BY <1>1, <4>1, <4>2
    <3> QED
      BY <3>1, <3>2
  <2> QED
    BY <2>1, <2>2 DEF Stable
<1>6. Now' \in Books /\ Balanced(Now')
  <2>1. Now' = [queue |-> queue, cost |-> cost', pc |-> pc']
    BY <1>2 DEF Now
  <2> QED
    BY <1>1, <1>3, <1>4, <2>1 DEF Books, Balanced
<1>7. late' \subseteq In(pc', "queued")
  BY <1>2, <1>3 DEF IInv
<1>8. IInv'
  BY <1>5, <1>6, <1>7 DEF IInv
<1>9. Enters
  BY <1>2, <1>3, <1>4 DEF Enters
<1>10. Held
  <2>1. CASE queue.count = 0
    BY <1>1, <2>1, NobodyQueued DEF Held
  <2>2. CASE mode = "shadow"
    BY <1>1, <1>2, <2>2 DEF Held
  <2> QED
    BY <2>1, <2>2
<1> QED
  BY <1>8, <1>9, <1>10 DEF Proper

LEMMA AcquireProper ==
    ASSUME IInv, NEW r \in Reqs, NEW sameMs \in BOOLEAN, Acquire(r, sameMs)
    PROVE  Proper
<1>1. Rest' /\ limit' = limit /\ pc[r] = "idle"
  BY DEF Acquire, IInv, Rest
<1>2. CASE ShouldAdmitSolo(r) /\ Admit(r)
  BY <1>1, <1>2, AdmitProper DEF ShouldAdmitSolo, Having, In
<1>3. CASE queue.count = 0 /\ cost + Cost[r] <= limit /\ Admit(r)
  BY <1>1, <1>3, AdmitProper
<1>4. CASE Dispatch(Enqueued(queue, r, sameMs), cost, [pc EXCEPT ![r] = "queued"], limit)
  <2> DEFINE e == Enqueued(queue, r, sameMs)
             pcs == [pc EXCEPT ![r] = "queued"]
             Q == In(pc, "queued")
  <2>1. /\ cost \in Nat /\ pc \in [Reqs -> States] /\ Sound(queue, Q)
        /\ cost = CostOf(In(pc, "active"))
    BY BooksNow
  <2>2. /\ pcs \in [Reqs -> States] /\ In(pcs, "queued") = Q \cup {r}
        /\ In(pcs, "active") = In(pc, "active") /\ r \notin Q
    BY <1>1, <2>1 DEF In, States
  <2>3. Sound(e, Q \cup {r})
    BY <2>1, <2>2, EnqueuedSound
  <2>4. e \in Queues
    BY <2>3 DEF Sound, Kept
  <2>5. Reserved(queue) # {} => Reserved(e) # {} /\ Claim(e) = Claim(queue)
    BY <2>1, <2>2, EnqueueClaim
  <2> HIDE DEF e, pcs
  <2> QED
    BY <1>1, <1>4, <2>1, <2>2, <2>3, <2>4, <2>5, DispatchProper DEF e, pcs
<1> QED
  BY <1>2, <1>3, <1>4 DEF Acquire

LEMMA AcquireShadowProper ==
    ASSUME IInv, NEW r \in Reqs, NEW sameMs \in BOOLEAN, AcquireShadow(r, sameMs)
    PROVE  Proper
<1> DEFINE e == Enqueued(queue, r, sameMs)
           Q == In(pc, "queued")
           A == In(pc, "active")
<1>1. Rest' /\ limit' = limit /\ pc[r] = "idle" /\ mode = "shadow"
  BY DEF AcquireShadow, IInv, Rest
<1>2. /\ cost \in Nat /\ pc \in [Reqs -> States] /\ limit \in Nat /\ Sound(queue, Q)
      /\ cost = CostOf(A) /\ Cost[r] \in Nat
      /\ cost >= limit \/ Dequeued(queue, limit - cost) = {}
  BY BooksNow, QueueAssumption
<1>3. CASE cost + Cost[r] <= limit /\ Admit(r)
  BY <1>1, <1>3, AdmitProper
<1>4. ASSUME cost + Cost[r] > limit, queue' = e, pc' = [pc EXCEPT ![r] = "queued"],
             UNCHANGED <<cost, late>>
      PROVE  Proper
  <2>1. /\ pc' \in [Reqs -> States] /\ In(pc', "queued") = Q \cup {r}
        /\ In(pc', "active") = A /\ r \notin Q
    BY <1>1, <1>2, <1>4 DEF In, States
  <2>2. Sound(e, Q \cup {r})
    BY <1>2, <2>1, EnqueuedSound
  <2>3. cost >= limit \/ Dequeued(e, limit - cost) = {}
    <3>1. CASE ~(cost >= limit)
      <4>1. limit - cost \in Int /\ Cost[r] > limit - cost
        BY <1>2, <1>4
      <4> QED
        BY <1>2, <2>1, <3>1, <4>1, EnqueueFitsNothing
    <3> QED
      BY <3>1
  <2> HIDE DEF e
  <2>4. Now' = [queue |-> e, cost |-> cost, pc |-> pc']
    BY <1>4 DEF Now
  <2>5. Now' \in Books /\ Balanced(Now') /\ Stable(Now', limit')
    <3>1. e \in Queues
      BY <2>2 DEF Sound, Kept
    <3> QED
      BY <1>1, <1>2, <2>1, <2>2, <2>3, <2>4, <3>1 DEF Books, Balanced, Stable
  <2>6. late' \subseteq In(pc', "queued")
    BY <1>4, <2>1 DEF IInv
  <2>7. IInv'
    BY <1>1, <2>5, <2>6 DEF IInv
  <2> QED
    BY <1>1, <2>1, <2>7 DEF Proper, Enters, Held, In
<1>5. ASSUME pc' = [pc EXCEPT ![r] = "uncounted"], UNCHANGED <<queue, cost, late>> PROVE Proper
  <2>1. pc' \in [Reqs -> States] /\ In(pc', "queued") = Q /\ In(pc', "active") = A
    BY <1>1, <1>2, <1>5 DEF In, States
  <2>2. late' \subseteq Q
    BY <1>5 DEF IInv
  <2> QED
    BY <1>1, <1>5, <2>1, <2>2, QuietProper
<1> QED
  BY <1>3, <1>4, <1>5 DEF AcquireShadow

(* A request that leaves the queue before its turn.                        *)
LEMMA LeaveQueueProper ==
    ASSUME IInv, Rest', NEW r \in Reqs, pc[r] = "queued", limit' = limit,
           Dispatch(RemoveById(queue, r), cost, [pc EXCEPT ![r] = "idle"], limit)
    PROVE  Proper
<1> DEFINE p == RemoveById(queue, r)
           pcs == [pc EXCEPT ![r] = "idle"]
           Q == In(pc, "queued")
<1>1. /\ cost \in Nat /\ pc \in [Reqs -> States] /\ Sound(queue, Q)
      /\ cost = CostOf(In(pc, "active"))
  BY BooksNow
<1>2. /\ pcs \in [Reqs -> States] /\ In(pcs, "queued") = Q \ {r} /\ pcs[r] = "idle"
      /\ In(pcs, "active") = In(pc, "active") /\ r \in Q
  BY <1>1 DEF In, States
<1>3. Sound(p, Q \ {r})
  BY <1>1, <1>2, RemoveByIdSound
<1>4. p \in Queues
  BY <1>3 DEF Sound, Kept
<1>5. Reserved(queue) # {} => \/ pcs[Claim(queue)] # "queued"
                              \/ Reserved(p) # {} /\ Claim(p) = Claim(queue)
  <2>1. CASE Claim(queue) = r
    BY <1>2, <2>1
  <2>2. CASE Claim(queue) # r
    BY <1>1, <1>2, <2>2, RemoveClaim
  <2> QED
    BY <2>1, <2>2
<1> HIDE DEF p, pcs
<1> QED
  BY <1>1, <1>2, <1>3, <1>4, <1>5, DispatchProper DEF p, pcs

(* A handler that gives back a slot, if r holds one, and dispatches.       *)
LEMMA GiveBackProper ==
    ASSUME IInv, Rest', NEW r \in Reqs, limit' = limit,
           \/ /\ pc[r] = "active"
              /\ Dispatch(queue, cost - Cost[r], [pc EXCEPT ![r] = "idle"], limit)
           \/ /\ pc[r] = "uncounted"
              /\ Dispatch(queue, cost, [pc EXCEPT ![r] = "idle"], limit)
    PROVE  Proper
<1> DEFINE pcs == [pc EXCEPT ![r] = "idle"]
           Q == In(pc, "queued")
           A == In(pc, "active")
           c == IF pc[r] = "active" THEN cost - Cost[r] ELSE cost
<1>1. /\ cost \in Nat /\ pc \in [Reqs -> States] /\ Sound(queue, Q) /\ queue \in Queues
      /\ cost = CostOf(A) /\ A \in SUBSET Reqs
  BY BooksNow DEF In
<1>2. /\ pcs \in [Reqs -> States] /\ In(pcs, "queued") = Q /\ In(pcs, "active") = A \ {r}
  BY <1>1 DEF In, States
<1>3. c \in Nat /\ c = CostOf(A \ {r})
  <2>1. CASE pc[r] = "active"
    <3>1. r \in A
      BY <2>1 DEF In
    <3>2. CostOf(A \ {r}) = CostOf(A) - Cost[r]
      BY <1>1, <3>1, CostRemoved
    <3>3. CostOf(A \ {r}) \in Nat
      BY <1>1, UnitsFinite
    <3> QED
      BY <1>1, <2>1, <3>2, <3>3
  <2>2. CASE pc[r] # "active"
    <3>1. A \ {r} = A
      BY <2>2 DEF In
    <3> QED
      BY <1>1, <2>2, <3>1
  <2> QED
    BY <2>1, <2>2
<1>4. Dispatch(queue, c, pcs, limit)
  OBVIOUS
<1> HIDE DEF c, pcs
<1> QED
  BY <1>1, <1>2, <1>3, <1>4, DispatchProper

LEMMA ReleaseProper ==
    ASSUME IInv, NEW r \in Reqs, NEW error \in BOOLEAN, Release(r, error)
    PROVE  Proper
<1>1. /\ mode' = mode /\ limit' = limit /\ calm' = calm
      /\ window' = [window EXCEPT !.freeze = @ \/ error, !.completed = TRUE]
  BY DEF Release
<1>2. Rest'
  <2>1. Rest
    BY DEF IInv
  <2>2. window' \in [pressure : Pressures, consumed : BOOLEAN, freeze : BOOLEAN, completed : BOOLEAN]
    BY <1>1, <2>1 DEF Rest
  <2> QED
    BY <1>1, <2>1, <2>2 DEF Rest
<1>3. CASE pc[r] = "active" /\ Dispatch(queue, cost - Cost[r], [pc EXCEPT ![r] = "idle"], limit)
  BY <1>1, <1>2, <1>3, GiveBackProper
<1>4. CASE pc[r] = "queued" /\ Dispatch(RemoveById(queue, r), cost, [pc EXCEPT ![r] = "idle"], limit)
  BY <1>1, <1>2, <1>4, LeaveQueueProper
<1>5. CASE pc[r] = "uncounted" /\ Dispatch(queue, cost, [pc EXCEPT ![r] = "idle"], limit)
  BY <1>1, <1>2, <1>5, GiveBackProper
<1> QED
  BY <1>3, <1>4, <1>5 DEF Release

LEMMA QuietSteps ==
    ASSUME IInv, NEW r \in Reqs, ReleaseForeign(r) \/ DeadlinePasses(r)
    PROVE  Proper
<1>1. Rest' /\ queue' = queue /\ cost' = cost /\ limit' = limit /\ pc \in [Reqs -> States]
  BY BooksNow DEF IInv, Rest, ReleaseForeign, DeadlinePasses
<1>2. CASE ReleaseForeign(r)
  <2>1. /\ pc' \in [Reqs -> States] /\ In(pc', "queued") = In(pc, "queued")
        /\ In(pc', "active") = In(pc, "active")
    BY <1>1, <1>2 DEF ReleaseForeign, In, States
  <2>2. late' \subseteq In(pc, "queued")
    BY <1>2 DEF ReleaseForeign, IInv
  <2> QED
    BY <1>1, <2>1, <2>2, QuietProper
<1>3. CASE DeadlinePasses(r)
  <2>1. pc' = pc /\ late' = late \cup {r} /\ pc[r] = "queued"
    BY <1>3 DEF DeadlinePasses
  <2>2. late' \subseteq In(pc, "queued")
    BY <2>1 DEF IInv, In
  <2> QED
    BY <1>1, <2>1, <2>2, QuietProper
<1> QED
  BY <1>2, <1>3

LEMMA ExpireEntryProper ==
    ASSUME IInv, NEW r \in Reqs, ExpireEntry(r)
    PROVE  Proper
<1>1. Rest' /\ limit' = limit
  BY DEF ExpireEntry, IInv, Rest
<1> QED
  BY <1>1, LeaveQueueProper DEF ExpireEntry

LEMMA ClampType ==
    ASSUME NEW x \in Int
    PROVE  Clamp(x) \in MinLimit..MaxLimit
<1>1. {MinLimit, InitialLimit, MaxLimit} \subseteq Nat /\ MinLimit <= InitialLimit
      /\ InitialLimit <= MaxLimit
  BY LimitAssumption
<1>2. MinLimit \in Nat /\ InitialLimit \in Nat /\ MaxLimit \in Nat
  BY <1>1
<1> QED
  BY <1>1, <1>2 DEF Clamp

LEMMA LimitCut ==
    ASSUME IInv
    PROVE  /\ (limit * CriticalTenths) \div 10 \in Nat /\ (limit * Tenths) \div 10 \in Nat
           /\ limit \in Nat /\ IncreaseStep \in Nat /\ InitialLimit \in Nat
<1>1. limit \in Nat
  BY BooksNow
<1>2. CriticalTenths \in Nat /\ Tenths \in Nat
  BY LimitAssumption
<1>3. IncreaseStep \in Nat /\ InitialLimit \in Nat
  <2>1. {InitialLimit, IncreaseStep} \subseteq Nat
    BY LimitAssumption
  <2> QED
    BY <2>1
<1>4. limit * CriticalTenths \in Nat /\ limit * Tenths \in Nat
  BY <1>1, <1>2
<1> QED
  BY <1>1, <1>3, <1>4

(* A handler that moves the limit and dispatches.                          *)
LEMMA LimitMoves ==
    ASSUME IInv, Rest', Dispatch(queue, cost, pc, limit')
    PROVE  Proper
<1>1. /\ queue \in Queues /\ cost \in Nat /\ pc \in [Reqs -> States]
      /\ Sound(queue, In(pc, "queued")) /\ cost = CostOf(In(pc, "active"))
  BY BooksNow
<1> QED
  BY <1>1, DispatchProper

LEMMA ObservePressureProper ==
    ASSUME IInv, NEW p \in Pressures, ObservePressure(p)
    PROVE  Proper
<1> DEFINE cut == p = "critical" /\ ~window.consumed
<1>1. /\ mode' = mode /\ calm' = calm
      /\ window' = [window EXCEPT !.pressure = Worse(@, p), !.consumed = @ \/ cut]
      /\ IF cut THEN /\ limit' = Clamp((limit * CriticalTenths) \div 10)
                     /\ Dispatch(queue, cost, pc, limit')
                ELSE UNCHANGED <<limit, queue, cost, pc, late>>
  BY DEF ObservePressure
<1>2. Rest
  BY DEF IInv
<1>3. limit' \in MinLimit..MaxLimit
  <2>1. (limit * CriticalTenths) \div 10 \in Int
    BY LimitCut
  <2> QED
    BY <1>1, <1>2, <2>1, ClampType DEF Rest
<1>4. Rest'
  <2>1. window' \in [pressure : Pressures, consumed : BOOLEAN, freeze : BOOLEAN, completed : BOOLEAN]
    BY <1>1, <1>2 DEF Rest, Worse, Pressures
  <2> QED
    BY <1>1, <1>2, <1>3, <2>1 DEF Rest
<1>5. CASE cut
  BY <1>1, <1>4, <1>5, LimitMoves
<1>6. CASE ~cut
  <2>1. /\ limit' = limit /\ queue' = queue /\ cost' = cost /\ pc' = pc /\ late' = late
    BY <1>1, <1>6
  <2>2. pc' \in [Reqs -> States] /\ late' \subseteq In(pc, "queued")
    BY <2>1, BooksNow DEF IInv
  <2> QED
    BY <1>4, <2>1, <2>2, QuietProper
<1> QED
  BY <1>5, <1>6

LEMMA TickProper ==
    ASSUME IInv, NEW rising \in BOOLEAN, NEW util, Tick(rising, util)
    PROVE  Proper
<1>1. /\ mode' = mode /\ calm' = calm /\ window' = Fresh
      /\ limit' = Clamp(IdleRecovery(Adjusted(rising, util), util))
      /\ Dispatch(queue, cost, pc, limit')
  BY DEF Tick
<1>2. Adjusted(rising, util) \in Nat
  BY LimitCut DEF Adjusted
<1>3. IdleRecovery(Adjusted(rising, util), util) \in Int
  BY <1>2, LimitCut DEF IdleRecovery
<1>4. limit' \in MinLimit..MaxLimit
  BY <1>1, <1>3, ClampType
<1>5. Rest'
  <2>1. window' \in [pressure : Pressures, consumed : BOOLEAN, freeze : BOOLEAN, completed : BOOLEAN]
    BY <1>1 DEF Fresh, Pressures
  <2> QED
    BY <1>1, <1>4, <2>1 DEF Rest, IInv
<1> QED
  BY <1>1, <1>5, LimitMoves

(* A controller that starts with nobody in it.                             *)
LEMMA StartsEmpty ==
    ASSUME NEW pcs \in [Reqs -> States], In(pcs, "queued") = {}, In(pcs, "active") = {},
           NEW lim \in Nat
    PROVE  LET s == [queue |-> EmptyQueue, cost |-> 0, pc |-> pcs]
           IN  s \in Books /\ Balanced(s) /\ Stable(s, lim)
<1> DEFINE s == [queue |-> EmptyQueue, cost |-> 0, pc |-> pcs]
<1>1. s.queue = EmptyQueue /\ s.cost = 0 /\ s.pc = pcs
  OBVIOUS
<1>2. Sound(EmptyQueue, {}) /\ EmptyQueue \in Queues /\ EmptyQueue.count = 0
  BY EmptySound DEF Sound, Kept, EmptyQueue
<1>3. s \in Books
  BY <1>2 DEF Books
<1> HIDE DEF s
<1>4. Balanced(s)
  BY <1>1, <1>2, CostOfNone DEF Balanced
<1>5. Dequeued(EmptyQueue, lim - 0) = {}
  BY <1>2, NobodyQueued
<1> QED
  BY <1>1, <1>3, <1>4, <1>5 DEF Stable, s

LEMMA ReloadProper ==
    ASSUME IInv, NEW m \in {"enforce", "shadow"}, Reload(m)
    PROVE  Proper
<1>1. /\ mode' = m /\ queue' = EmptyQueue /\ cost' = 0 /\ late' = {} /\ limit' = InitialLimit
      /\ window' = Fresh /\ calm' = calm
      /\ pc' = [r \in Reqs |-> IF pc[r] = "idle" \/ (mode = "enforce" /\ pc[r] = "queued")
                               THEN "idle" ELSE "foreign"]
  BY DEF Reload
<1>2. pc' \in [Reqs -> States] /\ In(pc', "queued") = {} /\ In(pc', "active") = {}
  BY <1>1 DEF In, States
<1>3. InitialLimit \in Nat /\ InitialLimit \in MinLimit..MaxLimit
  <2>1. {MinLimit, InitialLimit, MaxLimit} \subseteq Nat /\ MinLimit <= InitialLimit
        /\ InitialLimit <= MaxLimit
    BY LimitAssumption
  <2> QED
    BY <2>1
<1>4. Rest'
  <2>1. window' \in [pressure : Pressures, consumed : BOOLEAN, freeze : BOOLEAN, completed : BOOLEAN]
    BY <1>1 DEF Fresh, Pressures
  <2> QED
    BY <1>1, <1>3, <2>1 DEF Rest, IInv
<1>5. Now' \in Books /\ Balanced(Now') /\ Stable(Now', limit')
  <2>1. Now' = [queue |-> EmptyQueue, cost |-> 0, pc |-> pc']
    BY <1>1 DEF Now
  <2> QED
    BY <1>1, <1>2, <1>3, <2>1, StartsEmpty
<1>6. IInv'
  BY <1>1, <1>4, <1>5 DEF IInv
<1> QED
  BY <1>2, <1>6 DEF Proper, Enters, Held, In

LEMMA NextProper == IInv /\ [Next]_vars => Proper
<1> SUFFICES ASSUME IInv, [Next]_vars PROVE Proper
  OBVIOUS
<1>1. ASSUME UNCHANGED <<mode, queue, cost, pc, late, limit, window>>, calm' \in BOOLEAN
      PROVE  Proper
  <2>1. Rest'
    BY <1>1 DEF IInv, Rest
  <2>2. pc' \in [Reqs -> States] /\ late' \subseteq In(pc, "queued")
    BY <1>1, BooksNow DEF IInv
  <2> QED
    BY <1>1, <2>1, <2>2, QuietProper
<1>2. ASSUME NEW r \in Reqs, NEW sameMs \in BOOLEAN, Acquire(r, sameMs) \/ AcquireShadow(r, sameMs)
      PROVE  Proper
  BY <1>2, AcquireProper, AcquireShadowProper
<1>3. ASSUME NEW r \in Reqs, NEW error \in BOOLEAN, Release(r, error) PROVE Proper
  BY <1>3, ReleaseProper
<1>4. ASSUME NEW r \in Reqs, ReleaseForeign(r) \/ DeadlinePasses(r) \/ ExpireEntry(r) PROVE Proper
  BY <1>4, QuietSteps, ExpireEntryProper
<1>5. ASSUME NEW p \in Pressures, ObservePressure(p) PROVE Proper
  BY <1>5, ObservePressureProper
<1>6. ASSUME NEW rising \in BOOLEAN, NEW util \in {"low", "middle", "high"}, Tick(rising, util)
      PROVE  Proper
  BY <1>6, TickProper
<1>7. ASSUME NEW m \in {"enforce", "shadow"}, Reload(m) PROVE Proper
  BY <1>7, ReloadProper
<1>8. CASE Calms
  BY <1>1, <1>8 DEF Calms
<1>9. CASE UNCHANGED vars
  BY <1>1, <1>9 DEF vars, IInv, Rest
<1> QED
  BY <1>2, <1>3, <1>4, <1>5, <1>6, <1>7, <1>8, <1>9 DEF Next

LEMMA InitIInv == Init => IInv
<1> SUFFICES ASSUME Init PROVE IInv
  OBVIOUS
<1>1. /\ mode \in {"enforce", "shadow"} /\ queue = EmptyQueue /\ cost = 0 /\ late = {}
      /\ limit = InitialLimit /\ window = Fresh /\ calm = FALSE /\ pc = [r \in Reqs |-> "idle"]
  BY DEF Init
<1>2. pc \in [Reqs -> States] /\ In(pc, "queued") = {} /\ In(pc, "active") = {}
  BY <1>1 DEF In, States
<1>3. limit \in Nat /\ limit \in MinLimit..MaxLimit
  <2>1. {MinLimit, InitialLimit, MaxLimit} \subseteq Nat /\ MinLimit <= InitialLimit
        /\ InitialLimit <= MaxLimit
    BY LimitAssumption
  <2> QED
    BY <1>1, <2>1
<1>4. Rest
  <2>1. window \in [pressure : Pressures, consumed : BOOLEAN, freeze : BOOLEAN, completed : BOOLEAN]
    BY <1>1 DEF Fresh, Pressures
  <2> QED
    BY <1>1, <1>3, <2>1 DEF Rest
<1>5. Now \in Books /\ Balanced(Now) /\ Stable(Now, limit)
  <2>1. Now = [queue |-> EmptyQueue, cost |-> 0, pc |-> pc]
    BY <1>1 DEF Now
  <2> QED
    BY <1>2, <1>3, <2>1, StartsEmpty
<1> QED
  BY <1>1, <1>4, <1>5 DEF IInv

(* Between two handlers the books balance and dispatch has nothing left to *)
(* do, whatever handlers ran before: the invariant is inductive.           *)
THEOREM AdmissionInvariance == Spec => []IInv
<1>1. IInv /\ [Next]_vars => IInv'
  BY NextProper DEF Proper
<1> QED
  BY InitIInv, <1>1, PTL DEF Spec

-----------------------------------------------------------------------------
(* What the invariant says.                                                *)

(* The controller's state keeps its types: no total of the queue and no    *)
(* cost in use is ever decremented below zero, and the limit stays within  *)
(* the configured bounds (queue.ts takeAt and removeById, controller.ts    *)
(* releaseLease and clampLimit).                                           *)
THEOREM AdmissionType == Spec => []TypeOK
<1>1. IInv => TypeOK
  <2> SUFFICES ASSUME IInv PROVE TypeOK
    OBVIOUS
  <2>1. queue \in Queues /\ cost \in Nat /\ pc \in [Reqs -> States]
    BY BooksNow
  <2>2. late \subseteq Reqs
    BY DEF IInv, In
  <2> QED
    BY <2>1, <2>2 DEF IInv, Rest, TypeOK, States
<1> QED
  BY <1>1, AdmissionInvariance, PTL

(* The controller's totals, buckets, ring and cursor describe exactly the  *)
(* requests that run and wait, in every order of arrivals, releases,       *)
(* expiries, changes of the limit and reloads.                             *)
THEOREM BooksStayBalanced == Spec => []BooksBalance
<1>1. IInv => BooksBalance
  <2> SUFFICES ASSUME IInv PROVE BooksBalance
    OBVIOUS
  <2> DEFINE Q == In(pc, "queued")
  <2>1. Having("queued") = Q /\ Having("active") = In(pc, "active")
    BY DEF Having, In
  <2>2. Sound(queue, Q) /\ cost = CostOf(In(pc, "active")) /\ late \subseteq Q
    BY BooksNow DEF IInv
  <2> HIDE DEF Q
  <2>3. Q \subseteq Reqs /\ Lined(queue, Q) /\ Totals(queue, Q) /\ Ring(queue)
    BY <2>2 DEF Sound, Kept
  <2>4. Queued(queue) = Q
    <3>1. \A r \in Reqs : Tenant[r] \in Tenants
      BY QueueAssumption
    <3> QED
      BY <2>3, <3>1 DEF Queued, Lined
  <2>5. \A t \in Tenants :
          /\ NoDup(queue.bucket[t]) /\ \A r \in RangeOf(queue.bucket[t]) : Tenant[r] = t
          /\ t \in RangeOf(queue.order) <=> queue.bucket[t] # << >>
    BY <2>3 DEF Lined, Ring
  <2>6. NoDup(queue.order) /\ (queue.cursor = 0 \/ queue.cursor < Len(queue.order))
    BY <2>3 DEF Ring
  <2>7. queue.count = Cardinality(Q) /\ queue.cost = CostOf(Q)
    BY <2>3 DEF Totals
  <2> QED
    BY <2>1, <2>2, <2>4, <2>5, <2>6, <2>7 DEF BooksBalance
<1> QED
  BY <1>1, AdmissionInvariance, PTL

(* Every handler that makes room dispatches until nothing queued can be    *)
(* admitted, and no head is passed over more often than                    *)
(* MAX_UNFITTABLE_SKIPS (controller.ts dispatch and dispatchVirtual).      *)
THEOREM DispatchLeavesNothing == Spec => []DispatchComplete
<1>1. IInv => DispatchComplete
  <2> SUFFICES ASSUME IInv PROVE DispatchComplete
    OBVIOUS
  <2>1. Passed(queue)
    BY BooksNow DEF Sound, Kept
  <2> QED
    BY <2>1, BooksNow DEF DispatchComplete, Passed
<1> QED
  BY <1>1, AdmissionInvariance, PTL

(* While the oldest head with a reservation stays queued, no other request *)
(* starts, neither from the queue nor, in enforce, straight from acquire   *)
(* (queue.ts dequeue and the check of the queue in controller.ts acquire). *)
THEOREM ReservationKept == Spec => ReservationHolds
<1>1. IInv /\ [Next]_vars =>
        [ Reserved(queue) # {} =>
            LET r == HeadAt(queue, Oldest(queue, Reserved(queue)))
            IN  pc'[r] = "queued" =>
                  \A x \in Reqs : pc'[x] = "active" =>
                      pc[x] = "active" \/ (mode = "shadow" /\ pc[x] = "idle") ]_vars
  BY NextProper DEF Proper, Held, Claim
<1> QED
  BY <1>1, AdmissionInvariance, PTL DEF Spec, ReservationHolds

(* The controller implements WeightedLimit: what it lets run fits the      *)
(* limit of the moment, or is the single solo request of an idle system    *)
(* (controller.ts acquire, shouldAdmitSolo, dispatch).                     *)
THEOREM BudgetRefined == Spec => StaysWithinBudget
<1>1. Init => Budget!Init
  <2> SUFFICES ASSUME Init PROVE Budget!Init
    OBVIOUS
  <2>1. Having("active") = {}
    BY DEF Init, Having
  <2>2. limit \in MinLimit..MaxLimit
    BY InitIInv DEF IInv, Rest
  <2> QED
    BY <2>1, <2>2 DEF Budget!Init
<1>2. IInv /\ [Next]_vars => [Budget!Step]_<<Having("active"), limit>>
  <2> SUFFICES ASSUME IInv, [Next]_vars PROVE Budget!Step
    OBVIOUS
  <2>1. Enters /\ limit' \in MinLimit..MaxLimit
    BY NextProper DEF Proper, IInv, Rest
  <2>2. Having("active") = In(pc, "active") /\ Having("active")' = In(pc', "active")
    BY DEF Having, In
  <2>3. In(pc', "active") \subseteq Reqs
    BY DEF In
  <2>4. CostOf(In(pc', "active")) = Budget!Load(Having("active"))'
    <3>1. ASSUME NEW S PROVE Cardinality(S) = Budget!Cardinality(S)
      BY Zenon DEF Cardinality, Budget!Cardinality
    <3> QED
      BY <2>2, <3>1 DEF Budget!Load, CostOf
  <2> QED
    BY <2>1, <2>2, <2>3, <2>4 DEF Enters, Budget!Step
<1> QED
  BY <1>1, <1>2, AdmissionInvariance, PTL DEF Spec, StaysWithinBudget, Budget!Spec
=============================================================================
