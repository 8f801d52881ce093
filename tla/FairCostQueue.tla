---------------------------- MODULE FairCostQueue ----------------------------
(***************************************************************************)
(* The bounded multi-tenant queue of open-sse/services/admission/queue.ts. *)
(* A queue is a record: `order' lists the tenants that have entries,       *)
(* `bucket' their entries, `cursor' is the 0-based round-robin position,   *)
(* `skips' the skipCount of the entries.  Of enqueuedAtMs only the order   *)
(* matters: `age' numbers the milliseconds in which entries arrived, from  *)
(* 1 for the oldest one; it is 0 for a request that is not in the queue.   *)
(***************************************************************************)
EXTENDS Naturals, Sequences, FiniteSets, WaitQueue

CONSTANTS Tenants,        \* tenant keys
          Reqs,           \* requests; a slot serves one request at a time
          Tenant,         \* entry.tenantKey of each request
          Cost,           \* entry.cost of each request
          MaxSkips,       \* MAX_UNFITTABLE_SKIPS
          MaxQueueCount,  \* maxCount
          MaxQueueCost    \* maxCost

ASSUME QueueAssumption ==
    /\ IsFiniteSet(Reqs)
    /\ Tenant \in [Reqs -> Tenants]
    /\ Cost \in [Reqs -> Nat \ {0}]
    /\ MaxSkips \in Nat \ {0}
    /\ MaxQueueCount \in Nat
    /\ MaxQueueCost \in Nat

Queues == [order : Seq(Tenants), bucket : [Tenants -> Seq(Reqs)], cursor : Nat,
           skips : [Reqs -> Nat], age : [Reqs -> Nat], count : Nat, cost : Nat]

EmptyQueue == [order |-> << >>, bucket |-> [t \in Tenants |-> << >>], cursor |-> 0,
               skips |-> [r \in Reqs |-> 0], age |-> [r \in Reqs |-> 0], count |-> 0, cost |-> 0]

Queued(q) == UNION {RangeOf(q.bucket[t]) : t \in Tenants}

(* The tenants from the cursor on: offset i of the loops in dequeue.       *)
Offsets(q) == {i \in 0..Len(q.order) : i < Len(q.order)}
IndexAt(q, i) == (q.cursor + i) % Len(q.order)
HeadAt(q, i) == Head(q.bucket[q.order[IndexAt(q, i) + 1]])
Heads(q) == {HeadAt(q, i) : i \in Offsets(q)}

-----------------------------------------------------------------------------
CanAccept(q, r) == q.count < MaxQueueCount /\ q.cost + Cost[r] <= MaxQueueCost

Newest(q) == CHOOSE n \in {q.age[r] : r \in Reqs} : \A r \in Reqs : q.age[r] <= n

(* enqueue, in the millisecond of the last arrival or in a later one.      *)
Enqueued(q, r, sameMs) ==
    LET t == Tenant[r]
        n == Newest(q)
    IN  [q EXCEPT !.order = IF q.bucket[t] = << >> THEN Append(@, t) ELSE @,
                  !.bucket[t] = Append(@, r),
                  !.age[r] = IF sameMs /\ n > 0 THEN n ELSE n + 1,
                  !.count = @ + 1,
                  !.cost = @ + Cost[r]]

(* The ages once r has left: the later milliseconds move up when r was the *)
(* only entry of its own.                                                  *)
AgesWithout(age, r) ==
    LET alone == \A x \in Reqs \ {r} : age[x] # age[r]
    IN  [x \in Reqs |-> IF x = r THEN 0
                        ELSE IF alone /\ age[x] > age[r] THEN age[x] - 1 ELSE age[x]]

(* What takeAt and removeById share: the entry r leaves.                   *)
Left(q, r) ==
    [q EXCEPT !.bucket[Tenant[r]] = Without(@, r),
              !.age = AgesWithout(@, r),
              !.skips[r] = 0,
              !.count = @ - 1,
              !.cost = @ - Cost[r]]

(* The successor of the tenant at idx (0-based) takes the turn.            *)
TakeAt(q, idx) ==
    LET t == q.order[idx + 1]
        left == Left(q, Head(q.bucket[t]))
        rest == Without(q.order, t)
    IN  IF left.bucket[t] = << >>
        THEN [left EXCEPT !.order = rest,
                          !.cursor = IF rest = << >> THEN 0 ELSE idx % Len(rest)]
        ELSE [left EXCEPT !.cursor = (idx + 1) % Len(q.order)]

(* Heads that were passed over often enough reserve capacity; the oldest   *)
(* one goes first, of one millisecond the first from the cursor on.        *)
Reserved(q) == {i \in Offsets(q) : q.skips[HeadAt(q, i)] >= MaxSkips}
Oldest(q, S) == CHOOSE i \in S : \A j \in S :
    \/ q.age[HeadAt(q, i)] < q.age[HeadAt(q, j)]
    \/ q.age[HeadAt(q, i)] = q.age[HeadAt(q, j)] /\ i <= j

Fitting(q, available) == {i \in Offsets(q) : Cost[HeadAt(q, i)] <= available}

(* Mutant of Dequeued: heads reserve nothing.                              *)
DequeuedUnreserved(q, available) ==
    {i \in Fitting(q, available) : \A j \in Fitting(q, available) : i <= j}

(* The offset dequeue(available) takes, if any.                            *)
Dequeued(q, available) ==
    IF Reserved(q) # {} THEN {Oldest(q, Reserved(q))} \cap Fitting(q, available)
    ELSE {i \in Fitting(q, available) : \A j \in Fitting(q, available) : i <= j}

(* dequeue, of the entry at offset i: an admission of smaller work counts  *)
(* as a pass-over of the heads before it that do not fit.                  *)
Dequeue(q, i) ==
    LET passed == IF Reserved(q) # {} THEN {} ELSE {HeadAt(q, j) : j \in {k \in Offsets(q) : k < i}}
        aged == [q EXCEPT !.skips = [r \in Reqs |-> @[r] + IF r \in passed THEN 1 ELSE 0]]
    IN  TakeAt(aged, IndexAt(q, i))

(* Mutant of RemoveById: the cursor is left alone.                         *)
RemoveByIdKeepsCursor(q, r) ==
    LET left == Left(q, r)
    IN  IF left.bucket[Tenant[r]] # << >> THEN left
        ELSE [left EXCEPT !.order = Without(q.order, Tenant[r])]

(* removeById: the cursor stays with its tenant, or moves on to the next.  *)
RemoveById(q, r) ==
    LET t == Tenant[r]
        left == Left(q, r)
        ti == (CHOOSE i \in DOMAIN q.order : q.order[i] = t) - 1
        rest == Without(q.order, t)
    IN  IF left.bucket[t] # << >> THEN left
        ELSE [left EXCEPT !.order = rest,
                          !.cursor = IF rest = << >> THEN 0
                                     ELSE IF ti < @ THEN @ - 1
                                     ELSE IF @ >= Len(rest) THEN 0 ELSE @]
=============================================================================
