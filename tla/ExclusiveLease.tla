--------------------------- MODULE ExclusiveLease ---------------------------
(***************************************************************************)
(* Exclusive managed session leases: the lease table and its operations    *)
(* (src/lib/db/exclusiveConnectionLeases.ts), the lifecycle endpoint, and  *)
(* the requests that select a connection under a lease, claim it, pass the *)
(* fence and go upstream (src/sse/services/auth.ts,                        *)
(* exclusiveConnectionLeasePolicy.ts, open-sse/handlers/chatCore.ts,       *)
(* open-sse/executors/base.ts).                                            *)
(*                                                                         *)
(* Every operation runs in an immediate SQLite transaction and is atomic,  *)
(* also between processes; a request awaits between selecting, claiming,   *)
(* fencing and each upstream attempt.  The sequence `rows' is the table in the order of its  *)
(* ids.  expires_at is abstracted to "in the future" (fresh); time passing *)
(* it is TtlElapses.                                                       *)
(***************************************************************************)
EXTENDS Naturals, Sequences

CONSTANTS Owners,   \* lease owners (their hashes)
          ApiKeys,  \* managed API keys
          Conns,    \* provider connections
          Reqs,     \* slots for selections and inference requests in progress
          MaxRows   \* bound: rows of the table

ASSUME LeaseAssumption == MaxRows \in Nat

VARIABLES rows,  \* exclusive_connection_leases, in the order of id
          req    \* the selections and inference requests in progress

vars == <<rows, req>>

States == {"ACTIVE", "RELEASED", "EXPIRED", "INVALIDATED"}

Row == [owner : Owners, key : ApiKeys, conn : Conns, gen : Nat \ {0},
        state : States, fresh : BOOLEAN]

Idle == [pc |-> "idle"]

Request == [pc : {"selected", "claimed", "fenced", "inflight"}, mode : {"acquire", "request"},
            owner : Owners, key : ApiKeys, gen : Nat, conn : Conns, seen : BOOLEAN]

TypeOK ==
    /\ rows \in Seq(Row)
    /\ req \in [Reqs -> Request \cup {Idle}]

Init ==
    /\ rows = << >>
    /\ req = [r \in Reqs |-> Idle]

-----------------------------------------------------------------------------
(* UPDATE ... SET state = st for the rows S.                               *)
EndRows(rs, S, st) ==
    [i \in 1..Len(rs) |-> IF i \in S THEN [rs[i] EXCEPT !.state = st] ELSE rs[i]]

(* UPDATE ... SET expires_at = now + ttl (TRUE), or the clock (FALSE).     *)
SetFresh(rs, S, f) ==
    [i \in 1..Len(rs) |-> IF i \in S THEN [rs[i] EXCEPT !.fresh = f] ELSE rs[i]]

Active(rs) == {i \in 1..Len(rs) : rs[i].state = "ACTIVE"}
OwnerRows(rs, o) == {i \in Active(rs) : rs[i].owner = o}
ConnRows(rs, c) == {i \in Active(rs) : rs[i].conn = c}

(* expire, the first statement of every operation.                         *)
Expire(rs) == EndRows(rs, {i \in Active(rs) : ~rs[i].fresh}, "EXPIRED")

(* Mutant of Exact: the API key is not compared.                           *)
ExactAnyKey(rs, o, g, k) == {i \in OwnerRows(rs, o) : rs[i].gen = g}

(* The active row that an UPDATE of owner o, generation g and key k hits.  *)
Exact(rs, o, g, k) ==
    {i \in OwnerRows(rs, o) : rs[i].gen = g /\ rs[i].key = k}

(* Mutant of NextGeneration: only active rows are looked at.               *)
NextGenerationActive(rs, o, g) ==
    /\ \A i \in OwnerRows(rs, o) : rs[i].gen < g
    /\ g = 1 \/ \E i \in OwnerRows(rs, o) : rs[i].gen = g - 1

(* nextGeneration: one more than the largest the owner ever had.           *)
NextGeneration(rs, o, g) ==
    /\ \A i \in 1..Len(rs) : rs[i].owner = o => rs[i].gen < g
    /\ g = 1 \/ \E i \in 1..Len(rs) : rs[i].owner = o /\ rs[i].gen = g - 1

(* Mutant of NewRow: the largest generation itself is used, without + 1.   *)
NewRowSameGeneration(o, k, c, g) ==
    [owner |-> o, key |-> k, conn |-> c, gen |-> g - 1, state |-> "ACTIVE", fresh |-> TRUE]

(* insert.                                                                 *)
NewRow(o, k, c, g) ==
    [owner |-> o, key |-> k, conn |-> c, gen |-> g, state |-> "ACTIVE", fresh |-> TRUE]

-----------------------------------------------------------------------------
(* The operations on the table: each relates the rows rs before it (after  *)
(* expire), the rows rs2 after it and its outcome.                         *)

(* Mutant of AcquireLease: the connection is not checked.                  *)
AcquireUnchecked(rs, o, k, c, rs2, out) ==
    /\ OwnerRows(rs, o) = {}
    /\ \E g \in 1..(Len(rs) + 1) :
          NextGeneration(rs, o, g) /\ rs2 = Append(rs, NewRow(o, k, c, g))
    /\ out = "CLAIMED"

(* acquireExclusiveConnectionLease.                                        *)
AcquireLease(rs, o, k, c, rs2, out) ==
    \/ /\ \E i \in OwnerRows(rs, o) : rs[i].key # k \/ rs[i].conn # c
       /\ rs2 = rs /\ out = "STALE"
    \/ /\ \E i \in OwnerRows(rs, o) : rs[i].key = k /\ rs[i].conn = c
       /\ rs2 = SetFresh(rs, OwnerRows(rs, o), TRUE) /\ out = "CLAIMED"
    \/ /\ OwnerRows(rs, o) = {} /\ ConnRows(rs, c) # {}
       /\ rs2 = rs /\ out = "LOST"
    \/ /\ OwnerRows(rs, o) = {} /\ ConnRows(rs, c) = {}
       /\ \E g \in 1..(Len(rs) + 1) :
             NextGeneration(rs, o, g) /\ rs2 = Append(rs, NewRow(o, k, c, g))
       /\ out = "CLAIMED"

(* transitionExclusiveConnectionLease: the binding moves to another        *)
(* connection and keeps its generation.                                    *)
TransitionLease(rs, o, g, k, c, rs2, out) ==
    \/ /\ Exact(rs, o, g, k) = {}
       /\ rs2 = rs /\ out = "STALE"
    \/ /\ \E i \in Exact(rs, o, g, k) : rs[i].conn = c
       /\ rs2 = rs /\ out = "CLAIMED"
    \/ /\ \E i \in Exact(rs, o, g, k) : rs[i].conn # c
       /\ ConnRows(rs, c) # {}
       /\ rs2 = rs /\ out = "LOST"
    \/ /\ \E i \in Exact(rs, o, g, k) : rs[i].conn # c
       /\ ConnRows(rs, c) = {}
       /\ rs2 = Append(EndRows(rs, OwnerRows(rs, o), "INVALIDATED"), NewRow(o, k, c, g))
       /\ out = "CLAIMED"

-----------------------------------------------------------------------------
(* reconcileExpiredExclusiveConnectionLeases, and every operation that     *)
(* fails or only reads: it still expires rows.                             *)
Reconcile ==
    /\ rows' = Expire(rows)
    /\ UNCHANGED req

(* The clock passes expires_at of the active row i.                        *)
TtlElapses(i) ==
    /\ i \in Active(rows) /\ rows[i].fresh
    /\ rows' = SetFresh(rows, {i}, FALSE)
    /\ UNCHANGED req

(* renewExclusiveConnectionLease.                                          *)
Renew(o, g, k) ==
    /\ rows' = SetFresh(Expire(rows), Exact(Expire(rows), o, g, k), TRUE)
    /\ UNCHANGED req

(* releaseExclusiveConnectionLease; a second call changes nothing.         *)
Release(o, g, k) ==
    /\ rows' = EndRows(Expire(rows), Exact(Expire(rows), o, g, k), "RELEASED")
    /\ UNCHANGED req

(* invalidateExclusiveConnectionLease, by a request that finds no eligible *)
(* connection.                                                             *)
Invalidate(o, g, k) ==
    /\ rows' = EndRows(Expire(rows), Exact(Expire(rows), o, g, k), "INVALIDATED")
    /\ UNCHANGED req

(* The selection under applyExclusiveConnectionLeasePolicy: a request must *)
(* present the owner's active generation and key, and gets its own         *)
(* connection or one that nobody leases.  An acquire presents none.        *)
Select(r, mode, o, k, c) ==
    LET rs == Expire(rows)
    IN  /\ req[r] = Idle
        /\ rows' = rs
        /\ ConnRows(rs, c) \subseteq OwnerRows(rs, o)
        /\ \A i \in OwnerRows(rs, o) : rs[i].key = k
        /\ \E g \in 0..Len(rs) :
              /\ IF mode = "request" THEN \E i \in OwnerRows(rs, o) : rs[i].gen = g
                 ELSE IF OwnerRows(rs, o) = {} THEN g = 0
                 ELSE \E i \in OwnerRows(rs, o) : rs[i].gen = g
              /\ req' = [req EXCEPT ![r] = [pc |-> "selected", mode |-> mode, owner |-> o,
                             key |-> k, gen |-> g, conn |-> c, seen |-> OwnerRows(rs, o) # {}]]

(* What mutateExclusiveConnectionLease does when the owner's active lease  *)
(* is (held) or is not known to exist; a transition presents generation g. *)
Mutate(rs, held, q, g, rs2, out) ==
    IF held THEN TransitionLease(rs, q.owner, g, q.key, q.conn, rs2, out)
            ELSE AcquireLease(rs, q.owner, q.key, q.conn, rs2, out)

Claimed(r, out) ==
    req' = [req EXCEPT ![r] = IF out = "CLAIMED" /\ @.mode = "request"
                              THEN [@ EXCEPT !.pc = "claimed", !.seen = FALSE] ELSE Idle]

(* The claim of a selection that did not wait for a quota preflight: it    *)
(* uses the active lease that the selection saw.                           *)
ClaimSelected(r) ==
    LET rs == Expire(rows)
    IN  /\ req[r].pc = "selected"
        /\ \E out \in {"CLAIMED", "LOST", "STALE"} :
              /\ Mutate(rs, req[r].seen, req[r], req[r].gen, rows', out)
              /\ Claimed(r, out)

(* commitLease, after the quota preflight: it looks the active lease up    *)
(* again.  An acquire presents the generation it finds.                    *)
CommitLease(r) ==
    LET rs == Expire(rows)
        held == OwnerRows(rs, req[r].owner) # {}
    IN  /\ req[r].pc = "selected"
        /\ \E g \in 0..Len(rs), out \in {"CLAIMED", "LOST", "STALE"} :
              /\ IF req[r].mode = "acquire" /\ held
                 THEN \E i \in OwnerRows(rs, req[r].owner) : rs[i].gen = g
                 ELSE g = req[r].gen
              /\ Mutate(rs, held, req[r], g, rows', out)
              /\ Claimed(r, out)

(* Mutant of Fence: it looks at the owner's lease only.                    *)
FenceOwnerOnly(r) ==
    LET rs == Expire(rows)
        q == req[r]
    IN  /\ q.pc = "claimed"
        /\ rows' = rs
        /\ req' = [req EXCEPT ![r] = IF OwnerRows(rs, q.owner) # {}
                                     THEN [q EXCEPT !.pc = "fenced"] ELSE Idle]

(* assertExclusiveConnectionLeaseFence, in front of executor.execute; a    *)
(* rejected request ends.                                                  *)
Fence(r) ==
    LET rs == Expire(rows)
        q == req[r]
    IN  /\ q.pc = "claimed"
        /\ rows' = rs
        /\ req' = [req EXCEPT ![r] =
              IF \E i \in Exact(rs, q.owner, q.gen, q.key) : rs[i].conn = q.conn
              THEN [q EXCEPT !.pc = "fenced"] ELSE Idle]

MovesOn(r, from, to) ==
    /\ req[r].pc = from
    /\ req' = [req EXCEPT ![r] = [@ EXCEPT !.pc = to]]
    /\ UNCHANGED rows

(* execute sends the request upstream, after awaiting a proactive token    *)
(* refresh, the request's transformation, its signing and the WAF gate.    *)
Attempt(r) == MovesOn(r, "fenced", "inflight")

(* execute tries again by itself: a 400 downgraded, a 429 or a WAF block   *)
(* waited out, the next fallback URL.  No fence comes in between.          *)
ExecutorRetry(r) == MovesOn(r, "inflight", "fenced")

(* chatCore runs execute again, after a token refresh or to re-open a      *)
(* stream: the request must pass the fence again.                          *)
Retry(r) == MovesOn(r, "inflight", "claimed")

(* The upstream answers, or the request gives up before it.                *)
Finish(r) ==
    /\ req[r] # Idle
    /\ req' = [req EXCEPT ![r] = Idle]
    /\ UNCHANGED rows

(* The process restarts: the table survives, requests do not.              *)
Restart ==
    /\ req' = [r \in Reqs |-> Idle]
    /\ UNCHANGED rows

Next ==
    \/ Reconcile
    \/ \E i \in Active(rows) : TtlElapses(i)
    \/ \E o \in Owners, g \in 1..Len(rows), k \in ApiKeys :
          Renew(o, g, k) \/ Release(o, g, k) \/ Invalidate(o, g, k)
    \/ \E r \in Reqs :
          \/ \E mode \in {"acquire", "request"}, o \in Owners, k \in ApiKeys, c \in Conns :
                Select(r, mode, o, k, c)
          \/ Len(rows) < MaxRows /\ (ClaimSelected(r) \/ CommitLease(r))
          \/ Fence(r)
          \/ Attempt(r) \/ ExecutorRetry(r) \/ Retry(r)
          \/ Finish(r)
    \/ Restart

Spec == Init /\ [][Next]_vars

-----------------------------------------------------------------------------
(* An owner has at most one active lease and a connection at most one      *)
(* active lease, whatever races between selection and claim: the checks of *)
(* acquire and transition suffice, and the unique indexes never fire.      *)
ActiveUnique ==
    \A i, j \in Active(rows) :
        rows[i].owner = rows[j].owner \/ rows[i].conn = rows[j].conn => i = j

(* The active lease is the newest row of the newest generation its owner   *)
(* ever had, through transitions, releases, expiry and late claims.        *)
ActiveIsNewest ==
    \A i, j \in 1..Len(rows) : i < j /\ rows[i].owner = rows[j].owner =>
        rows[i].state # "ACTIVE" /\ rows[i].gen <= rows[j].gen

(* Active leases are exclusive and the newest of their owners.             *)
LeasesSound == ActiveUnique /\ ActiveIsNewest

(* A generation stays with the API key that acquired it: a claim under     *)
(* another key that was selected before the lease changed hands does not   *)
(* take the owner's lease over.                                            *)
GenerationKeepsKey ==
    \A i, j \in 1..Len(rows) :
        rows[i].owner = rows[j].owner /\ rows[i].gen = rows[j].gen => rows[i].key = rows[j].key

Ended(rs, o, g) ==
    /\ \E i \in 1..Len(rs) : rs[i].owner = o /\ rs[i].gen = g
    /\ \A i \in Active(rs) : ~(rs[i].owner = o /\ rs[i].gen = g)

(* A lease that was released, has expired or was invalidated is gone for   *)
(* good: no late claim, renewal, transition or retry brings a generation   *)
(* back, so a fence value handed out once never becomes valid again.       *)
EndedStaysEnded ==
    [][\A o \in Owners, g \in 1..Len(rows) : Ended(rows, o, g) => Ended(rows', o, g)]_vars

(* The lease of request q is on q's connection, unexpired, and the only    *)
(* one there.                                                              *)
HoldsConnection(rs, q) ==
    /\ ConnRows(rs, q.conn) # {}
    /\ \A i \in ConnRows(rs, q.conn) :
          /\ rs[i].owner = q.owner /\ rs[i].gen = q.gen /\ rs[i].key = q.key
          /\ rs[i].fresh

(* Request q's lease was on q's connection before any lease active there.  *)
LeasedFirst(rs, q) ==
    \E i \in 1..Len(rs) :
        /\ rs[i].owner = q.owner /\ rs[i].gen = q.gen /\ rs[i].key = q.key
        /\ rs[i].conn = q.conn
        /\ \A j \in ConnRows(rs, q.conn) : i <= j

(* A managed request passes the fence only while its own generation and    *)
(* key lease the connection, and nobody else does.  The attempts that      *)
(* follow are not fenced: the lease may have ended meanwhile, but an       *)
(* attempt never goes out on a connection that was somebody else's when    *)
(* the request was let through, only on its own or on one that another     *)
(* owner leased later.                                                     *)
DispatchIsFenced ==
    [][\A r \in Reqs :
          /\ req[r].pc = "claimed" /\ req'[r].pc = "fenced" => HoldsConnection(rows', req'[r])
          /\ req[r].pc # "inflight" /\ req'[r].pc = "inflight" => LeasedFirst(rows', req'[r])]_vars
=============================================================================
