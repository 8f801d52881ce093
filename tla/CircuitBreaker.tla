--------------------------- MODULE CircuitBreaker ---------------------------
(***************************************************************************)
(* The circuit breaker of a provider (src/shared/utils/circuitBreaker.ts)  *)
(* and the requests that pass its gate, run under it and report to it: the *)
(* chat path (src/sse/handlers/chat.ts, chatHelpers.ts), the combo path    *)
(* (open-sse/services/accountFallback.ts) and the operator.                *)
(*                                                                         *)
(* A breaker is a record.  halfOpenProbeGeneration is abstracted to the    *)
(* set `probes' of the calls that run with the current generation: what    *)
(* increments the generation empties the set.  Times are the ticks since   *)
(* lastFailureTime and since halfOpenProbeStartedAt.  failureCount,        *)
(* openCycleCount and the counts per kind stop at the value from which on  *)
(* a larger one makes no difference.                                       *)
(***************************************************************************)
EXTENDS Naturals, FiniteSets

CONSTANTS Calls,                 \* slots for requests in progress
          Forced,                \* those with a forced connection, which bypass the breaker
          FailureThreshold, DegradationThreshold,
          HalfOpenRequests,
          ResetTimeout,          \* in ticks
          EscalationCount,       \* backoffEscalationCount
          MaxMultiplier,         \* maxBackoffMultiplier
          MaxCycles,             \* cycles from which on the multiplier is the largest
          Kinds,                 \* failure kinds that classifyError tells apart
          KindCooldown,          \* cooldownByKind, a function on some kinds
          KindThreshold,         \* kindThresholds, a function on some kinds
          MaxTicks,              \* ticks that no cooldown exceeds
          NoKind, NoTime         \* null

ASSUME BreakerAssumption ==
    /\ IsFiniteSet(Calls) /\ Forced \subseteq Calls
    /\ FailureThreshold \in Nat \ {0} /\ DegradationThreshold \in Nat \ {0}
    /\ HalfOpenRequests \in Nat \ {0}
    /\ ResetTimeout \in Nat /\ EscalationCount \in Nat /\ MaxMultiplier \in Nat \ {0}
    /\ MaxCycles \in Nat /\ MaxTicks \in Nat
    /\ NoKind \notin Kinds /\ NoTime \notin Nat
    /\ DOMAIN KindThreshold \subseteq Kinds
    /\ \A k \in DOMAIN KindThreshold : KindThreshold[k] \in Nat \ {0}

VARIABLES b,    \* the breaker
          db,   \* its row in domain_circuit_breakers
          call  \* the requests in progress

vars == <<b, db, call>>

States == {"CLOSED", "DEGRADED", "OPEN", "HALF_OPEN"}

Counts == [DOMAIN KindThreshold -> Nat]

Breaker == [state : States, failures : 0..FailureThreshold, kind : Kinds \cup {NoKind},
            since : 0..MaxTicks, cycles : 0..MaxCycles, counts : Counts,
            allowed : 0..HalfOpenRequests, leased : (0..ResetTimeout) \cup {NoTime},
            probes : SUBSET Calls]

Saved == [state : States, failures : 0..FailureThreshold, kind : Kinds \cup {NoKind},
          since : 0..MaxTicks, cycles : 0..MaxCycles, counts : Counts]

Call == [pc : {"idle", "gated", "running"}, probe : BOOLEAN]

TypeOK ==
    /\ b \in Breaker
    /\ db \in Saved
    /\ call \in [Calls -> Call]

Idle == [pc |-> "idle", probe |-> FALSE]
NoCounts == [k \in DOMAIN KindThreshold |-> 0]

AtMost(n, max) == IF n > max THEN max ELSE n

-----------------------------------------------------------------------------
(* _effectiveResetTimeout, _effectiveCooldown.                             *)
Multiplier(cycles) ==
    IF cycles <= EscalationCount THEN 1 ELSE AtMost(2^(cycles - EscalationCount), MaxMultiplier)

Cooldown(x) ==
    Multiplier(x.cycles) * (IF x.kind \in DOMAIN KindCooldown THEN KindCooldown[x.kind] ELSE ResetTimeout)

(* The configuration lets no cooldown exceed MaxTicks, and the counts stop *)
(* where the multiplier does.                                              *)
ASSUME CooldownAssumption ==
    /\ Multiplier(MaxCycles) = MaxMultiplier
    /\ MaxMultiplier * ResetTimeout <= MaxTicks
    /\ \A k \in DOMAIN KindCooldown : MaxMultiplier * KindCooldown[k] <= MaxTicks

(* Mutant of Transition: the generation is not incremented.                *)
TransitionKeepsProbes(x, s) ==
    [x EXCEPT !.state = s,
              !.allowed = IF s = "HALF_OPEN" THEN HalfOpenRequests ELSE @,
              !.leased = NoTime]

(* _transition.                                                            *)
Transition(x, s) ==
    [x EXCEPT !.state = s,
              !.allowed = IF s = "HALF_OPEN" THEN HalfOpenRequests ELSE @,
              !.probes = {},
              !.leased = NoTime]

LeaseOver(x) ==
    x.state = "HALF_OPEN" /\ x.allowed = 0 /\ x.leased # NoTime /\ x.leased = ResetTimeout

(* Mutant of Refresh: probes that never settle keep their slots.           *)
RefreshOpenOnly(x) ==
    IF x.state = "OPEN" /\ x.since >= Cooldown(x) THEN Transition(x, "HALF_OPEN") ELSE x

(* _refreshOpenState.                                                      *)
Refresh(x) ==
    IF x.state = "OPEN" /\ x.since >= Cooldown(x) THEN Transition(x, "HALF_OPEN")
    ELSE IF LeaseOver(x)
    THEN [x EXCEPT !.allowed = HalfOpenRequests, !.leased = NoTime, !.probes = {}]
    ELSE x

(* Mutant of Admits: the slots of a half-open breaker are not looked at.   *)
AdmitsHalfOpen(x) == x.state # "OPEN"

(* canExecute, after the refresh.                                          *)
Admits(x) ==
    \/ x.state \in {"CLOSED", "DEGRADED"}
    \/ x.state = "HALF_OPEN" /\ x.allowed > 0

(* _persistToDb writes what _restoreFromDb reads; the refresh writes only  *)
(* when the state changes.                                                 *)
Persist(x) ==
    [state |-> x.state, failures |-> x.failures, kind |-> x.kind, since |-> x.since,
     cycles |-> x.cycles, counts |-> x.counts]

Restored(d) ==
    [state |-> d.state, failures |-> d.failures, kind |-> d.kind, since |-> d.since,
     cycles |-> d.cycles, counts |-> d.counts,
     allowed |-> IF d.state = "HALF_OPEN" THEN HalfOpenRequests ELSE 0,
     leased |-> NoTime, probes |-> {}]

RefreshedDb(x, d) == IF Refresh(x).state # x.state THEN Persist(Refresh(x)) ELSE d

-----------------------------------------------------------------------------
(* Mutant of OnSuccess: the escalation survives the recovery.              *)
OnSuccessKeepsCycles(x) ==
    IF x.state \in {"OPEN", "HALF_OPEN"}
    THEN [Transition(x, "CLOSED") EXCEPT !.failures = 0, !.kind = NoKind, !.counts = NoCounts]
    ELSE [x EXCEPT !.failures = IF @ = 0 THEN 0 ELSE @ - 1]

(* _onSuccess.  An open breaker forgets lastFailureTime, too.              *)
OnSuccess(x) ==
    LET fewer == IF x.failures = 0 THEN 0 ELSE x.failures - 1
    IN  CASE x.state \in {"OPEN", "HALF_OPEN"} ->
                [Transition(x, "CLOSED") EXCEPT !.failures = 0, !.kind = NoKind, !.cycles = 0,
                    !.counts = NoCounts,
                    !.since = IF x.state = "OPEN" THEN MaxTicks ELSE @]
          [] x.state = "DEGRADED" /\ fewer <= DegradationThreshold ->
                [Transition(x, "CLOSED") EXCEPT !.failures = fewer]
          [] OTHER -> [x EXCEPT !.failures = fewer]

(* The part of _onFailure before the thresholds.                           *)
Counted(x, k) ==
    [x EXCEPT !.failures = AtMost(@ + 1, FailureThreshold), !.since = 0, !.kind = k,
              !.counts = [j \in DOMAIN @ |-> IF j = k THEN AtMost(@[j] + 1, KindThreshold[j]) ELSE @[j]]]

KindTrips(x, k) == k \in DOMAIN KindThreshold /\ Counted(x, k).counts[k] >= KindThreshold[k]

(* _onFailure.                                                             *)
OnFailure(x, k) ==
    LET n == Counted(x, k)
    IN  CASE KindTrips(x, k) -> Transition(n, "OPEN")
          [] ~KindTrips(x, k) /\ x.state = "OPEN" -> n
          [] ~KindTrips(x, k) /\ x.state = "HALF_OPEN" ->
                [Transition(n, "OPEN") EXCEPT !.cycles = AtMost(@ + 1, MaxCycles)]
          [] ~KindTrips(x, k) /\ x.state \in {"CLOSED", "DEGRADED"} /\ n.failures >= FailureThreshold ->
                Transition(n, "OPEN")
          [] ~KindTrips(x, k) /\ x.state = "CLOSED" /\ n.failures < FailureThreshold
                /\ n.failures >= DegradationThreshold -> Transition(n, "DEGRADED")
          [] OTHER -> n

(* Mutant of FailureDb: a failure of an open circuit is not saved.         *)
FailureDbOpenSkipped(x, d, k) == IF x.state = "OPEN" THEN d ELSE Persist(OnFailure(x, k))

(* Opening on a kind's threshold returns before _persistToDb.              *)
FailureDb(x, d, k) == IF KindTrips(x, k) THEN d ELSE Persist(OnFailure(x, k))

(* What reset() leaves.                                                    *)
Cleared(x) ==
    [Transition(x, "CLOSED") EXCEPT !.failures = 0, !.since = MaxTicks, !.kind = NoKind,
                                    !.cycles = 0, !.counts = NoCounts]

(* A call that ends no longer runs with the current generation; its slot   *)
(* is not given back.                                                      *)
Without(x, c) == [x EXCEPT !.probes = @ \ {c}]

Become(c, pc, probe) == call' = [call EXCEPT ![c] = [pc |-> pc, probe |-> probe]]

Init ==
    /\ b = [state |-> "CLOSED", failures |-> 0, kind |-> NoKind, since |-> MaxTicks, cycles |-> 0,
            counts |-> NoCounts, allowed |-> 0, leased |-> NoTime, probes |-> {}]
    /\ db = Persist(b)
    /\ call = [c \in Calls |-> Idle]

-----------------------------------------------------------------------------
(* canExecute, getStatus and getRetryAfterMs of anyone who only looks.     *)
Look ==
    /\ b' = Refresh(b)
    /\ db' = RefreshedDb(b, db)
    /\ UNCHANGED call

(* checkPipelineGates: getCircuitBreaker saves the configured breaker, and *)
(* the request goes on if canExecute says so.  It takes no probe slot.     *)
Gate(c) ==
    /\ call[c] = Idle /\ c \notin Forced
    /\ b' = Refresh(b)
    /\ db' = Persist(b')
    /\ Admits(b')
    /\ Become(c, "gated", FALSE)

(* The same for a forced connection: it runs whatever the breaker says.    *)
Bypass(c) ==
    /\ call[c] = Idle /\ c \in Forced
    /\ b' = Refresh(b)
    /\ db' = Persist(b')
    /\ Become(c, "running", FALSE)

(* A half-open breaker admits call c as a probe.                           *)
Probe(x, c) ==
    [x EXCEPT !.allowed = @ - 1, !.probes = @ \cup {c}, !.leased = IF @ = NoTime THEN 0 ELSE @]

(* execute, up to the call of fn.  A rejected request stays where it is:   *)
(* it tries the next account or gives up.                                  *)
Execute(c) ==
    LET x == Refresh(b)
    IN  /\ call[c].pc = "gated"
        /\ db' = RefreshedDb(b, db)
        /\ \/ /\ ~Admits(x)
              /\ b' = x /\ UNCHANGED call
           \/ /\ Admits(x) /\ x.state # "HALF_OPEN"
              /\ b' = x /\ Become(c, "running", FALSE)
           \/ /\ Admits(x) /\ x.state = "HALF_OPEN"
              /\ b' = Probe(x, c) /\ Become(c, "running", TRUE)

(* execute after fn, with its check of the generation: fn throws (a kind   *)
(* may be known) or resolves and execute itself accounts for the result.   *)
Settle(c) ==
    /\ call[c].pc = "running" /\ c \notin Forced
    /\ Become(c, "idle", FALSE)
    /\ \/ /\ call[c].probe /\ c \notin b.probes
          /\ UNCHANGED <<b, db>>
       \/ /\ call[c].probe => c \in b.probes
          /\ \/ \E k \in Kinds \cup {NoKind} :
                   b' = OnFailure(Without(b, c), k) /\ db' = FailureDb(Without(b, c), db, k)
             \/ b' = OnSuccess(Without(b, c)) /\ db' = Persist(b')

(* handleSingleModelChat: execute ignores the result and the chat path     *)
(* reports it, without a generation.                                       *)
ChatSuccess(c) ==
    /\ call[c].pc = "running"
    /\ b' = OnSuccess(Without(b, c)) /\ db' = Persist(b')
    /\ Become(c, "idle", FALSE)

(* The same for a failure, also for the 503 of a request that execute      *)
(* rejected on all accounts.                                               *)
ChatFailure(c) ==
    /\ call[c].pc # "idle"
    /\ b' = OnFailure(Without(b, c), NoKind) /\ db' = FailureDb(Without(b, c), db, NoKind)
    /\ Become(c, "idle", FALSE)

(* recordProviderSuccess, for a target of a combo.                         *)
ComboSuccess(c) ==
    LET x == Refresh(Without(b, c))
    IN  /\ call[c].pc = "running"
        /\ b' = IF x.state = "OPEN" THEN x ELSE OnSuccess(x)
        /\ db' = IF x.state = "OPEN" THEN RefreshedDb(Without(b, c), db) ELSE Persist(b')
        /\ Become(c, "idle", FALSE)

(* recordProviderFailure, for a target of a combo.  The last canExecute is *)
(* for the log.                                                            *)
ComboFailure(c) ==
    LET x == Refresh(Without(b, c))
        y == OnFailure(x, NoKind)
    IN  /\ call[c].pc # "idle"
        /\ b' = IF Admits(x) THEN Refresh(y) ELSE x
        /\ db' = IF Admits(x) THEN RefreshedDb(y, FailureDb(x, Persist(x), NoKind)) ELSE Persist(x)
        /\ Become(c, "idle", FALSE)

(* A request ends without a word about the provider (a client error, an    *)
(* abort), or tries another account.                                       *)
Unreported(c) ==
    /\ call[c].pc # "idle"
    /\ b' = Without(b, c)
    /\ UNCHANGED db
    /\ \/ Become(c, "idle", FALSE)
       \/ call[c].pc = "running" /\ c \notin Forced /\ Become(c, "gated", FALSE)

(* POST /api/resilience/reset.                                             *)
Reset ==
    /\ b' = Cleared(b) /\ db' = Persist(b')
    /\ UNCHANGED call

(* The process restarts and restores the breaker.                          *)
Restart ==
    /\ b' = Restored(db)
    /\ call' = [c \in Calls |-> Idle]
    /\ UNCHANGED db

Tick ==
    /\ b' = [b EXCEPT !.since = AtMost(@ + 1, MaxTicks),
                      !.leased = IF @ = NoTime THEN @ ELSE AtMost(@ + 1, ResetTimeout)]
    /\ db' = [db EXCEPT !.since = AtMost(@ + 1, MaxTicks)]
    /\ UNCHANGED call

Next ==
    \/ Look
    \/ \E c \in Calls :
          \/ Gate(c) \/ Bypass(c) \/ Execute(c) \/ Settle(c)
          \/ ChatSuccess(c) \/ ChatFailure(c) \/ ComboSuccess(c) \/ ComboFailure(c)
          \/ Unreported(c)
    \/ Reset
    \/ Restart
    \/ Tick

Spec == Init /\ [][Next]_vars

(* Time passes.                                                            *)
FairSpec == Spec /\ WF_vars(Tick)

-----------------------------------------------------------------------------
(* No more requests test a half-open provider under the current generation *)
(* than halfOpenRequests, whatever probes expired, were retried or settled *)
(* late, and no call counts as a probe of a breaker that is not half-open. *)
ProbesBounded ==
    /\ \A c \in b.probes : call[c].pc = "running" /\ call[c].probe
    /\ b.state # "HALF_OPEN" => b.probes = {}
    /\ b.state = "HALF_OPEN" => Cardinality(b.probes) + b.allowed <= HalfOpenRequests

(* A half-open breaker without a free slot has the start of a probe on     *)
(* record: the lease will run out, also when the probe never settles or    *)
(* nobody reports its outcome.                                             *)
ProbeRenewable ==
    b.state = "HALF_OPEN" /\ b.allowed = 0 => b.leased # NoTime

(* The slots of half-open probes are never exceeded and never lost.        *)
ProbesSound == ProbesBounded /\ ProbeRenewable

(* A breaker that lets everyone pass is below the threshold and carries no *)
(* escalation over from an earlier outage, in memory and after a restart.  *)
HealthyIsClean ==
    \A x \in {b, db} : x.state \in {"CLOSED", "DEGRADED"} =>
        x.cycles = 0 /\ x.failures < FailureThreshold

(* A restart at any moment finds the circuit as it was.                    *)
RestartKeepsCircuit == db = Persist(b)

Blocked == ~Admits(Refresh(b))

(* A circuit that blocks lets a request through again after a while, if    *)
(* forced connections stop failing on it: no lost probe, late failure or   *)
(* restart closes a provider for good.                                     *)
BlockEnds ==
    <>[](\A c \in Forced : call[c] = Idle) => (Blocked ~> ~Blocked)
=============================================================================
