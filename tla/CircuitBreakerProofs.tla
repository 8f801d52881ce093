------------------------ MODULE CircuitBreakerProofs ------------------------
(* Proofs, for any number of requests and any configuration of the         *)
(* breaker, that its probes stay bounded and renewable, that a circuit     *)
(* which lets requests pass carries nothing over, and that a restart finds *)
(* the circuit as it was when no kind has a threshold of its own.          *)
EXTENDS CircuitBreaker, FiniteSetTheorems, TLAPS

(* What every operation of the breaker preserves, for the breaker x.       *)
Clean(x) == x.state \in {"CLOSED", "DEGRADED"} => x.cycles = 0 /\ x.failures < FailureThreshold

Slots(x) ==
    /\ x.state # "HALF_OPEN" => x.probes = {}
    /\ x.state = "HALF_OPEN" => Cardinality(x.probes) + x.allowed <= HalfOpenRequests

Renewable(x) == x.state = "HALF_OPEN" /\ x.allowed = 0 => x.leased # NoTime

Good(x) == x \in Breaker /\ Clean(x) /\ Slots(x) /\ Renewable(x)

GoodDb(d) == d \in Saved /\ Clean(d)

ProbesRun == \A c \in b.probes : call[c].pc = "running" /\ call[c].probe

(* The inductive invariant.                                                *)
IInv == Good(b) /\ GoodDb(db) /\ call \in [Calls -> Call] /\ ProbesRun

-----------------------------------------------------------------------------
(* The parameters used below.                                              *)
LEMMA Slack ==
    /\ HalfOpenRequests \in Nat \ {0} /\ HalfOpenRequests \in 0..HalfOpenRequests
    /\ FailureThreshold \in Nat \ {0} /\ DegradationThreshold \in Nat
    /\ ResetTimeout \in Nat /\ 0 \in 0..ResetTimeout /\ NoTime \notin 0..ResetTimeout
    /\ MaxCycles \in Nat /\ 0 \in 0..MaxCycles /\ MaxTicks \in Nat
    /\ MaxTicks \in 0..MaxTicks /\ 0 \in 0..MaxTicks
  BY BreakerAssumption

(* What _transition does to each field.                                    *)
LEMMA TransitionFields ==
    ASSUME NEW x \in Breaker, NEW s \in States
    PROVE  /\ Transition(x, s) \in Breaker
           /\ Transition(x, s).state = s /\ Transition(x, s).probes = {}
           /\ Transition(x, s).leased = NoTime
           /\ Transition(x, s).allowed = IF s = "HALF_OPEN" THEN HalfOpenRequests ELSE x.allowed
           /\ Transition(x, s).failures = x.failures /\ Transition(x, s).cycles = x.cycles
  BY Slack DEF Transition, Breaker

(* A breaker without probes that is not half-open, or has all its slots.   *)
LEMMA NoProbesGood ==
    ASSUME NEW x \in Breaker, Clean(x), x.probes = {},
           x.state = "HALF_OPEN" => x.allowed = HalfOpenRequests
    PROVE  Good(x)
<1>1. Cardinality({}) = 0
  BY FS_EmptySet
<1>2. HalfOpenRequests \in Nat \ {0} /\ x.allowed \in 0..HalfOpenRequests
  BY BreakerAssumption DEF Breaker
<1>3. Slots(x)
  BY <1>1, <1>2 DEF Slots
<1>4. Renewable(x)
  BY <1>2 DEF Renewable
<1> QED
  BY <1>3, <1>4 DEF Good

(* _refreshOpenState.                                                      *)
LEMMA RefreshGood ==
    ASSUME NEW x, Good(x)
    PROVE  Good(Refresh(x)) /\ Refresh(x).probes \subseteq x.probes
<1> USE DEF Good
<1>1. CASE x.state = "OPEN" /\ x.since >= Cooldown(x)
  <2>1. Refresh(x) = Transition(x, "HALF_OPEN")
    BY <1>1 DEF Refresh
  <2>2. /\ Transition(x, "HALF_OPEN") \in Breaker
        /\ Transition(x, "HALF_OPEN").state = "HALF_OPEN"
        /\ Transition(x, "HALF_OPEN").probes = {}
        /\ Transition(x, "HALF_OPEN").allowed = HalfOpenRequests
    BY TransitionFields DEF States
  <2> QED
    BY <2>1, <2>2, NoProbesGood DEF Clean
<1>2. CASE ~(x.state = "OPEN" /\ x.since >= Cooldown(x)) /\ LeaseOver(x)
  <2> DEFINE y == [x EXCEPT !.allowed = HalfOpenRequests, !.leased = NoTime, !.probes = {}]
  <2>1. Refresh(x) = y
    BY <1>2 DEF Refresh
  <2>2. y \in Breaker /\ y.state = "HALF_OPEN" /\ y.probes = {} /\ y.allowed = HalfOpenRequests
    <3>1. x \in Breaker /\ x.state = "HALF_OPEN"
      BY <1>2 DEF LeaseOver
    <3> QED
      BY <3>1, Slack DEF Breaker
  <2> HIDE DEF y
  <2> QED
    BY <2>1, <2>2, NoProbesGood DEF Clean
<1>3. CASE ~(x.state = "OPEN" /\ x.since >= Cooldown(x)) /\ ~LeaseOver(x)
  BY <1>3 DEF Refresh
<1> QED
  BY <1>1, <1>2, <1>3

(* The end of a call.                                                      *)
LEMMA WithoutGood ==
    ASSUME NEW x, Good(x), NEW c \in Calls
    PROVE  Good(Without(x, c)) /\ Without(x, c).probes = x.probes \ {c}
<1> DEFINE y == Without(x, c)
<1>1. /\ y \in Breaker /\ y.probes = x.probes \ {c}
      /\ y.state = x.state /\ y.allowed = x.allowed /\ y.leased = x.leased
      /\ y.cycles = x.cycles /\ y.failures = x.failures
  BY DEF Without, Good, Breaker
<1> HIDE DEF y
<1>2. IsFiniteSet(x.probes)
  BY BreakerAssumption, FS_Subset DEF Good, Breaker
<1>3. /\ Cardinality(y.probes) \in Nat /\ Cardinality(x.probes) \in Nat
      /\ Cardinality(y.probes) <= Cardinality(x.probes)
  BY <1>1, <1>2, FS_Subset, FS_CardinalityType
<1>4. x.allowed \in Nat /\ HalfOpenRequests \in Nat
  BY BreakerAssumption DEF Good, Breaker
<1>5. Slots(y)
  <2>1. CASE x.state # "HALF_OPEN"
    BY <2>1, <1>1 DEF Good, Slots
  <2>2. CASE x.state = "HALF_OPEN"
    <3>1. Cardinality(x.probes) + x.allowed <= HalfOpenRequests
      BY <2>2 DEF Good, Slots
    <3>2. Cardinality(y.probes) + y.allowed <= HalfOpenRequests
      BY <3>1, <1>1, <1>3, <1>4
    <3> QED
      BY <3>2, <2>2, <1>1 DEF Slots
  <2> QED
    BY <2>1, <2>2
<1>6. Clean(y) /\ Renewable(y)
  BY <1>1 DEF Good, Clean, Renewable
<1> QED
  BY <1>1, <1>5, <1>6 DEF Good, y

(* A half-open breaker with a free slot admits a probe.                    *)
LEMMA ProbeGood ==
    ASSUME NEW x, Good(x), NEW c \in Calls, x.state = "HALF_OPEN", x.allowed > 0
    PROVE  Good(Probe(x, c)) /\ Probe(x, c).probes = x.probes \cup {c}
<1> DEFINE y == Probe(x, c)
<1>1. x \in Breaker /\ x.allowed \in 0..HalfOpenRequests /\ HalfOpenRequests \in Nat \ {0}
  BY Slack DEF Good, Breaker
<1>2. /\ y \in Breaker /\ y.probes = x.probes \cup {c}
      /\ y.state = x.state /\ y.allowed = x.allowed - 1 /\ y.leased # NoTime
      /\ y.cycles = x.cycles /\ y.failures = x.failures
  <2>1. x.allowed - 1 \in 0..HalfOpenRequests
    BY <1>1
  <2>2. x.leased \in (0..ResetTimeout) \cup {NoTime} /\ x.probes \cup {c} \in SUBSET Calls
    BY <1>1 DEF Breaker
  <2> QED
    BY <1>1, <2>1, <2>2, Slack DEF Probe, Breaker
<1> HIDE DEF y
<1>3. IsFiniteSet(x.probes) /\ IsFiniteSet(y.probes)
  BY <1>2, BreakerAssumption, FS_Subset DEF Good, Breaker
<1>4. /\ Cardinality(y.probes) \in Nat /\ Cardinality(x.probes) \in Nat
      /\ Cardinality(y.probes) <= Cardinality(x.probes) + 1
  <2>1. CASE c \in x.probes
    <3>1. y.probes = x.probes
      BY <2>1, <1>2
    <3> QED
      BY <3>1, <1>3, FS_CardinalityType
  <2>2. CASE c \notin x.probes
    <3>1. Cardinality(x.probes \cup {c}) = Cardinality(x.probes) + 1
      BY <2>2, <1>3, FS_AddElement
    <3> QED
      BY <3>1, <1>2, <1>3, FS_CardinalityType
  <2> QED
    BY <2>1, <2>2
<1>5. Cardinality(x.probes) + x.allowed <= HalfOpenRequests
  BY DEF Good, Slots
<1>6. Cardinality(y.probes) + y.allowed <= HalfOpenRequests
  BY <1>1, <1>2, <1>4, <1>5
<1>7. Slots(y) /\ Clean(y) /\ Renewable(y)
  BY <1>2, <1>6 DEF Slots, Clean, Renewable
<1> QED
  BY <1>2, <1>7 DEF Good, y

(* _onSuccess.                                                             *)
LEMMA OnSuccessGood ==
    ASSUME NEW x, Good(x)
    PROVE  Good(OnSuccess(x)) /\ OnSuccess(x).probes \subseteq x.probes
<1> DEFINE y == OnSuccess(x)
           fewer == IF x.failures = 0 THEN 0 ELSE x.failures - 1
           t == Transition(x, "CLOSED")
<1>1. x \in Breaker /\ FailureThreshold \in Nat \ {0} /\ x.failures \in 0..FailureThreshold
  BY BreakerAssumption DEF Good, Breaker
<1>2. fewer \in 0..FailureThreshold /\ fewer < FailureThreshold
  BY <1>1
<1>3. /\ t \in Breaker /\ t.state = "CLOSED" /\ t.probes = {} /\ t.cycles = x.cycles
  BY <1>1, TransitionFields DEF States
<1>c. NoCounts \in Counts /\ MaxTicks \in 0..MaxTicks /\ 0 \in 0..MaxCycles
  BY BreakerAssumption DEF NoCounts, Counts
<1>4. CASE x.state \in {"OPEN", "HALF_OPEN"}
  <2>1. y = [t EXCEPT !.failures = 0, !.kind = NoKind, !.cycles = 0, !.counts = NoCounts,
                      !.since = IF x.state = "OPEN" THEN MaxTicks ELSE @]
    BY <1>4 DEF OnSuccess
  <2> HIDE DEF y, t
  <2>2. y \in Breaker /\ y.state = "CLOSED" /\ y.probes = {} /\ y.cycles = 0 /\ y.failures = 0
    <3>1. t.since \in 0..MaxTicks /\ 0 \in 0..FailureThreshold
      BY <1>1, <1>3 DEF Breaker
    <3>2. (IF x.state = "OPEN" THEN MaxTicks ELSE t.since) \in 0..MaxTicks
      BY <3>1, <1>c
    <3> QED
      BY <2>1, <3>1, <3>2, <1>3, <1>c DEF Breaker
  <2> QED
    BY <2>2, <1>1, NoProbesGood DEF Clean, y
<1>5. CASE x.state = "DEGRADED" /\ fewer <= DegradationThreshold
  <2>1. y = [t EXCEPT !.failures = fewer]
    BY <1>5 DEF OnSuccess
  <2>2. x.cycles = 0
    BY <1>5 DEF Good, Clean
  <2> HIDE DEF y, t, fewer
  <2>3. y \in Breaker /\ y.state = "CLOSED" /\ y.probes = {} /\ y.cycles = 0 /\ y.failures = fewer
    BY <2>1, <2>2, <1>1, <1>2, <1>3 DEF Breaker
  <2> QED
    BY <2>3, <1>2, NoProbesGood DEF Clean, y
<1>6. CASE ~(x.state \in {"OPEN", "HALF_OPEN"}) /\ ~(x.state = "DEGRADED" /\ fewer <= DegradationThreshold)
  <2>1. y = [x EXCEPT !.failures = fewer]
    BY <1>6 DEF OnSuccess
  <2>2. x.cycles = 0 /\ x.probes = {} /\ x.state \in {"CLOSED", "DEGRADED"}
    BY <1>6, <1>1 DEF Good, Clean, Slots, Breaker, States
  <2> HIDE DEF y, fewer
  <2>3. y \in Breaker /\ y.state = x.state /\ y.probes = {} /\ y.cycles = 0 /\ y.failures = fewer
    BY <2>1, <2>2, <1>1, <1>2 DEF Breaker
  <2> QED
    BY <2>2, <2>3, <1>2, NoProbesGood DEF Clean, y
<1> QED
  BY <1>4, <1>5, <1>6

(* The counting of _onFailure.                                             *)
LEMMA CountedFields ==
    ASSUME NEW x, Good(x), NEW k \in Kinds \cup {NoKind}
    PROVE  /\ Counted(x, k) \in Breaker
           /\ Counted(x, k).state = x.state /\ Counted(x, k).cycles = x.cycles
           /\ Counted(x, k).probes = x.probes /\ Counted(x, k).allowed = x.allowed
           /\ Counted(x, k).leased = x.leased
<1>1. x \in Breaker /\ x.counts \in Counts /\ x.failures \in 0..FailureThreshold
  BY DEF Good, Breaker
<1>2. AtMost(x.failures + 1, FailureThreshold) \in 0..FailureThreshold
  BY <1>1, Slack DEF AtMost
<1> DEFINE n == [j \in DOMAIN x.counts |->
                    IF j = k THEN AtMost(x.counts[j] + 1, KindThreshold[j]) ELSE x.counts[j]]
<1>3. n \in Counts
  <2>1. DOMAIN x.counts = DOMAIN KindThreshold /\ \A j \in DOMAIN KindThreshold : x.counts[j] \in Nat
    BY <1>1 DEF Counts
  <2>2. \A j \in DOMAIN KindThreshold : KindThreshold[j] \in Nat
    BY BreakerAssumption
  <2>3. \A j \in DOMAIN KindThreshold : AtMost(x.counts[j] + 1, KindThreshold[j]) \in Nat
    BY <2>1, <2>2 DEF AtMost
  <2> QED
    BY <2>1, <2>3 DEF Counts
<1>4. Counted(x, k) = [x EXCEPT !.failures = AtMost(@ + 1, FailureThreshold), !.since = 0, !.kind = k,
                                !.counts = n]
  BY DEF Counted
<1> HIDE DEF n
<1> QED
  BY <1>1, <1>2, <1>3, <1>4, Slack DEF Breaker

(* _onFailure.                                                             *)
LEMMA OnFailureGood ==
    ASSUME NEW x, Good(x), NEW k \in Kinds \cup {NoKind}
    PROVE  Good(OnFailure(x, k)) /\ OnFailure(x, k).probes \subseteq x.probes
<1> DEFINE y == OnFailure(x, k)
           n == Counted(x, k)
           o == Transition(n, "OPEN")
           d == Transition(n, "DEGRADED")
<1>1. /\ n \in Breaker /\ n.state = x.state /\ n.cycles = x.cycles /\ n.probes = x.probes
      /\ n.allowed = x.allowed /\ n.leased = x.leased
  BY CountedFields
<1> HIDE DEF n
<1>2. /\ o \in Breaker /\ o.state = "OPEN" /\ o.probes = {} /\ o.cycles = n.cycles
      /\ d \in Breaker /\ d.state = "DEGRADED" /\ d.probes = {} /\ d.cycles = n.cycles
      /\ d.failures = n.failures
  BY <1>1, TransitionFields DEF States
<1> HIDE DEF o, d
<1>3. x.state \in States /\ n.failures \in 0..FailureThreshold /\ n.cycles \in 0..MaxCycles
  BY <1>1 DEF Good, Breaker
<1>4. CASE y = o
  BY <1>2, <1>4, NoProbesGood DEF Clean
<1>5. CASE y = [o EXCEPT !.cycles = AtMost(@ + 1, MaxCycles)]
  <2>1. AtMost(o.cycles + 1, MaxCycles) \in 0..MaxCycles
    BY <1>2, <1>3, Slack DEF AtMost
  <2> HIDE DEF y
  <2>2. y \in Breaker /\ y.state = "OPEN" /\ y.probes = {}
    BY <2>1, <1>2, <1>5 DEF Breaker
  <2> QED
    BY <2>2, NoProbesGood DEF Clean, y
<1>6. CASE y = d /\ x.state = "CLOSED" /\ n.failures < FailureThreshold
  <2>1. x.cycles = 0
    BY <1>6 DEF Good, Clean
  <2> HIDE DEF y
  <2>2. Clean(y)
    BY <2>1, <1>1, <1>2, <1>6 DEF Clean
  <2> QED
    BY <2>2, <1>2, <1>6, NoProbesGood DEF y
<1>7. CASE y = n /\ (x.state \in {"CLOSED", "DEGRADED"} => n.failures < FailureThreshold)
                 /\ x.state # "HALF_OPEN"
  <2> HIDE DEF y
  <2>1. Clean(y)
    BY <1>1, <1>7 DEF Good, Clean
  <2>2. y.probes = {} /\ x.probes = {} /\ y.state # "HALF_OPEN"
    BY <1>1, <1>7 DEF Good, Slots
  <2> QED
    BY <2>1, <2>2, <1>1, <1>7, NoProbesGood DEF y
<1>8. \/ y = o \/ y = [o EXCEPT !.cycles = AtMost(@ + 1, MaxCycles)]
      \/ y = d /\ x.state = "CLOSED" /\ n.failures < FailureThreshold
      \/ y = n /\ (x.state \in {"CLOSED", "DEGRADED"} => n.failures < FailureThreshold)
               /\ x.state # "HALF_OPEN"
  <2>1. CASE KindTrips(x, k)
    BY <2>1 DEF OnFailure, n, o
  <2>2. CASE ~KindTrips(x, k) /\ x.state = "OPEN"
    BY <2>2 DEF OnFailure, n
  <2>3. CASE ~KindTrips(x, k) /\ x.state = "HALF_OPEN"
    BY <2>3 DEF OnFailure, n, o
  <2>4. CASE ~KindTrips(x, k) /\ x.state \in {"CLOSED", "DEGRADED"} /\ n.failures >= FailureThreshold
    <3>0. ~(n.failures < FailureThreshold)
      BY <2>4, <1>3, Slack
    <3>1. CASE x.state = "CLOSED"
      BY <3>0, <3>1, <2>4 DEF OnFailure, n, o
    <3>2. CASE x.state = "DEGRADED"
      BY <3>2, <2>4 DEF OnFailure, n, o
    <3> QED
      BY <3>1, <3>2, <2>4
  <2>5. CASE ~KindTrips(x, k) /\ x.state \in {"CLOSED", "DEGRADED"} /\ ~(n.failures >= FailureThreshold)
    <3>1. n.failures < FailureThreshold
      BY <2>5, <1>3, Slack
    <3>2. y = n \/ (y = d /\ x.state = "CLOSED")
      BY <2>5, <3>1 DEF OnFailure, n, d
    <3> QED
      BY <3>1, <3>2, <2>5
  <2> QED
    BY <2>1, <2>2, <2>3, <2>4, <2>5, <1>3 DEF States
<1> QED
  BY <1>4, <1>5, <1>6, <1>7, <1>8

(* reset().                                                                *)
LEMMA ClearedGood ==
    ASSUME NEW x, Good(x)
    PROVE  Good(Cleared(x)) /\ Cleared(x).probes = {}
<1> DEFINE t == Transition(x, "CLOSED")
           y == Cleared(x)
<1>1. x \in Breaker
  BY DEF Good
<1>2. t \in Breaker /\ t.state = "CLOSED" /\ t.probes = {}
  BY <1>1, TransitionFields DEF States
<1>3. y = [t EXCEPT !.failures = 0, !.since = MaxTicks, !.kind = NoKind, !.cycles = 0, !.counts = NoCounts]
  BY DEF Cleared
<1>4. NoCounts \in Counts
  BY DEF NoCounts, Counts
<1> HIDE DEF t, y
<1>5. y \in Breaker /\ y.state = "CLOSED" /\ y.probes = {} /\ y.cycles = 0 /\ y.failures = 0
  <2>1. /\ 0 \in 0..FailureThreshold /\ MaxTicks \in 0..MaxTicks /\ 0 \in 0..MaxCycles
        /\ NoKind \in Kinds \cup {NoKind}
    BY Slack
  <2> QED
    BY <1>2, <1>3, <1>4, <2>1 DEF Breaker
<1> QED
  BY <1>5, Slack, NoProbesGood DEF Clean, y

(* _persistToDb and _restoreFromDb.                                        *)
LEMMA PersistGood ==
    ASSUME NEW x, Good(x)
    PROVE  GoodDb(Persist(x))
  BY DEF Good, GoodDb, Clean, Persist, Breaker, Saved

(* A restored breaker has all its slots.                                   *)
LEMMA RestoredGood ==
    ASSUME NEW d, GoodDb(d)
    PROVE  Good(Restored(d)) /\ Restored(d).probes = {}
<1> DEFINE y == Restored(d)
<1>1. /\ y \in Breaker /\ y.probes = {} /\ y.state = d.state /\ y.cycles = d.cycles
      /\ y.failures = d.failures /\ (y.state = "HALF_OPEN" => y.allowed = HalfOpenRequests)
  BY Slack DEF GoodDb, Saved, Restored, Breaker
<1> HIDE DEF y
<1>2. Clean(y)
  BY <1>1 DEF GoodDb, Clean
<1> QED
  BY <1>1, <1>2, NoProbesGood DEF y

(* The row after a refresh, and after a failure.                           *)
LEMMA DbGood ==
    ASSUME NEW x, Good(x), NEW d, GoodDb(d), NEW k \in Kinds \cup {NoKind}
    PROVE  GoodDb(RefreshedDb(x, d)) /\ GoodDb(FailureDb(x, d, k))
  BY RefreshGood, OnFailureGood, PersistGood DEF RefreshedDb, FailureDb

-----------------------------------------------------------------------------
(* The calls after a step of call c whose breaker y keeps only probes of   *)
(* other calls.                                                            *)
LEMMA EndedCall ==
    ASSUME IInv, NEW c \in Calls, NEW pc \in {"idle", "gated", "running"}, NEW p \in BOOLEAN,
           Become(c, pc, p), b'.probes \subseteq b.probes, c \notin b'.probes
    PROVE  call' \in [Calls -> Call] /\ ProbesRun'
<1>1. [pc |-> pc, probe |-> p] \in Call
  BY DEF Call
<1>2. call' \in [Calls -> Call] /\ \A e \in Calls : e # c => call'[e] = call[e]
  BY <1>1 DEF IInv, Become
<1>3. b.probes \subseteq Calls
  BY DEF IInv, Good, Breaker
<1> QED
  BY <1>2, <1>3 DEF ProbesRun, IInv

(* A call that is not running is no probe.                                 *)
LEMMA NotProbe ==
    ASSUME IInv, NEW c \in Calls, call[c].pc # "running"
    PROVE  c \notin b.probes
  BY DEF IInv, ProbesRun

(* Every step preserves the invariant.                                     *)
LEMMA NextIInv == IInv /\ [Next]_vars => IInv'
<1> SUFFICES ASSUME IInv, [Next]_vars PROVE IInv'
  OBVIOUS
<1>0. Good(b) /\ GoodDb(db) /\ call \in [Calls -> Call] /\ ProbesRun
  BY DEF IInv
<1>r. /\ Good(Refresh(b)) /\ Refresh(b).probes \subseteq b.probes
      /\ GoodDb(RefreshedDb(b, db)) /\ GoodDb(Persist(Refresh(b)))
  <2>1. NoKind \in Kinds \cup {NoKind}
    OBVIOUS
  <2> QED
    BY <1>0, <2>1, RefreshGood, DbGood, PersistGood
<1>i. Idle.pc = "idle" /\ Idle \in Call
  BY DEF Idle, Call
<1>u. CASE UNCHANGED vars
  BY <1>u, <1>0 DEF IInv, vars, ProbesRun
<1>1. CASE Look
  BY <1>1, <1>0, <1>r DEF Look, IInv, ProbesRun
<1>2. ASSUME NEW c \in Calls, Gate(c) PROVE IInv'
  <2>1. b' = Refresh(b) /\ db' = Persist(Refresh(b)) /\ Become(c, "gated", FALSE) /\ call[c].pc = "idle"
    BY <1>2, <1>i DEF Gate
  <2>2. c \notin b'.probes /\ b'.probes \subseteq b.probes
    BY <2>1, <1>r, NotProbe
  <2>3. call' \in [Calls -> Call] /\ ProbesRun'
    BY <2>1, <2>2, EndedCall
  <2> QED
    BY <2>1, <2>3, <1>r DEF IInv
<1>3. ASSUME NEW c \in Calls, Bypass(c) PROVE IInv'
  <2>1. b' = Refresh(b) /\ db' = Persist(Refresh(b)) /\ Become(c, "running", FALSE) /\ call[c].pc = "idle"
    BY <1>3, <1>i DEF Bypass
  <2>2. c \notin b'.probes /\ b'.probes \subseteq b.probes
    BY <2>1, <1>r, NotProbe
  <2>3. call' \in [Calls -> Call] /\ ProbesRun'
    BY <2>1, <2>2, EndedCall
  <2> QED
    BY <2>1, <2>3, <1>r DEF IInv
<1>4. ASSUME NEW c \in Calls, Execute(c) PROVE IInv'
  <2> DEFINE x == Refresh(b)
  <2>1. /\ call[c].pc = "gated" /\ db' = RefreshedDb(b, db)
        /\ \/ b' = x /\ UNCHANGED call
           \/ b' = x /\ Become(c, "running", FALSE)
           \/ /\ Admits(x) /\ x.state = "HALF_OPEN"
              /\ b' = Probe(x, c) /\ Become(c, "running", TRUE)
    BY <1>4 DEF Execute
  <2>2. c \notin x.probes
    BY <2>1, <1>r, NotProbe
  <2> HIDE DEF x
  <2>3. Good(x) /\ x.probes \subseteq b.probes
    BY <1>r DEF x
  <2>4. CASE b' = x /\ UNCHANGED call
    BY <2>1, <2>3, <2>4, <1>0, <1>r DEF IInv, ProbesRun
  <2>5. CASE b' = x /\ Become(c, "running", FALSE)
    <3>1. call' \in [Calls -> Call] /\ ProbesRun'
      BY <2>2, <2>3, <2>5, EndedCall
    <3> QED
      BY <2>1, <2>3, <2>5, <3>1, <1>r DEF IInv
  <2>6. CASE /\ Admits(x) /\ x.state = "HALF_OPEN"
             /\ b' = Probe(x, c) /\ Become(c, "running", TRUE)
    <3>1. x.allowed > 0
      BY <2>6 DEF Admits
    <3>2. Good(b') /\ b'.probes = x.probes \cup {c}
      BY <2>3, <2>6, <3>1, ProbeGood
    <3>3. /\ call' \in [Calls -> Call] /\ call'[c] = [pc |-> "running", probe |-> TRUE]
          /\ \A e \in Calls : e # c => call'[e] = call[e]
      BY <2>6, <1>0 DEF Become, Call
    <3>4. b.probes \subseteq Calls
      BY <1>0 DEF Good, Breaker
    <3>5. ProbesRun'
      BY <3>2, <3>3, <3>4, <2>3, <1>0 DEF ProbesRun
    <3> QED
      BY <2>1, <3>2, <3>3, <3>5, <1>r DEF IInv
  <2> QED
    BY <2>1, <2>4, <2>5, <2>6
<1>w. ASSUME NEW c \in Calls
      PROVE  /\ Good(Without(b, c)) /\ Without(b, c).probes = b.probes \ {c}
             /\ Persist(Without(b, c)) = Persist(b)
             /\ Good(Refresh(Without(b, c))) /\ Refresh(Without(b, c)).probes \subseteq b.probes \ {c}
  <2>1. Good(Without(b, c)) /\ Without(b, c).probes = b.probes \ {c}
    BY <1>0, WithoutGood
  <2>2. Persist(Without(b, c)) = Persist(b)
    BY <1>0 DEF Persist, Without, Good, Breaker
  <2> QED
    BY <2>1, <2>2, RefreshGood
<1>e. ASSUME NEW c \in Calls, NEW pc \in {"idle", "gated"}, Become(c, pc, FALSE),
             Good(b'), GoodDb(db'), b'.probes \subseteq b.probes \ {c}
      PROVE  IInv'
  BY <1>e, EndedCall DEF IInv
<1>5. ASSUME NEW c \in Calls, Settle(c) PROVE IInv'
  <2>1. Become(c, "idle", FALSE)
    BY <1>5 DEF Settle
  <2>2. CASE call[c].probe /\ c \notin b.probes /\ UNCHANGED <<b, db>>
    BY <2>1, <2>2, <1>0, <1>e
  <2>3. CASE b' = OnSuccess(Without(b, c)) /\ db' = Persist(b')
    <3>1. Good(b') /\ b'.probes \subseteq b.probes \ {c}
      BY <2>3, <1>w, OnSuccessGood
    <3>2. GoodDb(db')
      BY <2>3, <3>1, PersistGood
    <3> QED
      BY <2>1, <3>1, <3>2, <1>e
  <2>4. CASE \E k \in Kinds \cup {NoKind} :
                b' = OnFailure(Without(b, c), k) /\ db' = FailureDb(Without(b, c), db, k)
    <3>1. Good(b') /\ b'.probes \subseteq b.probes \ {c}
      BY <2>4, <1>w, OnFailureGood
    <3>2. GoodDb(db')
      BY <2>4, <1>0, <1>w, DbGood
    <3> QED
      BY <2>1, <3>1, <3>2, <1>e
  <2> QED
    BY <1>5, <2>2, <2>3, <2>4 DEF Settle
<1>6. ASSUME NEW c \in Calls, ChatSuccess(c) PROVE IInv'
  <2>1. Become(c, "idle", FALSE) /\ b' = OnSuccess(Without(b, c)) /\ db' = Persist(b')
    BY <1>6 DEF ChatSuccess
  <2>2. Good(b') /\ b'.probes \subseteq b.probes \ {c}
    BY <2>1, <1>w, OnSuccessGood
  <2>3. GoodDb(db')
    BY <2>1, <2>2, PersistGood
  <2> QED
    BY <2>1, <2>2, <2>3, <1>e
<1>7. ASSUME NEW c \in Calls, ChatFailure(c) PROVE IInv'
  <2>1. /\ Become(c, "idle", FALSE) /\ b' = OnFailure(Without(b, c), NoKind)
        /\ db' = FailureDb(Without(b, c), db, NoKind) /\ NoKind \in Kinds \cup {NoKind}
    BY <1>7 DEF ChatFailure
  <2>2. Good(b') /\ b'.probes \subseteq b.probes \ {c}
    BY <2>1, <1>w, OnFailureGood
  <2>3. GoodDb(db')
    BY <2>1, <1>0, <1>w, DbGood
  <2> QED
    BY <2>1, <2>2, <2>3, <1>e
<1>8. ASSUME NEW c \in Calls, ComboSuccess(c) PROVE IInv'
  <2> DEFINE x == Refresh(Without(b, c))
  <2>1. /\ Become(c, "idle", FALSE) /\ b' = IF x.state = "OPEN" THEN x ELSE OnSuccess(x)
        /\ db' = IF x.state = "OPEN" THEN RefreshedDb(Without(b, c), db) ELSE Persist(b')
    BY <1>8 DEF ComboSuccess
  <2>2. Good(x) /\ x.probes \subseteq b.probes \ {c} /\ GoodDb(RefreshedDb(Without(b, c), db))
    <3>1. NoKind \in Kinds \cup {NoKind}
      OBVIOUS
    <3> QED
      BY <3>1, <1>0, <1>w, DbGood
  <2> HIDE DEF x
  <2>3. Good(b') /\ b'.probes \subseteq b.probes \ {c}
    BY <2>1, <2>2, OnSuccessGood
  <2>4. GoodDb(db')
    BY <2>1, <2>2, <2>3, PersistGood
  <2> QED
    BY <2>1, <2>3, <2>4, <1>e
<1>9. ASSUME NEW c \in Calls, ComboFailure(c) PROVE IInv'
  <2> DEFINE x == Refresh(Without(b, c))
             y == OnFailure(x, NoKind)
             d == FailureDb(x, Persist(x), NoKind)
  <2>1. /\ Become(c, "idle", FALSE)
        /\ b' = IF Admits(x) THEN Refresh(y) ELSE x
        /\ db' = IF Admits(x) THEN RefreshedDb(y, d) ELSE Persist(x)
    BY <1>9 DEF ComboFailure
  <2>2. Good(x) /\ x.probes \subseteq b.probes \ {c} /\ NoKind \in Kinds \cup {NoKind}
    BY <1>w
  <2> HIDE DEF x
  <2>3. Good(y) /\ y.probes \subseteq b.probes \ {c}
    BY <2>2, OnFailureGood
  <2>4. GoodDb(Persist(x))
    BY <2>2, PersistGood
  <2>5. GoodDb(d)
    BY <2>2, <2>4, DbGood
  <2> HIDE DEF y, d
  <2>6. Good(Refresh(y)) /\ Refresh(y).probes \subseteq b.probes \ {c} /\ GoodDb(RefreshedDb(y, d))
    BY <2>2, <2>3, <2>5, RefreshGood, DbGood
  <2> QED
    BY <2>1, <2>2, <2>4, <2>6, <1>e
<1>10. ASSUME NEW c \in Calls, Unreported(c) PROVE IInv'
  <2>1. /\ b' = Without(b, c) /\ db' = db
        /\ Become(c, "idle", FALSE) \/ Become(c, "gated", FALSE)
    BY <1>10 DEF Unreported
  <2>2. Good(b') /\ GoodDb(db') /\ b'.probes \subseteq b.probes \ {c}
    BY <2>1, <1>0, <1>w
  <2> QED
    BY <2>1, <2>2, <1>e
<1>11. CASE Reset
  <2>1. Good(b') /\ b'.probes = {} /\ call' = call
    BY <1>11, <1>0, ClearedGood DEF Reset
  <2>2. GoodDb(db')
    BY <1>11, <2>1, PersistGood DEF Reset
  <2> QED
    BY <2>1, <2>2, <1>0 DEF IInv, ProbesRun
<1>12. CASE Restart
  <2>1. Good(b') /\ b'.probes = {} /\ db' = db
    BY <1>12, <1>0, RestoredGood DEF Restart
  <2>2. call' \in [Calls -> Call]
    BY <1>12, <1>i DEF Restart
  <2> QED
    BY <2>1, <2>2, <1>0 DEF IInv, ProbesRun
<1>13. CASE Tick
  <2>1. b \in Breaker /\ db \in Saved
    BY <1>0 DEF Good, GoodDb
  <2>2. AtMost(b.since + 1, MaxTicks) \in 0..MaxTicks /\ AtMost(db.since + 1, MaxTicks) \in 0..MaxTicks
    BY <2>1, Slack DEF Breaker, Saved, AtMost
  <2>3. /\ b.leased # NoTime => AtMost(b.leased + 1, ResetTimeout) \in 0..ResetTimeout
        /\ b.leased \in (0..ResetTimeout) \cup {NoTime}
    BY <2>1, Slack DEF Breaker, AtMost
  <2>4. /\ b' \in Breaker /\ b'.state = b.state /\ b'.probes = b.probes /\ b'.allowed = b.allowed
        /\ b'.cycles = b.cycles /\ b'.failures = b.failures
        /\ (b'.leased = NoTime => b.leased = NoTime)
    BY <1>13, <2>1, <2>2, <2>3, Slack DEF Tick, Breaker
  <2>5. db' \in Saved /\ db'.state = db.state /\ db'.cycles = db.cycles /\ db'.failures = db.failures
    BY <1>13, <2>1, <2>2 DEF Tick, Saved
  <2>6. Good(b') /\ GoodDb(db')
    BY <2>4, <2>5, <1>0 DEF Good, GoodDb, Clean, Slots, Renewable
  <2> QED
    BY <2>4, <2>6, <1>13, <1>0 DEF IInv, ProbesRun, Tick
<1> QED
  BY <1>u, <1>1, <1>2, <1>3, <1>4, <1>5, <1>6, <1>7, <1>8, <1>9, <1>10, <1>11, <1>12, <1>13 DEF Next

(* The initial breaker is good.                                            *)
LEMMA InitIInv == Init => IInv
<1> SUFFICES ASSUME Init PROVE IInv
  OBVIOUS
<1>1. NoCounts \in Counts
  BY DEF NoCounts, Counts
<1>2. b \in Breaker /\ b.probes = {} /\ b.state = "CLOSED" /\ b.cycles = 0 /\ b.failures = 0
  BY <1>1, Slack DEF Init, Breaker, States
<1>3. Good(b)
  BY <1>2, Slack, NoProbesGood DEF Clean
<1>4. GoodDb(db)
  BY <1>3, PersistGood DEF Init
<1>5. call \in [Calls -> Call] /\ ProbesRun
  BY <1>2 DEF Init, Idle, Call, ProbesRun
<1> QED
  BY <1>3, <1>4, <1>5 DEF IInv

(* The inductive invariant holds whatever the chat path, the combo path,   *)
(* forced connections, the operator and restarts do to the breaker.        *)
THEOREM BreakerInvariance == Spec => []IInv
  BY InitIInv, NextIInv, PTL DEF Spec

(* The fields of the breaker, of its row and of the calls keep their       *)
(* types: no slot count goes below zero.                                   *)
THEOREM BreakerType == Spec => []TypeOK
<1>1. IInv => TypeOK
  BY DEF IInv, TypeOK, Good, GoodDb
<1> QED
  BY <1>1, BreakerInvariance, PTL

(* However execute, the lease of _refreshOpenState and late reports        *)
(* interleave, at most halfOpenRequests calls probe the provider under the *)
(* current generation.                                                     *)
THEOREM ProbesStayBounded == Spec => []ProbesBounded
<1>1. IInv => ProbesBounded
  BY DEF IInv, ProbesBounded, ProbesRun, Good, Slots
<1> QED
  BY <1>1, BreakerInvariance, PTL

(* A half-open breaker that admits nobody always has a lease that          *)
(* _refreshOpenState ends, also after a restart in the middle of a probe.  *)
THEOREM ProbesStayRenewable == Spec => []ProbeRenewable
<1>1. IInv => ProbeRenewable
  BY DEF IInv, ProbeRenewable, Good, Renewable
<1> QED
  BY <1>1, BreakerInvariance, PTL

(* Probe slots are bounded and come back (execute, _refreshOpenState).     *)
THEOREM ProbesStaySound == Spec => []ProbesSound
<1>1. ProbesBounded /\ ProbeRenewable => ProbesSound
  BY DEF ProbesSound
<1> QED
  BY ProbesStayBounded, ProbesStayRenewable, <1>1, PTL

(* A circuit that lets requests pass, in memory or in its row, is below    *)
(* failureThreshold and has no openCycleCount of an earlier outage.        *)
THEOREM HealthyStaysClean == Spec => []HealthyIsClean
<1>1. IInv => HealthyIsClean
  BY DEF IInv, HealthyIsClean, Good, GoodDb, Clean
<1> QED
  BY <1>1, BreakerInvariance, PTL

-----------------------------------------------------------------------------
(* The row after a refresh is that of the refreshed breaker.               *)
LEMMA RefreshSaves ==
    ASSUME NEW x \in Breaker
    PROVE  RefreshedDb(x, Persist(x)) = Persist(Refresh(x))
<1>1. CASE Refresh(x).state # x.state
  BY <1>1 DEF RefreshedDb
<1>2. CASE Refresh(x).state = x.state
  <2>1. ~(x.state = "OPEN" /\ x.since >= Cooldown(x))
    <3>1. ASSUME x.state = "OPEN" /\ x.since >= Cooldown(x) PROVE FALSE
      <4>1. Refresh(x) = Transition(x, "HALF_OPEN")
        BY <3>1 DEF Refresh
      <4> QED
        BY <4>1, <3>1, <1>2, TransitionFields DEF States
    <3> QED
      BY <3>1
  <2>2. \/ Refresh(x) = x
        \/ Refresh(x) = [x EXCEPT !.allowed = HalfOpenRequests, !.leased = NoTime, !.probes = {}]
    BY <2>1 DEF Refresh
  <2>3. Persist(Refresh(x)) = Persist(x)
    BY <2>2 DEF Persist, Breaker
  <2> QED
    BY <2>3, <1>2 DEF RefreshedDb
<1> QED
  BY <1>1, <1>2

(* Without thresholds per kind, every failure is saved.                    *)
LEMMA FailureSaves ==
    ASSUME DOMAIN KindThreshold = {}, NEW x, NEW d, NEW k
    PROVE  FailureDb(x, d, k) = Persist(OnFailure(x, k))
  BY DEF FailureDb, KindTrips

(* Slots and leases are not part of the row, and the row restores itself.  *)
LEMMA PersistFields ==
    ASSUME NEW x \in Breaker, NEW d \in Saved, NEW c
    PROVE  /\ Persist(Probe(x, c)) = Persist(x)
           /\ Persist(Without(x, c)) = Persist(x)
           /\ Persist(Restored(d)) = d
  BY DEF Persist, Probe, Without, Restored, Breaker, Saved

(* Without thresholds per kind, every step keeps the row up to date.       *)
LEMMA NextSaved ==
    ASSUME DOMAIN KindThreshold = {}
    PROVE  IInv /\ RestartKeepsCircuit /\ [Next]_vars => RestartKeepsCircuit'
<1> SUFFICES ASSUME IInv, db = Persist(b), [Next]_vars PROVE db' = Persist(b')
  BY DEF RestartKeepsCircuit
<1>0. Good(b) /\ b \in Breaker /\ db \in Saved
  BY DEF IInv, Good, GoodDb
<1>r. RefreshedDb(b, db) = Persist(Refresh(b)) /\ Refresh(b) \in Breaker
  BY <1>0, RefreshSaves, RefreshGood DEF Good
<1>w. ASSUME NEW c \in Calls
      PROVE  /\ Good(Without(b, c)) /\ Without(b, c) \in Breaker
             /\ Persist(Without(b, c)) = db
             /\ RefreshedDb(Without(b, c), db) = Persist(Refresh(Without(b, c)))
  BY <1>0, WithoutGood, PersistFields, RefreshSaves DEF Good
<1>u. CASE UNCHANGED vars
  BY <1>u DEF vars
<1>1. CASE Look
  BY <1>1, <1>r DEF Look
<1>2. ASSUME NEW c \in Calls, Gate(c) \/ Bypass(c) PROVE db' = Persist(b')
  BY <1>2 DEF Gate, Bypass
<1>3. ASSUME NEW c \in Calls, Execute(c) PROVE db' = Persist(b')
  <2>1. db' = Persist(Refresh(b)) /\ (b' = Refresh(b) \/ b' = Probe(Refresh(b), c))
    BY <1>3, <1>r DEF Execute
  <2> QED
    BY <2>1, <1>r, <1>0, PersistFields
<1>4. ASSUME NEW c \in Calls, Settle(c) \/ ChatSuccess(c) \/ ChatFailure(c) PROVE db' = Persist(b')
  BY <1>4, FailureSaves DEF Settle, ChatSuccess, ChatFailure
<1>5. ASSUME NEW c \in Calls, ComboSuccess(c) PROVE db' = Persist(b')
  BY <1>5, <1>w DEF ComboSuccess
<1>6. ASSUME NEW c \in Calls, ComboFailure(c) PROVE db' = Persist(b')
  <2> DEFINE x == Refresh(Without(b, c))
             y == OnFailure(x, NoKind)
  <2>1. /\ b' = IF Admits(x) THEN Refresh(y) ELSE x
        /\ db' = IF Admits(x) THEN RefreshedDb(y, FailureDb(x, Persist(x), NoKind)) ELSE Persist(x)
    BY <1>6 DEF ComboFailure
  <2>2. Good(x) /\ NoKind \in Kinds \cup {NoKind}
    BY <1>w, RefreshGood
  <2> HIDE DEF x
  <2>3. Good(y)
    BY <2>2, OnFailureGood
  <2>4. FailureDb(x, Persist(x), NoKind) = Persist(y)
    BY FailureSaves
  <2> HIDE DEF y
  <2>5. RefreshedDb(y, Persist(y)) = Persist(Refresh(y))
    BY <2>3, RefreshSaves DEF Good
  <2> QED
    BY <2>1, <2>4, <2>5
<1>7. ASSUME NEW c \in Calls, Unreported(c) PROVE db' = Persist(b')
  BY <1>7, <1>w DEF Unreported
<1>8. CASE Reset
  BY <1>8 DEF Reset
<1>9. CASE Restart
  BY <1>9, <1>0, PersistFields DEF Restart
<1>10. CASE Tick
  BY <1>10, <1>0 DEF Tick, Persist, Breaker, Saved
<1> QED
  BY <1>u, <1>1, <1>2, <1>3, <1>4, <1>5, <1>6, <1>7, <1>8, <1>9, <1>10 DEF Next

(* With the options that the callers of getCircuitBreaker really pass (no  *)
(* kindThresholds), a restart between any two steps finds the circuit, its *)
(* counts and its escalation as they were.                                 *)
THEOREM RestartStaysSafe ==
    ASSUME DOMAIN KindThreshold = {}
    PROVE  Spec => []RestartKeepsCircuit
<1>1. Init => RestartKeepsCircuit
  BY DEF Init, RestartKeepsCircuit
<1>2. IInv /\ RestartKeepsCircuit /\ [Next]_vars => RestartKeepsCircuit'
  BY NextSaved
<1> QED
  BY <1>1, <1>2, BreakerInvariance, PTL DEF Spec
=============================================================================
