------------------------- MODULE TokenRefreshProofs -------------------------
(* Proofs, for any number of connections, callers and refreshes, of the    *)
(* safety invariants of TokenRefresh.                                      *)
EXTENDS TokenRefresh, WaitQueueProofs, SequenceTheorems, TLAPS

-----------------------------------------------------------------------------
(* The inductive invariant.                                                *)

WorkRecs == [pc : WorkStates \ {"free"}, conn : Conns, leader : Callers, token : Tokens,
             attempted : Tokens, result : Nat \X Nat]
CallerRecs == [pc : {"loaded"}, conn : Conns, token : Tokens, attempted : Tokens]
         \cup [pc : {"waiting"}, on : Works, conn : Conns, token : Tokens, attempted : Tokens]

Typed ==
    /\ row \in [Conns -> Tokens \cup {Cleared}]
    /\ valid \subseteq Conns /\ down \subseteq Conns /\ shaken \subseteq Conns
    /\ live \in [Conns -> [1..MaxFamily -> 0..MaxRotations]]
    /\ revoked \in [Conns -> SUBSET (1..MaxFamily)]
    /\ rotation \in [Conns -> SUBSET Tokens]
    /\ mutex \in [Conns -> Works \cup {NoWork}]
    /\ lane \in Seq(Works) /\ NoDup(lane)
    /\ work \in [Works -> {Free} \cup WorkRecs]
    /\ caller \in [Callers -> {Idle} \cup CallerRecs]
    /\ left \subseteq Works

(* Whoever is between its turn and the end of its tenure heads the lane;   *)
(* a tenure that was given up shook its connection.                        *)
Lanes ==
    /\ RangeOf(lane) \cap left = {}
    /\ \A w \in left : work[w].pc \in {"posting", "answered"} /\ work[w].conn \in shaken
    /\ \A w \in RangeOf(lane) : work[w].pc \in {"queued", "posting", "answered", "settled"}
    /\ \A w \in Works : work[w].pc = "queued" => w \in RangeOf(lane)
    /\ \A w \in Works \ left : work[w].pc \in {"posting", "answered", "settled"} => Turn(w)

(* A refresh that takes neither mutex nor lane.                            *)
Outside(v) == v.pc \in {"direct", "returned"} \/ Bypasses(v.leader)

(* The mutex names a refresh of its connection, for a connection that is   *)
(* not shaken the only one; a refresh past the mutex shook its connection. *)
Joined ==
    /\ \A c \in Conns : mutex[c] # NoWork =>
          mutex[c] \notin left /\ work[mutex[c]].pc # "free" /\ work[mutex[c]].conn = c
    /\ \A w \in Works : work[w].pc # "free" /\ work[w].conn \notin shaken => mutex[work[w].conn] = w
    /\ \A w \in Works : work[w].pc # "free" /\ Outside(work[w]) => work[w].conn \in shaken

(* The token the provider would accept now, and the n-th before it.        *)
Newest(c) == <<1, live[c][1]>>
Spent(c, n) == <<1, live[c][1] - n>>

(* What the refresh v of the connection c may carry at each of its stages. *)
OnTrack(v, c) ==
    /\ v.pc \in {"queued", "posting"} => row[c] = Newest(c) /\ v.result = Failed
    /\ v.pc = "posting" => v.token = Newest(c)
    /\ v.pc = "answered" => /\ v.result = Newest(c) /\ v.token = Spent(c, 1)
                            /\ rotation[c] \subseteq {Spent(c, 2)}
    /\ v.pc # "answered" => rotation[c] \subseteq {Spent(c, 1)}
    /\ v.pc \in {"settled", "persist"} =>
          v.result = Newest(c) \/ (v.result = Failed /\ row[c] = Newest(c))

(* A connection whose refreshes all ended in time, without a new login.    *)
Steady(c) ==
    /\ revoked[c] = {}
    /\ live[c][1] \in Nat /\ live[c][1] > 0
    /\ \E j \in 1..live[c][1] : row[c] = <<1, j>>
    /\ mutex[c] = NoWork => row[c] = Newest(c) /\ rotation[c] \subseteq {Spent(c, 1)}
    /\ \A w \in Works : work[w].pc # "free" /\ work[w].conn = c => OnTrack(work[w], c)

IInv == Typed /\ Lanes /\ Joined /\ \A c \in Conns \ shaken : Steady(c)

-----------------------------------------------------------------------------
(* Facts about the records and the lane that every step needs.             *)

(* What is no token is no token.                                           *)
LEMMA NoTokens ==
    /\ Failed \notin Tokens /\ Refused \notin Tokens /\ Cleared \notin Tokens
    /\ Failed \in Nat \X Nat /\ Refused \in Nat \X Nat
    /\ Tokens \subseteq Nat \X Nat
    /\ Failed # Refused
  BY RefreshAssumption DEF Failed, Refused, Cleared, Tokens

(* The fields of the records.                                              *)
LEMMA Fields ==
    /\ Free.pc = "free" /\ Idle.pc = "idle"
    /\ \A v \in WorkRecs : /\ v.pc \in WorkStates \ {"free"} /\ v.conn \in Conns /\ v.leader \in Callers
                           /\ v.token \in Tokens /\ v.attempted \in Tokens /\ v.result \in Nat \X Nat
    /\ \A v \in CallerRecs : /\ v.pc \in {"loaded", "waiting"} /\ v.conn \in Conns
                             /\ v.token \in Tokens /\ v.attempted \in Tokens
                             /\ v.pc = "waiting" => v.on \in Works
  BY DEF Free, Idle, WorkRecs, CallerRecs

(* A refresh that is not free has a full record, a caller that is not idle *)
(* too.                                                                    *)
LEMMA Busy ==
    ASSUME Typed
    PROVE  /\ \A w \in Works : work[w].pc # "free" => work[w] \in WorkRecs
           /\ \A k \in Callers : caller[k].pc # "idle" => caller[k] \in CallerRecs
  BY Fields DEF Typed

(* Whoever stands in the lane is a refresh.                                *)
LEMMA LaneWorks == Typed => RangeOf(lane) \subseteq Works
  BY LenProperties, ElementOfSeq DEF Typed, RangeOf

(* The refresh whose turn it is stands in the lane, and the lane without   *)
(* it is the rest.                                                         *)
LEMMA LaneHead ==
    ASSUME Typed, NEW w \in Works, Turn(w)
    PROVE  /\ w \in RangeOf(lane)
           /\ Tail(lane) \in Seq(Works) /\ NoDup(Tail(lane))
           /\ RangeOf(Tail(lane)) = RangeOf(lane) \ {w}
  BY ShiftQueue DEF Typed, Turn

(* The steady connections that a step leaves alone stay steady.            *)
LEMMA SteadyElsewhere ==
    ASSUME NEW c \in Conns, Steady(c),
           row'[c] = row[c], revoked'[c] = revoked[c], live'[c] = live[c],
           rotation'[c] \subseteq rotation[c], mutex'[c] = mutex[c],
           \A u \in Works : work'[u].pc # "free" /\ work'[u].conn = c => work'[u] = work[u]
    PROVE  Steady(c)'
<1>1. Newest(c)' = Newest(c) /\ Spent(c, 1)' = Spent(c, 1) /\ Spent(c, 2)' = Spent(c, 2)
  BY DEF Newest, Spent
<1>2. ASSUME NEW u \in Works, work'[u].pc # "free", work'[u].conn = c
      PROVE  OnTrack(work[u], c)'
  <2>1. OnTrack(work[u], c) /\ work'[u] = work[u]
    BY <1>2 DEF Steady
  <2> QED
    BY <2>1, <1>1 DEF OnTrack
<1> QED
  BY <1>1, <1>2 DEF Steady

(* Nothing of the refreshes, the lane, the store and the provider changes. *)
LEMMA CallersOnly ==
    ASSUME IInv, caller' \in [Callers -> {Idle} \cup CallerRecs],
           UNCHANGED <<store, provider, rotation, mutex, lane, work, left, shaken>>
    PROVE  IInv'
<1> USE DEF store, provider
<1>1. Typed'
  BY DEF IInv, Typed
<1>2. Lanes'
  BY DEF IInv, Lanes, Turn
<1>3. Joined'
  BY DEF IInv, Joined
<1>4. \A c \in Conns \ shaken' : Steady(c)'
  BY SteadyElsewhere DEF IInv
<1> QED
  BY <1>1, <1>2, <1>3, <1>4 DEF IInv

-----------------------------------------------------------------------------
(* One lemma per action: it preserves the invariant.                       *)

(* Initially nothing is under way and every row holds the newest token.    *)
LEMMA InitIInv == Init => IInv
<1> SUFFICES ASSUME Init PROVE IInv
  OBVIOUS
<1>0. 1 \in 1..MaxFamily /\ 1 \in 1..MaxRotations /\ 0 \in 0..MaxRotations /\ 1 \in 0..MaxRotations
  BY RefreshAssumption
<1>1. Typed
  <2>1. lane \in Seq(Works) /\ NoDup(lane)
    BY EmptySeq DEF Init, NoDup
  <2>2. row \in [Conns -> Tokens \cup {Cleared}]
    BY <1>0 DEF Init, Tokens
  <2>3. live \in [Conns -> [1..MaxFamily -> 0..MaxRotations]]
    BY <1>0 DEF Init
  <2> QED
    BY <2>1, <2>2, <2>3 DEF Init, Typed
<1>2. (\A w \in Works : work[w].pc = "free") /\ (\A k \in Callers : caller[k].pc = "idle")
  BY Fields DEF Init
<1>3. RangeOf(lane) = {}
  BY DEF Init, RangeOf
<1>4. Lanes
  BY <1>2, <1>3 DEF Init, Lanes
<1>5. Joined
  BY <1>2 DEF Init, Joined
<1>6. ASSUME NEW c \in Conns PROVE Steady(c)
  <2>1. live[c][1] = 1 /\ row[c] = <<1, 1>> /\ rotation[c] = {} /\ revoked[c] = {}
    BY <1>0 DEF Init
  <2> QED
    BY <2>1, <1>2 DEF Steady, Newest
<1> QED
  BY <1>1, <1>4, <1>5, <1>6 DEF IInv

(* Reading the connection.                                                 *)
LEMMA LoadKeeps ==
    ASSUME IInv, NEW k \in Callers, NEW c \in Conns, Load(k, c)
    PROVE  IInv'
<1>1. row[c] \in Tokens
  BY DEF Load, IInv, Typed
<1> DEFINE v == [pc |-> "loaded", conn |-> c, token |-> row[c], attempted |-> row[c]]
<1>2. v \in CallerRecs
  BY <1>1 DEF CallerRecs
<1>3. caller' = [caller EXCEPT ![k] = v]
  BY DEF Load
<1> HIDE DEF v
<1>4. caller' \in [Callers -> {Idle} \cup CallerRecs]
  BY <1>2, <1>3 DEF IInv, Typed
<1> QED
  BY <1>4, CallersOnly DEF Load

(* What Again makes of a caller.                                           *)
LEMMA AgainLoaded ==
    ASSUME Typed, NEW k \in Callers, caller[k].pc # "idle"
    PROVE  Again(k) \in CallerRecs /\ Again(k).pc = "loaded"
<1>1. caller[k].conn \in Conns /\ caller[k].token \in Tokens /\ caller[k].attempted \in Tokens
  BY Busy, Fields
<1> QED
  BY <1>1 DEF Again, CallerRecs

(* A caller gives up its attempt, or all of them.                          *)
LEMMA StopKeeps ==
    ASSUME IInv, NEW k \in Callers, StopWaiting(k)
    PROVE  IInv'
<1>1. PICK v \in {Idle} \cup CallerRecs : caller' = [caller EXCEPT ![k] = v]
  <2>1. CASE caller[k].pc = "waiting" /\ caller' = [caller EXCEPT ![k] = Again(k)]
    BY <2>1, AgainLoaded DEF IInv
  <2>2. CASE caller' = [caller EXCEPT ![k] = Idle]
    BY <2>2
  <2> QED
    BY <2>1, <2>2 DEF StopWaiting
<1>4. caller' \in [Callers -> {Idle} \cup CallerRecs]
  BY <1>1 DEF IInv, Typed
<1> QED
  BY <1>4, CallersOnly DEF StopWaiting

(* getAccessToken: a caller joins a refresh or starts one.                 *)
LEMMA GetAccessTokenKeeps ==
    ASSUME IInv, NEW k \in Callers, GetAccessToken(k)
    PROVE  IInv'
<1> DEFINE c == caller[k].conn
           wait(w) == [pc |-> "waiting", on |-> w, conn |-> c,
                       token |-> caller[k].token, attempted |-> caller[k].attempted]
<1>1. caller[k] \in CallerRecs
  BY Busy DEF GetAccessToken, IInv
<1>2. c \in Conns /\ caller[k].token \in Tokens /\ caller[k].attempted \in Tokens
  BY <1>1, Fields
<1>3. ASSUME NEW w \in Works
      PROVE  wait(w) \in CallerRecs
  BY <1>2 DEF CallerRecs
<1>4. UNCHANGED <<store, provider, rotation, left, shaken>> /\ ~Bypasses(k)
  BY DEF GetAccessToken
<1> HIDE DEF wait
<1>5. CASE /\ mutex[c] # NoWork /\ caller' = [caller EXCEPT ![k] = wait(mutex[c])]
           /\ UNCHANGED <<mutex, lane, work>>
  <2>1. mutex[c] \in Works
    BY <1>2, <1>5 DEF IInv, Typed
  <2>2. caller' \in [Callers -> {Idle} \cup CallerRecs]
    BY <1>3, <1>5, <2>1 DEF IInv, Typed
  <2> QED
    BY <1>4, <1>5, <2>2, CallersOnly
<1>6. CASE mutex[c] = NoWork
  <2> DEFINE w == CHOOSE u \in FreeWorks : TRUE
             v == [pc |-> "queued", conn |-> c, leader |-> k, token |-> caller[k].token,
                   attempted |-> caller[k].attempted, result |-> Failed]
  <2>1. /\ FreeWorks # {}
        /\ work' = [work EXCEPT ![w] = v]
        /\ mutex' = [mutex EXCEPT ![c] = w]
        /\ lane' = Append(lane, w)
        /\ caller' = [caller EXCEPT ![k] = wait(w)]
    BY <1>6 DEF GetAccessToken, Starts, Waits, wait
  <2>2. w \in Works /\ work[w].pc = "free"
    BY <2>1 DEF FreeWorks
  <2>3. v \in WorkRecs /\ v.pc = "queued" /\ v.conn = c /\ v.result = Failed /\ v.leader = k
    BY <1>2, NoTokens DEF WorkRecs, WorkStates
  <2> HIDE DEF w, v, c
  <2>4. w \notin RangeOf(lane) /\ w \notin left
    BY <2>2 DEF IInv, Lanes
  <2>5. /\ lane' \in Seq(Works) /\ NoDup(lane') /\ RangeOf(lane') = RangeOf(lane) \cup {w}
    BY <2>1, <2>2, <2>4, AppendQueue DEF IInv, Typed
  <2>6. \A u \in Works : Turn(u) => Turn(u)'
    BY <2>1, <2>2, AppendHead DEF IInv, Typed, Turn
  <2>7. \A u \in Works : work'[u] = IF u = w THEN v ELSE work[u]
    BY <2>1 DEF IInv, Typed
  <2>8. \A d \in Conns : mutex'[d] = IF d = c THEN w ELSE mutex[d]
    BY <2>1 DEF IInv, Typed
  <2>10. Typed'
    BY <1>2, <1>3, <1>4, <2>1, <2>2, <2>3, <2>5 DEF IInv, Typed, store, provider
  <2>11. Lanes'
    <3>1. RangeOf(lane') \cap left' = {}
      BY <1>4, <2>4, <2>5 DEF IInv, Lanes
    <3>2. \A u \in left' : work'[u].pc \in {"posting", "answered"} /\ work'[u].conn \in shaken'
      BY <1>4, <2>4, <2>7 DEF IInv, Typed, Lanes
    <3>3. \A u \in RangeOf(lane') : work'[u].pc \in {"queued", "posting", "answered", "settled"}
      <4>1. RangeOf(lane) \subseteq Works /\ Lanes
        BY LaneWorks DEF IInv
      <4>2. ASSUME NEW u \in RangeOf(lane)
            PROVE  work'[u].pc \in {"queued", "posting", "answered", "settled"}
        BY <4>1, <2>4, <2>7 DEF Lanes
      <4>3. work'[w].pc = "queued"
        BY <2>2, <2>3, <2>7
      <4> QED
        BY <4>2, <4>3, <2>5
    <3>4. \A u \in Works : work'[u].pc = "queued" => u \in RangeOf(lane')
      BY <2>5, <2>7 DEF IInv, Lanes
    <3>5. \A u \in Works \ left' : work'[u].pc \in {"posting", "answered", "settled"} => Turn(u)'
      BY <1>4, <2>3, <2>6, <2>7 DEF IInv, Lanes
    <3> QED
      BY <3>1, <3>2, <3>3, <3>4, <3>5 DEF Lanes
  <2>12. Joined'
    <3>1. ASSUME NEW d \in Conns, mutex'[d] # NoWork
          PROVE  mutex'[d] \notin left' /\ work'[mutex'[d]].pc # "free" /\ work'[mutex'[d]].conn = d
      BY <3>1, <1>4, <2>2, <2>3, <2>4, <2>7, <2>8 DEF IInv, Typed, Joined
    <3>2. ASSUME NEW u \in Works, work'[u].pc # "free", work'[u].conn \notin shaken'
          PROVE  mutex'[work'[u].conn] = u
      <4>1. CASE u = w
        BY <4>1, <1>2, <2>3, <2>7, <2>8 DEF c
      <4>2. CASE u # w
        <5>1. work'[u] = work[u] /\ work[u].conn \in Conns /\ mutex[work[u].conn] = u
          BY <4>2, <3>2, <1>4, <2>7, Busy, Fields DEF IInv, Joined
        <5>2. work[u].conn # c
          BY <5>1, <1>6, RefreshAssumption DEF c
        <5> QED
          BY <5>1, <5>2, <2>8
      <4> QED
        BY <4>1, <4>2
    <3>3. ASSUME NEW u \in Works, work'[u].pc # "free", Outside(work[u])'
          PROVE  work'[u].conn \in shaken'
      BY <3>3, <1>4, <2>3, <2>7 DEF IInv, Joined, Outside, Bypasses
    <3> QED
      BY <3>1, <3>2, <3>3 DEF Joined
  <2>13. ASSUME NEW d \in Conns \ shaken' PROVE Steady(d)'
    <3>1. Steady(d)
      BY <1>4 DEF IInv
    <3>2. CASE d # c
      BY <3>1, <3>2, <1>4, <2>3, <2>7, <2>8, SteadyElsewhere DEF store, provider
    <3>3. CASE d = c
      <4>1. row[c] = Newest(c) /\ rotation[c] \subseteq {Spent(c, 1)}
        BY <3>1, <3>3, <1>6 DEF Steady, c
      <4>2. \A u \in Works : work'[u].pc # "free" /\ work'[u].conn = c => u = w
        BY <3>3, <1>6, <1>4, <2>7, RefreshAssumption DEF IInv, Joined, c
      <4>3. row'[d] = row[c] /\ rotation'[d] = rotation[c] /\ revoked'[d] = revoked[c] /\ live'[d] = live[c]
        BY <1>4, <3>3 DEF store, provider
      <4>4. Newest(d)' = Newest(c) /\ Spent(d, 1)' = Spent(c, 1)
        BY <4>3 DEF Newest, Spent
      <4>5. \A u \in Works : work'[u].pc # "free" /\ work'[u].conn = d => work'[u] = v
        BY <3>3, <4>2, <2>7
      <4>6. mutex'[d] # NoWork
        BY <3>3, <2>2, <2>8, RefreshAssumption
      <4>7. ASSUME NEW u \in Works, work'[u].pc # "free", work'[u].conn = d
            PROVE  OnTrack(work[u], d)'
        BY <4>1, <4>3, <4>4, <4>5, <4>7, <2>3 DEF OnTrack
      <4> QED
        BY <3>1, <3>3, <4>3, <4>6, <4>7 DEF Steady
    <3> QED
      BY <3>2, <3>3
  <2> QED
    BY <2>10, <2>11, <2>12, <2>13 DEF IInv
<1> QED
  BY <1>5, <1>6 DEF GetAccessToken, Waits, wait

(* A refresh that takes neither mutex nor lane starts.                     *)
LEMMA StartsOutside ==
    ASSUME IInv, NEW k \in Callers, NEW c \in Conns, NEW t \in Tokens, NEW a \in Tokens, FreeWorks # {},
           Starts(k, CHOOSE u \in FreeWorks : TRUE, "direct", c, t, a), shaken' = shaken \cup {c},
           live' \in [Conns -> [1..MaxFamily -> 0..MaxRotations]], \A d \in Conns \ {c} : live'[d] = live[d],
           UNCHANGED <<store, revoked, rotation, mutex, lane, left>>
    PROVE  IInv'
<1> DEFINE w == CHOOSE u \in FreeWorks : TRUE
           v == [pc |-> "direct", conn |-> c, leader |-> k, token |-> t, attempted |-> a, result |-> Failed]
           x == [pc |-> "waiting", on |-> w, conn |-> c, token |-> t, attempted |-> a]
<1>1. work' = [work EXCEPT ![w] = v] /\ caller' = [caller EXCEPT ![k] = x]
  BY DEF Starts, Waits
<1>2. w \in Works /\ work[w].pc = "free"
  BY DEF FreeWorks
<1> HIDE DEF w
<1>3. v \in WorkRecs /\ v.pc = "direct" /\ v.conn = c /\ x \in CallerRecs
  BY <1>2, NoTokens DEF WorkRecs, WorkStates, CallerRecs
<1> HIDE DEF v, x
<1>4. work' \in [Works -> {Free} \cup WorkRecs] /\ \A u \in Works : work'[u] = IF u = w THEN v ELSE work[u]
  BY <1>1, <1>3 DEF IInv, Typed
<1>5. Typed'
  BY <1>1, <1>3, <1>4 DEF IInv, Typed, store
<1>6. Lanes'
  <2>1. w \notin RangeOf(lane) /\ w \notin left /\ RangeOf(lane) \subseteq Works
    BY <1>2, LaneWorks DEF IInv, Lanes
  <2>2. \A u \in left' : work'[u].pc \in {"posting", "answered"} /\ work'[u].conn \in shaken'
    BY <2>1, <1>4 DEF IInv, Typed, Lanes
  <2>3. \A u \in RangeOf(lane') : work'[u].pc \in {"queued", "posting", "answered", "settled"}
    BY <2>1, <1>4 DEF IInv, Lanes
  <2>4. \A u \in Works : work'[u].pc = "queued" => u \in RangeOf(lane')
    BY <1>3, <1>4 DEF IInv, Lanes
  <2>5. \A u \in Works \ left' : work'[u].pc \in {"posting", "answered", "settled"} => Turn(u)'
    BY <1>3, <1>4 DEF IInv, Lanes, Turn
  <2>6. RangeOf(lane') \cap left' = {}
    BY DEF IInv, Lanes
  <2> QED
    BY <2>2, <2>3, <2>4, <2>5, <2>6 DEF Lanes
<1>7. Joined'
  <2>1. ASSUME NEW d \in Conns, mutex'[d] # NoWork
        PROVE  mutex'[d] \notin left' /\ work'[mutex'[d]].pc # "free" /\ work'[mutex'[d]].conn = d
    BY <2>1, <1>2, <1>4 DEF IInv, Typed, Joined
  <2>2. ASSUME NEW u \in Works, work'[u].pc # "free", work'[u].conn \notin shaken'
        PROVE  mutex'[work'[u].conn] = u
    BY <2>2, <1>3, <1>4 DEF IInv, Joined
  <2>3. ASSUME NEW u \in Works, work'[u].pc # "free", Outside(work[u])'
        PROVE  work'[u].conn \in shaken'
    BY <2>3, <1>3, <1>4 DEF IInv, Joined, Outside, Bypasses
  <2> QED
    BY <2>1, <2>2, <2>3 DEF Joined
<1>8. ASSUME NEW d \in Conns \ shaken' PROVE Steady(d)'
  <2>1. Steady(d) /\ d # c
    BY DEF IInv
  <2> QED
    BY <2>1, <1>3, <1>4, SteadyElsewhere DEF store
<1> QED
  BY <1>5, <1>6, <1>7, <1>8 DEF IInv

(* The executor refreshes by itself.                                       *)
LEMMA RefreshDirectlyKeeps ==
    ASSUME IInv, NEW k \in Callers, RefreshDirectly(k)
    PROVE  IInv'
<1>1. caller[k].conn \in Conns /\ caller[k].token \in Tokens /\ caller[k].attempted \in Tokens
  BY Busy, Fields DEF RefreshDirectly, IInv
<1> QED
  BY <1>1, StartsOutside DEF RefreshDirectly, Shakes, provider, IInv, Typed

(* Credentials are imported.                                               *)
LEMMA ImportKeeps ==
    ASSUME IInv, NEW k \in Callers, NEW c \in Conns, Import(k, c)
    PROVE  IInv'
<1>1. PICK t \in Tokens : /\ live' = [live EXCEPT ![c][t[1]] = IF @ = 0 THEN 1 ELSE @]
                          /\ Starts(k, CHOOSE u \in FreeWorks : TRUE, "direct", c, t, t)
  BY DEF Import
<1> DEFINE lc == [live[c] EXCEPT ![t[1]] = IF @ = 0 THEN 1 ELSE @]
<1>2. lc \in [1..MaxFamily -> 0..MaxRotations]
  BY RefreshAssumption DEF IInv, Typed, Tokens
<1>3. live' = [live EXCEPT ![c] = lc]
  BY <1>1
<1> HIDE DEF lc
<1>4. live' \in [Conns -> [1..MaxFamily -> 0..MaxRotations]] /\ \A d \in Conns \ {c} : live'[d] = live[d]
  BY <1>2, <1>3 DEF IInv, Typed
<1> QED
  BY <1>1, <1>4, StartsOutside DEF Import, Shakes

-----------------------------------------------------------------------------
(* The steps of a refresh.                                                 *)

Stage(v, p, t, u) == [v EXCEPT !.pc = p, !.token = t, !.result = u]

(* The record of a refresh at another stage.                               *)
LEMMA StageFields ==
    ASSUME NEW v \in WorkRecs, NEW p \in WorkStates \ {"free"}, NEW t \in Tokens, NEW u \in Nat \X Nat
    PROVE  /\ Stage(v, p, t, u) \in WorkRecs
           /\ Stage(v, p, t, u).pc = p /\ Stage(v, p, t, u).conn = v.conn
           /\ Stage(v, p, t, u).token = t /\ Stage(v, p, t, u).result = u /\ Stage(v, p, t, u).leader = v.leader
  BY DEF WorkRecs, Stage

(* A refresh in its turn, with a lost turn or without one goes to its next *)
(* stage.                                                                  *)
LEMMA WorkAdvances ==
    ASSUME IInv, NEW w \in Works, work[w].pc # "free",
           NEW v \in WorkRecs, v.conn = work[w].conn, v.leader = work[w].leader,
           work' = [work EXCEPT ![w] = v], UNCHANGED <<mutex, lane, left>>, shaken \subseteq shaken',
           \/ Turn(w) /\ v.pc \in {"posting", "answered", "settled"}
           \/ w \in left /\ v.pc \in {"posting", "answered"}
           \/ work[w].pc \in {"direct", "returned"} /\ v.pc \in {"returned", "persist"}
    PROVE  /\ Lanes' /\ Joined'
           /\ work' \in [Works -> {Free} \cup WorkRecs]
           /\ \A u \in Works : work'[u] = IF u = w THEN v ELSE work[u]
<1>1. \A u \in Works : work'[u] = IF u = w THEN v ELSE work[u]
  BY DEF IInv, Typed
<1>2. v.pc # "free" /\ v.pc # "queued"
  OBVIOUS
<1>3. RangeOf(lane) \subseteq Works
  BY LaneWorks DEF IInv
<1>4. Lanes'
  <2>1. \A u \in left' : work'[u].pc \in {"posting", "answered"} /\ work'[u].conn \in shaken'
    <3>1. w \in left => v.pc \in {"posting", "answered"}
      BY LaneHead DEF IInv, Lanes
    <3> QED
      BY <1>1, <3>1 DEF IInv, Typed, Lanes
  <2>2. \A u \in RangeOf(lane') : work'[u].pc \in {"queued", "posting", "answered", "settled"}
    BY <1>1, <1>3 DEF IInv, Lanes
  <2>3. \A u \in Works : work'[u].pc = "queued" => u \in RangeOf(lane')
    BY <1>1, <1>2 DEF IInv, Lanes
  <2>4. \A u \in Works \ left' : work'[u].pc \in {"posting", "answered", "settled"} => Turn(u)'
    BY <1>1 DEF IInv, Lanes, Turn
  <2>5. RangeOf(lane') \cap left' = {}
    BY DEF IInv, Lanes
  <2> QED
    BY <2>1, <2>2, <2>3, <2>4, <2>5 DEF Lanes
<1>5. Joined'
  <2>1. ASSUME NEW d \in Conns, mutex'[d] # NoWork
        PROVE  mutex'[d] \notin left' /\ work'[mutex'[d]].pc # "free" /\ work'[mutex'[d]].conn = d
    BY <2>1, <1>1, <1>2 DEF IInv, Typed, Joined
  <2>2. ASSUME NEW u \in Works, work'[u].pc # "free", work'[u].conn \notin shaken'
        PROVE  mutex'[work'[u].conn] = u
    BY <2>2, <1>1 DEF IInv, Joined
  <2>3. ASSUME NEW u \in Works, work'[u].pc # "free", Outside(work[u])'
        PROVE  work'[u].conn \in shaken'
    BY <2>3, <1>1 DEF IInv, Joined, Outside, Bypasses
  <2> QED
    BY <2>1, <2>2, <2>3 DEF Joined
<1>6. work' \in [Works -> {Free} \cup WorkRecs]
  BY DEF IInv, Typed
<1> QED
  BY <1>1, <1>4, <1>5, <1>6

(* A refresh whose tenure was given up ends.                               *)
LEMMA WorkAbandoned ==
    ASSUME IInv, NEW w \in left, work' = [work EXCEPT ![w] = Free], left' = left \ {w},
           UNCHANGED <<mutex, lane, caller>>, shaken \subseteq shaken'
    PROVE  /\ Lanes' /\ Joined'
           /\ work' \in [Works -> {Free} \cup WorkRecs]
           /\ \A u \in Works : work'[u] = IF u = w THEN Free ELSE work[u]
<1>1. w \in Works /\ \A u \in Works : work'[u] = IF u = w THEN Free ELSE work[u]
  BY DEF IInv, Typed
<1>2. RangeOf(lane) \subseteq Works /\ w \notin RangeOf(lane)
  BY LaneWorks DEF IInv, Lanes
<1>3. Free.pc = "free"
  BY Fields
<1>4. Lanes'
  <2>1. \A u \in left' : work'[u].pc \in {"posting", "answered"} /\ work'[u].conn \in shaken'
    BY <1>1 DEF IInv, Typed, Lanes
  <2>2. \A u \in RangeOf(lane') : work'[u].pc \in {"queued", "posting", "answered", "settled"}
    BY <1>1, <1>2 DEF IInv, Lanes
  <2>3. \A u \in Works : work'[u].pc = "queued" => u \in RangeOf(lane')
    BY <1>1, <1>3 DEF IInv, Lanes
  <2>4. \A u \in Works \ left' : work'[u].pc \in {"posting", "answered", "settled"} => Turn(u)'
    BY <1>1, <1>3 DEF IInv, Lanes, Turn
  <2>5. RangeOf(lane') \cap left' = {}
    BY DEF IInv, Lanes
  <2> QED
    BY <2>1, <2>2, <2>3, <2>4, <2>5 DEF Lanes
<1>5. Joined'
  <2>1. ASSUME NEW d \in Conns, mutex'[d] # NoWork
        PROVE  mutex'[d] \notin left' /\ work'[mutex'[d]].pc # "free" /\ work'[mutex'[d]].conn = d
    BY <2>1, <1>1 DEF IInv, Typed, Joined
  <2>2. ASSUME NEW u \in Works, work'[u].pc # "free", work'[u].conn \notin shaken'
        PROVE  mutex'[work'[u].conn] = u
    BY <2>2, <1>1, <1>3 DEF IInv, Joined
  <2>3. ASSUME NEW u \in Works, work'[u].pc # "free", Outside(work[u])'
        PROVE  work'[u].conn \in shaken'
    BY <2>3, <1>1, <1>3 DEF IInv, Joined, Outside, Bypasses
  <2> QED
    BY <2>1, <2>2, <2>3 DEF Joined
<1>6. work' \in [Works -> {Free} \cup WorkRecs]
  BY <1>1 DEF IInv, Typed
<1> QED
  BY <1>1, <1>4, <1>5, <1>6

(* The refresh of a connection that is not shaken is on track, and no      *)
(* other refresh works on it.                                              *)
LEMMA OnlyWork ==
    ASSUME IInv, NEW w \in Works, work[w].pc # "free", work[w].conn \notin shaken
    PROVE  /\ work[w].conn \in Conns /\ Steady(work[w].conn) /\ OnTrack(work[w], work[w].conn)
           /\ mutex[work[w].conn] = w /\ w \notin left
           /\ work[w].pc \notin {"direct", "returned"} /\ ~Bypasses(work[w].leader)
           /\ \A u \in Works : work[u].pc # "free" /\ work[u].conn = work[w].conn => u = w
<1>1. work[w].conn \in Conns /\ mutex[work[w].conn] = w /\ Steady(work[w].conn)
  BY Busy, Fields DEF IInv, Joined
<1>2. OnTrack(work[w], work[w].conn)
  BY <1>1 DEF Steady
<1>3. \A u \in Works : work[u].pc # "free" /\ work[u].conn = work[w].conn => u = w
  BY <1>1 DEF IInv, Joined
<1>4. w \notin left /\ ~Outside(work[w])
  BY DEF IInv, Lanes, Joined
<1> QED
  BY <1>1, <1>2, <1>3, <1>4 DEF Outside

(* _refreshWithFreshCredentials, in its turn: it posts the newest token or *)
(* settles on it.                                                          *)
LEMMA TakeTurnKeeps ==
    ASSUME IInv, NEW w \in Works, TakeTurn(w)
    PROVE  IInv'
<1> DEFINE c == work[w].conn
           t == work[w].token
           k == work[w].leader
           fresh == IF row[c] = Cleared THEN t ELSE row[c]
<1>1. work[w] \in WorkRecs /\ work[w].pc = "queued" /\ Turn(w)
  BY Busy DEF TakeTurn, IInv
<1>2. c \in Conns /\ t \in Tokens /\ k \in Callers /\ work[w].result \in Nat \X Nat
  BY <1>1, Fields
<1>3. UNCHANGED <<store, provider, rotation, mutex, lane, left, shaken>>
  BY DEF TakeTurn
<1>4. fresh \in Tokens
  BY <1>2 DEF IInv, Typed
<1>5. Rotated(t) \in Nat \X Nat
  BY <1>2, RefreshAssumption DEF Rotated, Tokens
<1> HIDE DEF fresh
<1>6. PICK p \in {"settled", "posting"}, s \in Tokens, u \in Nat \X Nat :
         /\ work' = [work EXCEPT ![w] = Stage(work[w], p, s, u)]
         /\ p = "posting" => s = fresh /\ u = work[w].result
         /\ p = "settled" => u = fresh \/ (u = Rotated(t) /\ t \in rotation[c])
  <2>1. CASE t \in rotation[c] /\ work' = [work EXCEPT ![w].pc = "settled", ![w].result = Rotated(t)]
    <3>1. work' = [work EXCEPT ![w] = Stage(work[w], "settled", t, Rotated(t))]
      BY <2>1, <1>1 DEF IInv, Typed, WorkRecs, Stage
    <3> QED
      BY <2>1, <3>1, <1>2, <1>5
  <2>2. CASE work' = [work EXCEPT ![w].pc = "settled", ![w].result = fresh]
    <3>1. work' = [work EXCEPT ![w] = Stage(work[w], "settled", t, fresh)]
      BY <2>2, <1>1 DEF IInv, Typed, WorkRecs, Stage
    <3>2. fresh \in Nat \X Nat
      BY <1>4, NoTokens
    <3> QED
      BY <3>1, <3>2, <1>2
  <2>3. CASE work' = [work EXCEPT ![w].pc = "posting", ![w].token = fresh]
    <3>1. work' = [work EXCEPT ![w] = Stage(work[w], "posting", fresh, work[w].result)]
      BY <2>3, <1>1 DEF IInv, Typed, WorkRecs, Stage
    <3> QED
      BY <3>1, <1>2, <1>4
  <2> QED
    BY <2>1, <2>2, <2>3 DEF TakeTurn, fresh
<1> DEFINE v == Stage(work[w], p, s, u)
<1>7. v \in WorkRecs /\ v.pc = p /\ v.conn = c /\ v.token = s /\ v.result = u /\ v.leader = k
  BY <1>1, StageFields DEF WorkStates
<1>8. caller' \in [Callers -> {Idle} \cup CallerRecs]
  <2>1. CASE caller' = caller
    BY <2>1 DEF IInv, Typed
  <2>2. CASE caller[k].pc # "idle" /\ caller' = [caller EXCEPT ![k].token = fresh]
    <3>1. caller[k] \in CallerRecs
      BY <1>2, <2>2, Busy DEF IInv
    <3>2. [caller[k] EXCEPT !.token = fresh] \in CallerRecs
      BY <1>4, <3>1 DEF CallerRecs
    <3>3. caller' = [caller EXCEPT ![k] = [caller[k] EXCEPT !.token = fresh]]
      BY <2>2
    <3> QED
      BY <1>2, <3>2, <3>3 DEF IInv, Typed
  <2> QED
    BY <2>1, <2>2 DEF TakeTurn, fresh
<1> HIDE DEF v
<1>9. /\ Lanes' /\ Joined'
      /\ work' \in [Works -> {Free} \cup WorkRecs]
      /\ \A x \in Works : work'[x] = IF x = w THEN v ELSE work[x]
  BY <1>1, <1>3, <1>6, <1>7, WorkAdvances DEF v
<1>10. Typed'
  BY <1>3, <1>8, <1>9 DEF IInv, Typed, store, provider
<1>11. ASSUME NEW d \in Conns \ shaken' PROVE Steady(d)'
  <2>1. Steady(d)
    BY <1>3 DEF IInv
  <2>2. CASE d # c
    BY <2>1, <2>2, <1>3, <1>7, <1>9, SteadyElsewhere DEF store, provider
  <2>3. CASE d = c
    <3>1. /\ OnTrack(work[w], d) /\ mutex[d] = w
          /\ \A x \in Works : work[x].pc # "free" /\ work[x].conn = d => x = w
      BY <2>3, <1>1, <1>3, OnlyWork DEF c
    <3>2. row[d] = Newest(d) /\ rotation[d] \subseteq {Spent(d, 1)} /\ work[w].result = Failed
      BY <3>1, <1>1 DEF OnTrack
    <3>3. fresh = Newest(d)
      BY <2>3, <3>2, <1>2, NoTokens DEF fresh, IInv, Typed, Newest, Cleared
    <3>4. t \in rotation[d] => Rotated(t) = Newest(d)
      BY <3>2, <2>1 DEF Rotated, Newest, Spent, Steady
    <3>5. Newest(d)' = Newest(d) /\ Spent(d, 1)' = Spent(d, 1) /\ row'[d] = row[d] /\ rotation'[d] = rotation[d]
          /\ revoked'[d] = revoked[d] /\ live'[d] = live[d] /\ mutex'[d] = mutex[d]
      BY <1>3 DEF Newest, Spent, store, provider
    <3>6. ASSUME NEW x \in Works, work'[x].pc # "free", work'[x].conn = d PROVE OnTrack(work[x], d)'
      <4>1. work'[x] = v
        BY <3>1, <3>6, <1>9
      <4>2. v.pc = "posting" => v.token = Newest(d) /\ v.result = Failed
        BY <1>6, <1>7, <3>2, <3>3
      <4>3. v.pc = "settled" => v.result = Newest(d)
        BY <2>3, <1>6, <1>7, <3>3, <3>4
      <4> QED
        BY <4>1, <4>2, <4>3, <3>2, <3>5, <1>6, <1>7 DEF OnTrack
    <3> QED
      BY <3>2, <3>5, <3>6, <2>1, <3>1 DEF Steady
  <2> QED
    BY <2>2, <2>3
<1> QED
  BY <1>9, <1>10, <1>11 DEF IInv

(* The provider exchanges the newest token, or revokes the family.         *)
LEMMA ProviderAnswersKeeps ==
    ASSUME IInv, NEW w \in Works, ProviderAnswers(w)
    PROVE  IInv'
<1> DEFINE c == work[w].conn
           t == work[w].token
           ok == live[c][t[1]] = t[2] /\ t[1] \notin revoked[c]
           u == IF ok THEN Rotated(t) ELSE Refused
           p == IF work[w].pc = "direct" THEN "returned" ELSE "answered"
           v == Stage(work[w], p, t, u)
<1>1. work[w] \in WorkRecs /\ work[w].pc \in {"posting", "direct"}
  BY Busy DEF ProviderAnswers, IInv
<1>2. c \in Conns /\ t \in Tokens
  BY <1>1, Fields
<1>3. t[1] \in 1..MaxFamily /\ t[2] \in 1..MaxRotations
  BY <1>2 DEF Tokens
<1>4. /\ UNCHANGED <<store, rotation, mutex, lane, caller, left, shaken>>
      /\ ok => t[2] < MaxRotations
      /\ live' = IF ok THEN [live EXCEPT ![c][t[1]] = @ + 1] ELSE live
      /\ revoked' = IF ok THEN revoked ELSE [revoked EXCEPT ![c] = @ \cup {t[1]}]
  BY DEF ProviderAnswers
<1>5. Rotated(t) \in Nat \X Nat
  BY <1>2, RefreshAssumption DEF Rotated, Tokens
<1>6. work' = [work EXCEPT ![w] = v]
  <2>1. work' = [work EXCEPT ![w].pc = p, ![w].result = u]
    BY DEF ProviderAnswers
  <2> HIDE DEF u, p
  <2> QED
    BY <1>1, <2>1 DEF IInv, Typed, WorkRecs, Stage
<1>7. u \in Nat \X Nat
  BY <1>5, NoTokens
<1>8. v \in WorkRecs /\ v.pc = p /\ v.conn = c /\ v.token = t /\ v.result = u /\ v.leader = work[w].leader
  <2> HIDE DEF u
  <2> QED
    BY <1>1, <1>2, <1>7, StageFields DEF WorkStates
<1>9. \/ work[w].pc = "posting" /\ p = "answered" /\ (Turn(w) \/ w \in left)
      \/ work[w].pc = "direct" /\ p = "returned"
  BY <1>1 DEF IInv, Lanes
<1> HIDE DEF v, u, p
<1>10. /\ Lanes' /\ Joined'
       /\ work' \in [Works -> {Free} \cup WorkRecs]
       /\ \A x \in Works : work'[x] = IF x = w THEN v ELSE work[x]
  BY <1>1, <1>4, <1>6, <1>8, <1>9, WorkAdvances
<1>11. Typed'
  <2>1. live' \in [Conns -> [1..MaxFamily -> 0..MaxRotations]]
    <3>1. live \in [Conns -> [1..MaxFamily -> 0..MaxRotations]]
      BY DEF IInv, Typed
    <3>2. CASE ok
      <4> DEFINE lc == [live[c] EXCEPT ![t[1]] = @ + 1]
      <4>1. live[c][t[1]] + 1 \in 0..MaxRotations
        BY <3>2, <1>3, <1>4, RefreshAssumption
      <4>2. live' = [live EXCEPT ![c] = lc]
        BY <3>2, <1>4
      <4>3. lc \in [1..MaxFamily -> 0..MaxRotations]
        BY <3>1, <4>1, <1>2, <1>3
      <4> HIDE DEF lc
      <4> QED
        BY <3>1, <4>2, <4>3, <1>2
    <3>3. CASE ~ok
      BY <3>1, <3>3, <1>4
    <3> QED
      BY <3>2, <3>3
  <2>2. revoked' \in [Conns -> SUBSET (1..MaxFamily)]
    BY <1>2, <1>3, <1>4 DEF IInv, Typed
  <2> QED
    BY <2>1, <2>2, <1>4, <1>10 DEF IInv, Typed, store
<1>12. ASSUME NEW d \in Conns \ shaken' PROVE Steady(d)'
  <2>1. Steady(d)
    BY <1>4 DEF IInv
  <2>2. CASE d # c
    <3>1. live'[d] = live[d] /\ revoked'[d] = revoked[d]
      BY <2>2, <1>2, <1>4 DEF IInv, Typed
    <3> QED
      BY <2>1, <2>2, <3>1, <1>4, <1>8, <1>10, SteadyElsewhere DEF store
  <2>3. CASE d = c
    <3>1. /\ OnTrack(work[w], d) /\ mutex[d] = w
          /\ \A x \in Works : work[x].pc # "free" /\ work[x].conn = d => x = w
      BY <2>3, <1>1, <1>4, OnlyWork
    <3>p. work[w].pc = "posting" /\ p = "answered"
      BY <2>3, <1>1, <1>4, <1>9, OnlyWork
    <3>2. row[d] = Newest(d) /\ rotation[d] \subseteq {Spent(d, 1)} /\ t = Newest(d)
      BY <3>1, <3>p DEF OnTrack
    <3>3. t[1] = 1 /\ t[2] = live[d][1] /\ ok
      BY <2>1, <2>3, <3>2 DEF Newest, Steady
    <3>4. live[d][1] \in Nat /\ live[d][1] > 0 /\ live'[d][1] = live[d][1] + 1 /\ revoked'[d] = {}
      BY <2>1, <2>3, <3>3, <1>2, <1>3, <1>4 DEF Steady, IInv, Typed
    <3>5. u = Newest(d)' /\ t = Spent(d, 1)' /\ Spent(d, 1) = Spent(d, 2)'
      BY <3>2, <3>3, <3>4 DEF u, Rotated, Newest, Spent
    <3>6. row'[d] = row[d] /\ rotation'[d] = rotation[d] /\ mutex'[d] = mutex[d]
      BY <1>4 DEF store
    <3>7. ASSUME NEW x \in Works, work'[x].pc # "free", work'[x].conn = d PROVE OnTrack(work[x], d)'
      <4>1. work'[x] = v
        BY <3>1, <3>7, <1>10
      <4> QED
        BY <4>1, <3>p, <3>2, <3>5, <3>6, <1>8 DEF OnTrack
    <3>8. mutex'[d] # NoWork
      BY <3>1, <3>6, RefreshAssumption
    <3>9. \E j \in 1..live'[d][1] : row'[d] = <<1, j>>
      BY <3>2, <3>4, <3>6 DEF Newest
    <3> QED
      BY <3>4, <3>7, <3>8, <3>9 DEF Steady
  <2> QED
    BY <2>2, <2>3
<1> QED
  BY <1>10, <1>11, <1>12 DEF IInv

(* The POST fails, or its answer is lost.                                  *)
LEMMA PostFailsKeeps ==
    ASSUME IInv, NEW w \in Works, PostFails(w)
    PROVE  IInv'
<1> DEFINE c == work[w].conn
           p == IF work[w].pc \in {"posting", "answered"} THEN "settled" ELSE "persist"
           v == Stage(work[w], p, work[w].token, Failed)
<1>1. work[w] \in WorkRecs /\ work[w].pc \in {"posting", "answered", "direct", "returned"}
  BY Busy DEF PostFails, IInv
<1>2. c \in Conns /\ work[w].token \in Tokens /\ Failed \in Nat \X Nat
  BY <1>1, Fields, NoTokens
<1>3. /\ UNCHANGED <<store, provider, rotation, mutex, lane, caller>> /\ left' = left \ {w}
      /\ shaken' = (IF work[w].result \in Tokens THEN shaken \cup {c} ELSE shaken)
  BY DEF PostFails, Shakes
<1>4. v \in WorkRecs /\ v.pc = p /\ v.conn = c /\ v.result = Failed /\ v.leader = work[w].leader
  BY <1>1, <1>2, StageFields DEF WorkStates
<1>5. work' = [work EXCEPT ![w] = IF w \in left THEN Free ELSE v]
  <2>1. work' = [work EXCEPT ![w] = IF w \in left THEN Free ELSE [work[w] EXCEPT !.pc = p, !.result = Failed]]
    BY DEF PostFails
  <2>2. v = [work[w] EXCEPT !.pc = p, !.result = Failed]
    <3> HIDE DEF p
    <3> QED
      BY <1>1 DEF Stage, WorkRecs
  <2> HIDE DEF v, p
  <2> QED
    BY <2>1, <2>2
<1> HIDE DEF v
<1>s. shaken \subseteq shaken' /\ shaken' \subseteq Conns
  BY <1>2, <1>3 DEF IInv, Typed
<1>6. /\ Lanes' /\ Joined'
      /\ work' \in [Works -> {Free} \cup WorkRecs]
      /\ \A x \in Works : work'[x] = IF x = w THEN (IF w \in left THEN Free ELSE v) ELSE work[x]
  <2>1. CASE w \in left
    BY <2>1, <1>s, <1>3, <1>5, WorkAbandoned
  <2>2. CASE w \notin left
    <3>1. left' = left /\ work' = [work EXCEPT ![w] = v] /\ work[w].pc # "free"
      BY <2>2, <1>1, <1>3, <1>5
    <3>2. \/ Turn(w) /\ v.pc = "settled"
          \/ work[w].pc \in {"direct", "returned"} /\ v.pc = "persist"
      BY <2>2, <1>1, <1>4 DEF IInv, Lanes
    <3> QED
      BY <2>2, <3>1, <3>2, <1>s, <1>3, <1>4, WorkAdvances
  <2> QED
    BY <2>1, <2>2
<1>7. Typed'
  BY <1>s, <1>3, <1>6 DEF IInv, Typed, store, provider
<1>8. ASSUME NEW d \in Conns \ shaken' PROVE Steady(d)'
  <2>1. Steady(d) /\ d \notin shaken
    BY <1>s DEF IInv
  <2>2. CASE d # c
    BY <2>1, <2>2, <1>3, <1>4, <1>6, Fields, SteadyElsewhere DEF store, provider
  <2>3. CASE d = c
    <3>1. /\ OnTrack(work[w], d) /\ mutex[d] = w /\ w \notin left
          /\ work[w].pc \in {"posting", "answered"}
          /\ \A x \in Works : work[x].pc # "free" /\ work[x].conn = d => x = w
      BY <2>1, <2>3, <1>1, OnlyWork
    <3>2. work[w].pc = "posting" /\ p = "settled"
      <4>1. Newest(d) \in Tokens
        BY <2>1, RefreshAssumption DEF Newest, Steady, Tokens, IInv, Typed
      <4> QED
        BY <4>1, <2>3, <3>1, <1>3 DEF OnTrack
    <3>3. row[d] = Newest(d) /\ rotation[d] \subseteq {Spent(d, 1)}
      BY <3>1, <3>2 DEF OnTrack
    <3>5. Newest(d)' = Newest(d) /\ Spent(d, 1)' = Spent(d, 1) /\ row'[d] = row[d] /\ rotation'[d] = rotation[d]
          /\ revoked'[d] = revoked[d] /\ live'[d] = live[d] /\ mutex'[d] = mutex[d]
      BY <1>3 DEF Newest, Spent, store, provider
    <3>6. ASSUME NEW x \in Works, work'[x].pc # "free", work'[x].conn = d PROVE OnTrack(work[x], d)'
      <4>1. work'[x] = v
        BY <3>1, <3>6, <1>6
      <4> QED
        BY <4>1, <3>2, <3>3, <3>5, <1>4 DEF OnTrack
    <3> QED
      BY <3>3, <3>5, <3>6, <2>1, <3>1 DEF Steady
  <2> QED
    BY <2>2, <2>3
<1> QED
  BY <1>6, <1>7, <1>8 DEF IInv

(* The answer arrives: recordRotation.                                     *)
LEMMA AnswerKeeps ==
    ASSUME IInv, NEW w \in Works, Answer(w)
    PROVE  IInv'
<1> DEFINE c == work[w].conn
           v == Stage(work[w], "settled", work[w].token, work[w].result)
<1>1. work[w] \in WorkRecs /\ work[w].pc = "answered"
  BY Busy DEF Answer, IInv
<1>2. c \in Conns /\ work[w].token \in Tokens /\ work[w].result \in Nat \X Nat
  BY <1>1, Fields
<1>3. /\ UNCHANGED <<store, provider, mutex, lane, caller>> /\ left' = left \ {w}
      /\ rotation' = IF work[w].result \in Tokens THEN [rotation EXCEPT ![c] = @ \cup {work[w].token}] ELSE rotation
      /\ shaken' = IF rotation[c] # {} THEN shaken \cup {c} ELSE shaken
  BY DEF Answer
<1>4. /\ v \in WorkRecs /\ v.pc = "settled" /\ v.conn = c /\ v.token = work[w].token
      /\ v.result = work[w].result /\ v.leader = work[w].leader
  BY <1>1, <1>2, StageFields DEF WorkStates
<1>5. work' = [work EXCEPT ![w] = IF w \in left THEN Free ELSE v]
  BY <1>1 DEF Answer, Stage, IInv, Typed, WorkRecs
<1> HIDE DEF v
<1>s. shaken \subseteq shaken' /\ shaken' \subseteq Conns
  BY <1>2, <1>3 DEF IInv, Typed
<1>6. /\ Lanes' /\ Joined'
      /\ work' \in [Works -> {Free} \cup WorkRecs]
      /\ \A x \in Works : work'[x] = IF x = w THEN (IF w \in left THEN Free ELSE v) ELSE work[x]
  <2>1. CASE w \in left
    BY <2>1, <1>s, <1>3, <1>5, WorkAbandoned
  <2>2. CASE w \notin left
    <3>1. Turn(w) /\ left' = left /\ work' = [work EXCEPT ![w] = v]
      BY <2>2, <1>1, <1>3, <1>5 DEF IInv, Lanes
    <3> QED
      BY <2>2, <3>1, <1>s, <1>1, <1>3, <1>4, WorkAdvances
  <2> QED
    BY <2>1, <2>2
<1>7. Typed'
  <2>1. rotation' \in [Conns -> SUBSET Tokens]
    BY <1>2, <1>3 DEF IInv, Typed
  <2> QED
    BY <2>1, <1>s, <1>3, <1>6 DEF IInv, Typed, store, provider
<1>8. ASSUME NEW d \in Conns \ shaken' PROVE Steady(d)'
  <2>1. Steady(d) /\ d \notin shaken
    BY <1>s DEF IInv
  <2>2. CASE d # c
    <3>1. rotation'[d] = rotation[d]
      BY <2>2, <1>2, <1>3 DEF IInv, Typed
    <3> QED
      BY <2>1, <2>2, <3>1, <1>3, <1>4, <1>6, Fields, SteadyElsewhere DEF store, provider
  <2>3. CASE d = c
    <3>1. /\ OnTrack(work[w], d) /\ mutex[d] = w /\ w \notin left
          /\ \A x \in Works : work[x].pc # "free" /\ work[x].conn = d => x = w
      BY <2>1, <2>3, <1>1, OnlyWork
    <3>2. work[w].result = Newest(d) /\ work[w].token = Spent(d, 1)
      BY <3>1, <1>1 DEF OnTrack
    <3>3. rotation[d] = {}
      BY <2>3, <1>3
    <3>4. rotation'[d] \subseteq {Spent(d, 1)}
      BY <3>2, <3>3, <2>3, <1>2, <1>3 DEF IInv, Typed
    <3>5. Newest(d)' = Newest(d) /\ Spent(d, 1)' = Spent(d, 1) /\ row'[d] = row[d]
          /\ revoked'[d] = revoked[d] /\ live'[d] = live[d] /\ mutex'[d] = mutex[d]
      BY <1>3 DEF Newest, Spent, store, provider
    <3>6. ASSUME NEW x \in Works, work'[x].pc # "free", work'[x].conn = d PROVE OnTrack(work[x], d)'
      <4>1. work'[x] = v
        BY <3>1, <3>6, <1>6
      <4> QED
        BY <4>1, <3>2, <3>4, <3>5, <1>4 DEF OnTrack
    <3>7. mutex'[d] # NoWork
      BY <3>1, <3>5, RefreshAssumption
    <3> QED
      BY <3>5, <3>6, <3>7, <2>1 DEF Steady
  <2> QED
    BY <2>2, <2>3
<1> QED
  BY <1>6, <1>7, <1>8 DEF IInv

-----------------------------------------------------------------------------
(* The end of a tenure, of a refresh and of a wait.                        *)

(* The callers of a refresh that is evicted wait no longer.                *)
LEMMA ServedEvicted ==
    ASSUME IInv, NEW w \in Works, NEW t, Served(w, t), Evict(w)
    PROVE  /\ caller' \in [Callers -> {Idle} \cup CallerRecs]
           /\ mutex' \in [Conns -> Works \cup {NoWork}]
           /\ \A c \in Conns : mutex'[c] = IF mutex[c] = w THEN NoWork ELSE mutex[c]
<1>1. ASSUME NEW k \in Callers
      PROVE  caller'[k] \in {Idle} \cup CallerRecs
  <2>1. caller'[k] = IF k \notin Waiting(w) THEN caller[k]
                     ELSE IF t = Failed /\ Kind[k] = "reactive" THEN Again(k) ELSE Idle
    BY DEF Served
  <2>2. CASE k \notin Waiting(w)
    BY <2>1, <2>2 DEF IInv, Typed
  <2>3. CASE k \in Waiting(w)
    <3>1. caller[k].pc = "waiting"
      BY <2>3 DEF Waiting
    <3>2. Again(k) \in CallerRecs /\ Again(k).pc = "loaded"
      BY <3>1, AgainLoaded DEF IInv
    <3> QED
      BY <2>1, <2>3, <3>2, Fields
  <2> QED
    BY <2>2, <2>3
<1>2. caller' \in [Callers -> {Idle} \cup CallerRecs]
  BY <1>1 DEF Served
<1>3. /\ \A c \in Conns : mutex'[c] = IF mutex[c] = w THEN NoWork ELSE mutex[c]
      /\ mutex' \in [Conns -> Works \cup {NoWork}]
  BY DEF Evict, IInv, Typed
<1> QED
  BY <1>2, <1>3

(* The lane without the refresh that had its turn: nobody else is past its *)
(* turn.                                                                   *)
LEMMA LaneLeft ==
    ASSUME IInv, NEW w \in Works, Turn(w), lane' = Tail(lane), shaken \subseteq shaken',
           \A u \in Works \ {w} : work'[u] = work[u],
           \/ left' = left \cup {w} /\ work'[w].pc \in {"posting", "answered"} /\ work'[w].conn \in shaken'
           \/ left' = left /\ work'[w].pc = "persist"
    PROVE  Lanes' /\ lane' \in Seq(Works) /\ NoDup(lane')
<1>1. /\ w \in RangeOf(lane) /\ lane' \in Seq(Works) /\ NoDup(lane')
      /\ RangeOf(lane') = RangeOf(lane) \ {w}
  BY LaneHead DEF IInv
<1>2. RangeOf(lane) \subseteq Works /\ w \notin left
  BY <1>1, LaneWorks DEF IInv, Lanes
<1>3. Lanes'
  <2>1. \A u \in left' : work'[u].pc \in {"posting", "answered"} /\ work'[u].conn \in shaken'
    BY <1>2 DEF IInv, Typed, Lanes
  <2>2. \A u \in RangeOf(lane') : work'[u].pc \in {"queued", "posting", "answered", "settled"}
    BY <1>1, <1>2 DEF IInv, Lanes
  <2>3. \A u \in Works : work'[u].pc = "queued" => u \in RangeOf(lane')
    BY <1>1 DEF IInv, Lanes
  <2>4. \A u \in Works \ left' : ~(work'[u].pc \in {"posting", "answered", "settled"})
    BY <1>1 DEF IInv, Lanes, Turn
  <2>5. RangeOf(lane') \cap left' = {}
    BY <1>1 DEF IInv, Lanes
  <2> QED
    BY <2>1, <2>2, <2>3, <2>4, <2>5 DEF Lanes
<1> QED
  BY <1>1, <1>3

(* The bound on the tenure.                                                *)
LEMMA LaneTimeoutKeeps ==
    ASSUME IInv, NEW w \in Works, LaneTimeout(w)
    PROVE  IInv'
<1> DEFINE c == work[w].conn
<1>1. Turn(w) /\ work[w].pc \in {"posting", "answered"}
  BY DEF LaneTimeout
<1>2. c \in Conns
  BY <1>1, Busy, Fields DEF IInv
<1>3. /\ UNCHANGED <<store, provider, rotation, work>>
      /\ lane' = Tail(lane) /\ left' = left \cup {w} /\ shaken' = shaken \cup {c}
      /\ Served(w, Failed) /\ Evict(w)
  BY DEF LaneTimeout, Shakes
<1>4. Lanes' /\ lane' \in Seq(Works) /\ NoDup(lane')
  BY <1>1, <1>3, LaneLeft
<1>5. /\ caller' \in [Callers -> {Idle} \cup CallerRecs]
      /\ mutex' \in [Conns -> Works \cup {NoWork}]
      /\ \A d \in Conns : mutex'[d] = IF mutex[d] = w THEN NoWork ELSE mutex[d]
  BY <1>3, ServedEvicted
<1>6. Typed'
  BY <1>2, <1>3, <1>4, <1>5 DEF IInv, Typed, store, provider
<1>7. Joined'
  <2>1. ASSUME NEW d \in Conns, mutex'[d] # NoWork
        PROVE  mutex'[d] \notin left' /\ work'[mutex'[d]].pc # "free" /\ work'[mutex'[d]].conn = d
    BY <2>1, <1>3, <1>5 DEF IInv, Joined
  <2>2. ASSUME NEW u \in Works, work'[u].pc # "free", work'[u].conn \notin shaken'
        PROVE  mutex'[work'[u].conn] = u
    <3>1. work[u].conn \in Conns /\ mutex[work[u].conn] = u /\ u # w
      BY <2>2, <1>3, Busy, Fields DEF IInv, Joined
    <3> QED
      BY <3>1, <1>3, <1>5
  <2>3. ASSUME NEW u \in Works, work'[u].pc # "free", Outside(work[u])'
        PROVE  work'[u].conn \in shaken'
    BY <2>3, <1>3 DEF IInv, Joined, Outside, Bypasses
  <2> QED
    BY <2>1, <2>2, <2>3 DEF Joined
<1>8. ASSUME NEW d \in Conns \ shaken' PROVE Steady(d)'
  <2>1. Steady(d) /\ d # c
    BY <1>3 DEF IInv
  <2>2. mutex'[d] = mutex[d]
    BY <2>1, <1>5, RefreshAssumption DEF IInv, Joined
  <2> QED
    BY <2>1, <2>2, <1>3, SteadyElsewhere DEF store, provider
<1> QED
  BY <1>4, <1>6, <1>7, <1>8 DEF IInv

(* The end of serializeRefresh.                                            *)
LEMMA LeaveLaneKeeps ==
    ASSUME IInv, NEW w \in Works, LeaveLane(w)
    PROVE  IInv'
<1> DEFINE v == Stage(work[w], "persist", work[w].token, work[w].result)
<1>1. Turn(w) /\ work[w] \in WorkRecs /\ work[w].pc = "settled"
  BY Busy DEF LeaveLane, IInv
<1>2. work[w].conn \in Conns /\ work[w].token \in Tokens /\ work[w].result \in Nat \X Nat
  BY <1>1, Fields
<1>3. UNCHANGED <<store, provider, rotation, mutex, caller, left, shaken>> /\ lane' = Tail(lane)
  BY DEF LeaveLane
<1>4. /\ v \in WorkRecs /\ v.pc = "persist" /\ v.conn = work[w].conn /\ v.result = work[w].result
      /\ v.leader = work[w].leader
  BY <1>1, <1>2, StageFields DEF WorkStates
<1>5. work' = [work EXCEPT ![w] = v]
  BY <1>1 DEF LeaveLane, Stage, IInv, Typed, WorkRecs
<1> HIDE DEF v
<1>6. work' \in [Works -> {Free} \cup WorkRecs] /\ \A u \in Works : work'[u] = IF u = w THEN v ELSE work[u]
  BY <1>4, <1>5 DEF IInv, Typed
<1>7. Lanes' /\ lane' \in Seq(Works) /\ NoDup(lane')
  BY <1>1, <1>3, <1>4, <1>6, LaneLeft
<1>8. Typed'
  BY <1>3, <1>6, <1>7 DEF IInv, Typed, store, provider
<1>9. Joined'
  <2>1. ASSUME NEW d \in Conns, mutex'[d] # NoWork
        PROVE  mutex'[d] \notin left' /\ work'[mutex'[d]].pc # "free" /\ work'[mutex'[d]].conn = d
    BY <2>1, <1>3, <1>4, <1>6 DEF IInv, Typed, Joined
  <2>2. ASSUME NEW u \in Works, work'[u].pc # "free", work'[u].conn \notin shaken'
        PROVE  mutex'[work'[u].conn] = u
    BY <2>2, <1>1, <1>3, <1>4, <1>6 DEF IInv, Joined
  <2>3. ASSUME NEW u \in Works, work'[u].pc # "free", Outside(work[u])'
        PROVE  work'[u].conn \in shaken'
    BY <2>3, <1>1, <1>3, <1>4, <1>6 DEF IInv, Joined, Outside, Bypasses
  <2> QED
    BY <2>1, <2>2, <2>3 DEF Joined
<1>10. ASSUME NEW d \in Conns \ shaken' PROVE Steady(d)'
  <2>1. Steady(d)
    BY <1>3 DEF IInv
  <2>2. Newest(d)' = Newest(d) /\ Spent(d, 1)' = Spent(d, 1) /\ row'[d] = row[d] /\ rotation'[d] = rotation[d]
        /\ revoked'[d] = revoked[d] /\ live'[d] = live[d] /\ mutex'[d] = mutex[d]
    BY <1>3 DEF Newest, Spent, store, provider
  <2>3. ASSUME NEW x \in Works, work'[x].pc # "free", work'[x].conn = d PROVE OnTrack(work[x], d)'
    <3>1. CASE x = w
      <4>1. OnTrack(work[w], d) /\ work'[x] = v
        BY <3>1, <2>1, <2>3, <1>1, <1>4, <1>6 DEF Steady
      <4> QED
        BY <4>1, <2>2, <1>1, <1>4 DEF OnTrack
    <3>2. CASE x # w
      <4>1. OnTrack(work[x], d) /\ work'[x] = work[x]
        BY <3>2, <2>1, <2>3, <1>6 DEF Steady
      <4>2. Spent(d, 2)' = Spent(d, 2)
        BY <2>2 DEF Spent
      <4> QED
        BY <4>1, <4>2, <2>2 DEF OnTrack
    <3> QED
      BY <3>1, <3>2
  <2> QED
    BY <2>1, <2>2, <2>3 DEF Steady
<1> QED
  BY <1>7, <1>8, <1>9, <1>10 DEF IInv

(* The refresh writes its result and ends.                                 *)
LEMMA PersistKeeps ==
    ASSUME IInv, NEW w \in Works, Persist(w)
    PROVE  IInv'
<1> DEFINE c == work[w].conn
           t == ToStore(w)
           new == t \in Tokens
<1>1. work[w] \in WorkRecs /\ work[w].pc \in {"persist", "returned"}
  BY Busy DEF Persist, IInv
<1>2. c \in Conns
  BY <1>1, Fields
<1>3. /\ row' = IF new /\ Writes(w) THEN [row EXCEPT ![c] = t]
                ELSE IF t = Refused /\ Clears(w) THEN [row EXCEPT ![c] = Cleared] ELSE row
      /\ valid' = IF new /\ Writes(w) THEN valid \cup {c} ELSE valid
      /\ down' = IF t = Refused /\ Deactivates(w) THEN down \cup {c}
                 ELSE IF new /\ Imports(w) THEN down \ {c} ELSE down
      /\ shaken' = IF new /\ Skips(w) /\ ~Fallback(w) /\ Older(row[c], t) THEN shaken \cup {c} ELSE shaken
      /\ Served(w, t) /\ Evict(w) /\ work' = [work EXCEPT ![w] = Free]
      /\ UNCHANGED <<provider, rotation, lane, left>>
  BY DEF Persist
<1>4. /\ caller' \in [Callers -> {Idle} \cup CallerRecs]
      /\ mutex' \in [Conns -> Works \cup {NoWork}]
      /\ \A d \in Conns : mutex'[d] = IF mutex[d] = w THEN NoWork ELSE mutex[d]
  BY <1>3, ServedEvicted
<1>5. work' \in [Works -> {Free} \cup WorkRecs] /\ \A u \in Works : work'[u] = IF u = w THEN Free ELSE work[u]
  BY <1>3 DEF IInv, Typed
<1>6. Free.pc = "free"
  BY Fields
<1>7. shaken \subseteq shaken' /\ shaken' \subseteq Conns
  BY <1>2, <1>3 DEF IInv, Typed
<1>8. Typed'
  <2>1. row' \in [Conns -> Tokens \cup {Cleared}]
    BY <1>2, <1>3 DEF IInv, Typed
  <2>2. valid' \subseteq Conns /\ down' \subseteq Conns
    BY <1>2, <1>3 DEF IInv, Typed
  <2> QED
    BY <2>1, <2>2, <1>3, <1>4, <1>5, <1>7 DEF IInv, Typed, provider
<1>9. Lanes'
  <2>1. w \notin left /\ w \notin RangeOf(lane) /\ RangeOf(lane) \subseteq Works
    BY <1>1, LaneWorks DEF IInv, Lanes
  <2>2. \A u \in left' : work'[u].pc \in {"posting", "answered"} /\ work'[u].conn \in shaken'
    BY <2>1, <1>3, <1>5, <1>7 DEF IInv, Typed, Lanes
  <2>3. \A u \in RangeOf(lane') : work'[u].pc \in {"queued", "posting", "answered", "settled"}
    BY <2>1, <1>3, <1>5 DEF IInv, Lanes
  <2>4. \A u \in Works : work'[u].pc = "queued" => u \in RangeOf(lane')
    BY <1>3, <1>5, <1>6 DEF IInv, Lanes
  <2>5. \A u \in Works \ left' : work'[u].pc \in {"posting", "answered", "settled"} => Turn(u)'
    BY <1>3, <1>5, <1>6 DEF IInv, Lanes, Turn
  <2>6. RangeOf(lane') \cap left' = {}
    BY <1>3 DEF IInv, Lanes
  <2> QED
    BY <2>2, <2>3, <2>4, <2>5, <2>6 DEF Lanes
<1>10. Joined'
  <2>1. ASSUME NEW d \in Conns, mutex'[d] # NoWork
        PROVE  mutex'[d] \notin left' /\ work'[mutex'[d]].pc # "free" /\ work'[mutex'[d]].conn = d
    BY <2>1, <1>3, <1>4, <1>5 DEF IInv, Typed, Joined
  <2>2. ASSUME NEW u \in Works, work'[u].pc # "free", work'[u].conn \notin shaken'
        PROVE  mutex'[work'[u].conn] = u
    <3>1. u # w /\ work'[u] = work[u]
      BY <2>2, <1>5, <1>6
    <3>2. work[u].conn \in Conns /\ mutex[work[u].conn] = u
      BY <2>2, <3>1, <1>7, Busy, Fields DEF IInv, Joined
    <3> QED
      BY <3>1, <3>2, <1>4
  <2>3. ASSUME NEW u \in Works, work'[u].pc # "free", Outside(work[u])'
        PROVE  work'[u].conn \in shaken'
    BY <2>3, <1>5, <1>6, <1>7 DEF IInv, Joined, Outside, Bypasses
  <2> QED
    BY <2>1, <2>2, <2>3 DEF Joined
<1>11. ASSUME NEW d \in Conns \ shaken' PROVE Steady(d)'
  <2>1. Steady(d) /\ d \notin shaken
    BY <1>7 DEF IInv
  <2>2. CASE d # c
    <3>1. row'[d] = row[d]
      BY <2>2, <1>2, <1>3 DEF IInv, Typed
    <3>2. mutex'[d] = mutex[d]
      BY <2>2, <1>4, RefreshAssumption DEF IInv, Joined
    <3> QED
      BY <2>1, <3>1, <3>2, <1>3, <1>5, <1>6, SteadyElsewhere DEF provider
  <2>3. CASE d = c
    <3>1. /\ OnTrack(work[w], d) /\ mutex[d] = w
          /\ \A x \in Works : work[x].pc # "free" /\ work[x].conn = d => x = w
      BY <2>1, <2>3, <1>1, OnlyWork
    <3>p. work[w].pc = "persist" /\ t = work[w].result /\ ~Bypasses(work[w].leader)
      BY <2>1, <2>3, <1>1, OnlyWork DEF ToStore, Imports, Bypasses
    <3>2. /\ rotation[d] \subseteq {Spent(d, 1)}
          /\ t = Newest(d) \/ (t = Failed /\ row[d] = Newest(d))
      BY <3>1, <3>p DEF OnTrack
    <3>3. Newest(d)' = Newest(d) /\ Spent(d, 1)' = Spent(d, 1) /\ rotation'[d] = rotation[d]
          /\ revoked'[d] = revoked[d] /\ live'[d] = live[d]
      BY <1>3 DEF Newest, Spent, provider
    <3>4. mutex'[d] = NoWork
      BY <3>1, <1>4
    <3>5. \A x \in Works : ~(work'[x].pc # "free" /\ work'[x].conn = d)
      BY <3>1, <1>5, <1>6
    <3>6. row'[d] = Newest(d)
      <4>1. CASE t = Newest(d)
        <5>1. new /\ t # Refused
          BY <4>1, <2>1, RefreshAssumption DEF Newest, Steady, Tokens, Refused, IInv, Typed
        <5>2. CASE Writes(w)
          BY <5>1, <5>2, <4>1, <2>3, <1>2, <1>3 DEF IInv, Typed
        <5>3. CASE ~Writes(w)
          <6>1. ~Older(row[d], t) /\ row' = row
            BY <5>1, <5>3, <3>p, <2>3, <1>2, <1>3 DEF Writes
          <6>2. PICK j \in 1..live[d][1] : row[d] = <<1, j>>
            BY <2>1 DEF Steady
          <6>3. j = live[d][1]
            BY <6>1, <6>2, <4>1, <2>1 DEF Older, Newest, Steady
          <6> QED
            BY <6>1, <6>2, <6>3 DEF Newest
        <5> QED
          BY <5>2, <5>3
      <4>2. CASE t = Failed /\ row[d] = Newest(d)
        BY <4>2, <1>3, NoTokens
      <4> QED
        BY <3>2, <4>1, <4>2
    <3>7. \E j \in 1..live'[d][1] : row'[d] = <<1, j>>
      BY <3>3, <3>6, <2>1 DEF Newest, Steady
    <3> QED
      BY <2>1, <3>2, <3>3, <3>4, <3>5, <3>6, <3>7 DEF Steady
  <2> QED
    BY <2>2, <2>3
<1> QED
  BY <1>8, <1>9, <1>10, <1>11 DEF IInv

(* The bound on the shared promise.                                        *)
LEMMA MutexTimeoutKeeps ==
    ASSUME IInv, NEW c \in Conns, MutexTimeout(c)
    PROVE  IInv'
<1> DEFINE w == mutex[c]
<1>1. w \in Works /\ work[w].conn = c
  BY DEF MutexTimeout, IInv, Typed, Joined
<1>2. /\ UNCHANGED <<store, provider, rotation, lane, work, left>> /\ shaken' = shaken \cup {c}
      /\ Served(w, Failed) /\ Evict(w)
  BY DEF MutexTimeout, Shakes
<1> HIDE DEF w
<1>3. /\ caller' \in [Callers -> {Idle} \cup CallerRecs]
      /\ mutex' \in [Conns -> Works \cup {NoWork}]
      /\ \A d \in Conns : mutex'[d] = IF mutex[d] = w THEN NoWork ELSE mutex[d]
  BY <1>1, <1>2, ServedEvicted
<1>4. Typed'
  BY <1>2, <1>3 DEF IInv, Typed, store, provider
<1>5. Lanes'
  BY <1>2 DEF IInv, Lanes, Turn
<1>6. Joined'
  <2>1. ASSUME NEW d \in Conns, mutex'[d] # NoWork
        PROVE  mutex'[d] \notin left' /\ work'[mutex'[d]].pc # "free" /\ work'[mutex'[d]].conn = d
    BY <2>1, <1>2, <1>3 DEF IInv, Joined
  <2>2. ASSUME NEW u \in Works, work'[u].pc # "free", work'[u].conn \notin shaken'
        PROVE  mutex'[work'[u].conn] = u
    <3>1. work[u].conn \in Conns /\ mutex[work[u].conn] = u /\ work[u].conn # c
      BY <2>2, <1>2, Busy, Fields DEF IInv, Joined
    <3> QED
      BY <3>1, <1>1, <1>2, <1>3
  <2>3. ASSUME NEW u \in Works, work'[u].pc # "free", Outside(work[u])'
        PROVE  work'[u].conn \in shaken'
    BY <2>3, <1>2 DEF IInv, Joined, Outside, Bypasses
  <2> QED
    BY <2>1, <2>2, <2>3 DEF Joined
<1>7. ASSUME NEW d \in Conns \ shaken' PROVE Steady(d)'
  <2>1. Steady(d) /\ d # c
    BY <1>2 DEF IInv
  <2>2. mutex'[d] = mutex[d]
    BY <2>1, <1>1, <1>3, RefreshAssumption DEF IInv, Joined
  <2> QED
    BY <2>1, <2>2, <1>2, SteadyElsewhere DEF store, provider
<1> QED
  BY <1>4, <1>5, <1>6, <1>7 DEF IInv

(* The access token or an entry of the rotation map expires.               *)
LEMMA ExpiryKeeps ==
    ASSUME IInv, NEW c \in Conns,
           AccessExpires(c) \/ \E t \in rotation[c] : RotationExpires(c, t)
    PROVE  IInv'
<1>1. /\ row' = row /\ down' = down /\ valid' \subseteq valid /\ live' = live /\ revoked' = revoked
      /\ UNCHANGED <<mutex, lane, work, caller, left, shaken>>
  BY DEF AccessExpires, RotationExpires, store, provider
<1>2. rotation' \in [Conns -> SUBSET Tokens] /\ \A d \in Conns : rotation'[d] \subseteq rotation[d]
  BY DEF AccessExpires, RotationExpires, IInv, Typed
<1>3. Typed'
  BY <1>1, <1>2 DEF IInv, Typed
<1>4. Lanes' /\ Joined'
  BY <1>1 DEF IInv, Lanes, Joined, Turn
<1>5. \A d \in Conns \ shaken' : Steady(d)'
  BY <1>1, <1>2, SteadyElsewhere DEF IInv
<1> QED
  BY <1>3, <1>4, <1>5 DEF IInv

(* The user logs in again.                                                 *)
LEMMA LoginKeeps ==
    ASSUME IInv, NEW c \in Conns, Login(c)
    PROVE  IInv'
<1>1. PICK t \in Tokens : live' = [live EXCEPT ![c][t[1]] = 1] /\ row' = [row EXCEPT ![c] = t]
  BY DEF Login
<1>2. /\ valid' = valid \cup {c} /\ down' = down \ {c} /\ shaken' = shaken \cup {c}
      /\ UNCHANGED <<revoked, rotation, mutex, lane, work, caller, left>>
  BY DEF Login, Shakes
<1>3. live' \in [Conns -> [1..MaxFamily -> 0..MaxRotations]]
  <2> DEFINE lc == [live[c] EXCEPT ![t[1]] = 1]
  <2>1. lc \in [1..MaxFamily -> 0..MaxRotations]
    BY RefreshAssumption DEF IInv, Typed, Tokens
  <2>2. live' = [live EXCEPT ![c] = lc]
    BY <1>1
  <2> HIDE DEF lc
  <2> QED
    BY <2>1, <2>2 DEF IInv, Typed
<1>4. row' \in [Conns -> Tokens \cup {Cleared}]
  BY <1>1 DEF IInv, Typed
<1>5. Typed'
  BY <1>2, <1>3, <1>4 DEF IInv, Typed
<1>6. Lanes' /\ Joined'
  BY <1>2 DEF IInv, Lanes, Joined, Turn, Outside, Bypasses
<1>7. ASSUME NEW d \in Conns \ shaken' PROVE Steady(d)'
  <2>1. Steady(d) /\ d # c
    BY <1>2 DEF IInv
  <2>2. live'[d] = live[d] /\ row'[d] = row[d]
    BY <2>1, <1>1 DEF IInv, Typed
  <2> QED
    BY <2>1, <2>2, <1>2, SteadyElsewhere
<1> QED
  BY <1>5, <1>6, <1>7 DEF IInv

-----------------------------------------------------------------------------
(* Every step preserves the invariant.                                     *)
LEMMA NextIInv == IInv /\ [Next]_vars => IInv'
<1> SUFFICES ASSUME IInv, [Next]_vars PROVE IInv'
  OBVIOUS
<1>1. CASE UNCHANGED vars
  <2>1. UNCHANGED <<store, provider, rotation, mutex, lane, work, left, shaken>> /\ caller' = caller
    BY <1>1 DEF vars, store, provider
  <2> QED
    BY <2>1, CallersOnly DEF IInv, Typed
<1>2. CASE \E k \in Callers, c \in Conns : Load(k, c) \/ Import(k, c)
  BY <1>2, LoadKeeps, ImportKeeps
<1>3. CASE \E k \in Callers : GetAccessToken(k) \/ RefreshDirectly(k) \/ StopWaiting(k)
  BY <1>3, GetAccessTokenKeeps, RefreshDirectlyKeeps, StopKeeps
<1>4. CASE \E w \in Works : TakeTurn(w) \/ ProviderAnswers(w) \/ PostFails(w) \/ Answer(w)
                            \/ LaneTimeout(w) \/ LeaveLane(w) \/ Persist(w)
  BY <1>4, TakeTurnKeeps, ProviderAnswersKeeps, PostFailsKeeps, AnswerKeeps,
     LaneTimeoutKeeps, LeaveLaneKeeps, PersistKeeps
<1>5. CASE \E c \in Conns : MutexTimeout(c) \/ AccessExpires(c) \/ Login(c)
                            \/ \E t \in rotation[c] : RotationExpires(c, t)
  BY <1>5, MutexTimeoutKeeps, ExpiryKeeps, LoginKeeps
<1> QED
  BY <1>1, <1>2, <1>3, <1>4, <1>5 DEF Next

(* The inductive invariant holds in every reachable state.                 *)
THEOREM RefreshInvariance == Spec => []IInv
<1>1. IInv /\ [Next]_vars => IInv'
  BY NextIInv
<1> QED
  BY InitIInv, <1>1, PTL DEF Spec

(* The row, the maps, the lane and the refreshes keep their types, and a   *)
(* refresh that was given up never stands in the lane again.               *)
THEOREM RefreshType == Spec => []TypeOK
<1>1. IInv => TypeOK
  <2> SUFFICES ASSUME IInv PROVE TypeOK
    OBVIOUS
  <2>1. RangeOf(lane) \subseteq Works /\ left \subseteq Works \ RangeOf(lane)
    BY LaneWorks DEF IInv, Typed, Lanes
  <2>2. \A w \in Works : work[w].pc \in WorkStates
    BY Busy, Fields DEF IInv, WorkStates
  <2>3. \A k \in Callers : caller[k].pc \in {"idle", "loaded", "waiting"}
    BY Busy, Fields DEF IInv
  <2> QED
    BY <2>1, <2>2, <2>3 DEF IInv, Typed, TypeOK
<1> QED
  BY RefreshInvariance, <1>1, PTL

(* No refresh token is presented twice: for any number of callers with     *)
(* whatever old copies, siblings, joined refreshes and failed POSTs, the   *)
(* provider never revokes the family of a connection whose refreshes use   *)
(* mutex and lane, end in their tenure and get its answer (the re-read of  *)
(* the row and the rotation map in _refreshWithFreshCredentials).          *)
THEOREM TokensNeverReused == Spec => []TokensUsedOnce
<1>1. IInv => TokensUsedOnce
  BY DEF IInv, Steady, TokensUsedOnce
<1> QED
  BY RefreshInvariance, <1>1, PTL

(* Under the same conditions the token the provider would accept is in the *)
(* row, or with the one refresh that is about to write it (onPersist       *)
(* inside the mutex).                                                      *)
THEOREM LiveTokenNeverLost == Spec => []LiveTokenKept
<1>1. IInv => LiveTokenKept
  <2> SUFFICES ASSUME IInv, NEW c \in Conns, c \notin shaken
               PROVE  \/ row[c] = <<1, live[c][1]>>
                      \/ \E w \in Works \ left : /\ work[w].pc \in {"answered", "settled", "persist"}
                                                 /\ work[w].conn = c /\ work[w].result = <<1, live[c][1]>>
    BY DEF LiveTokenKept
  <2>1. Steady(c)
    BY DEF IInv
  <2>2. CASE mutex[c] = NoWork
    BY <2>1, <2>2 DEF Steady, Newest
  <2>3. CASE mutex[c] # NoWork
    <3> DEFINE w == mutex[c]
    <3>1. w \in Works \ left /\ work[w].pc # "free" /\ work[w].conn = c
      BY <2>3 DEF IInv, Typed, Joined
    <3>2. OnTrack(work[w], c) /\ work[w].pc \in WorkStates \ {"direct", "returned"}
      BY <3>1, Busy, Fields, OnlyWork DEF IInv
    <3> HIDE DEF w
    <3> QED
      BY <3>1, <3>2 DEF OnTrack, WorkStates, Newest
  <2> QED
    BY <2>2, <2>3
<1> QED
  BY RefreshInvariance, <1>1, PTL

(* refreshSerializer: two refreshes of a group POST at the same time only  *)
(* when the tenure of one was given up or one does not use the serializer. *)
THEOREM SerializerSeparates == Spec => []SiblingsApart
<1>1. IInv => SiblingsApart
  BY DEF IInv, Lanes, Turn, Posts, PastLane, SiblingsApart
<1> QED
  BY RefreshInvariance, <1>1, PTL
=============================================================================
