---------------------------- MODULE TokenRefresh ----------------------------
(***************************************************************************)
(* How OAuth refresh tokens that can be used once are refreshed            *)
(* (open-sse/services/tokenRefresh.ts, tokenRefresh/rotationMap.ts,        *)
(* tokenRefresh/casGuard.ts, refreshSerializer.ts) and by whom: the        *)
(* reactive path after a 401 (chatCore.ts), the proactive one              *)
(* (executors/base.ts), the check before a request (src/sse/services/      *)
(* tokenRefresh.ts) and the health sweep (tokenHealthCheck.ts).  Two POST  *)
(* past all of this: the executor of Kiro, a provider of a rotation group  *)
(* (executors/kiro.ts), and the import of credentials (oauth/codex/        *)
(* import/route.ts).                                                       *)
(*                                                                         *)
(* All connections belong to one rotation group.  A token <<f, g>> is the  *)
(* g-th of the family f of its connection; a new login starts a family.    *)
(* A `work' is one refresh under way, as a rule one run of the closure     *)
(* behind the mutex; it may outlive the callers that wait for it, and its  *)
(* POST may outlive its tenure of the lane.  What runs without I/O in      *)
(* between is one action.                                                  *)
(***************************************************************************)
EXTENDS Naturals, Sequences, FiniteSets, WaitQueue

CONSTANTS Conns,        \* connections of the rotation group
          Callers,      \* concurrent callers
          Kind,         \* which path each of them is
          Direct,       \* the kinds whose executor POSTs past mutex and lane
          Works,        \* slots for refreshes that are under way
          MaxFamily,    \* bound: logins per connection
          MaxRotations, \* bound: tokens per family
          MaxShaken,    \* bound: connections that become shaken from outside
          LoadShaken,   \* bound: whether callers still come to such a connection
          NoWork

Kinds == {"reactive", "proactive", "precheck", "sweep", "import"}

ASSUME RefreshAssumption ==
    /\ Kind \in [Callers -> Kinds] /\ Direct \subseteq {"reactive", "proactive"}
    /\ NoWork \notin Works
    /\ MaxFamily \in Nat \ {0} /\ MaxRotations \in Nat \ {0} /\ MaxShaken \in Nat
    /\ LoadShaken \in BOOLEAN

Tokens == (1..MaxFamily) \X (1..MaxRotations)
Rotated(t) == <<t[1], t[2] + 1>>
Older(s, t) == s[1] < t[1] \/ (s[1] = t[1] /\ s[2] < t[2])

(* Results of a refresh that are no tokens (null, and the sentinel of an   *)
(* unrecoverable error), and the refresh_token of a row that was nulled.   *)
Failed == <<0, 0>>
Refused == <<0, 1>>
Cleared == <<0, 2>>

VARIABLES row,      \* provider_connections.refresh_token
          valid,    \* connections whose stored access token is good for another minute
          down,     \* connections with isActive = false
          live,     \* provider: the token each family would accept
          revoked,  \* provider: families revoked because a used token was presented
          rotation, \* tokenRotationMap: tokens known to have been rotated
          mutex,    \* connectionRefreshMutex
          lane,     \* the chain of groupTail
          work, caller,
          left,     \* works whose tenure of the lane was given up
          shaken    \* ghost: connections with a timeout, an answer lost after the
                    \* rotation, a POST past the lane, a new login, two rotations
                    \* within a minute, or a new token that was not stored

vars == <<row, valid, down, live, revoked, rotation, mutex, lane, work, caller, left, shaken>>

WorkStates == {"free", "queued", "posting", "answered", "settled", "persist", "direct", "returned"}
Idle == [pc |-> "idle"]
Free == [pc |-> "free"]

TypeOK ==
    /\ row \in [Conns -> Tokens \cup {Cleared}]
    /\ valid \subseteq Conns /\ down \subseteq Conns /\ shaken \subseteq Conns
    /\ live \in [Conns -> [1..MaxFamily -> 0..MaxRotations]]
    /\ \A c \in Conns : revoked[c] \subseteq 1..MaxFamily /\ rotation[c] \subseteq Tokens
    /\ mutex \in [Conns -> Works \cup {NoWork}]
    /\ RangeOf(lane) \subseteq Works /\ NoDup(lane) /\ left \subseteq Works \ RangeOf(lane)
    /\ \A w \in Works : work[w].pc \in WorkStates
    /\ \A k \in Callers : caller[k].pc \in {"idle", "loaded", "waiting"}

(* Whose refresh takes neither mutex nor lane.                             *)
Bypasses(k) == Kind[k] \in Direct \cup {"import"}

Init ==
    /\ row = [c \in Conns |-> <<1, 1>>]
    /\ valid = {} /\ down = {}
    /\ live = [c \in Conns |-> [f \in 1..MaxFamily |-> IF f = 1 THEN 1 ELSE 0]]
    /\ revoked = [c \in Conns |-> {}]
    /\ rotation = [c \in Conns |-> {}]
    /\ mutex = [c \in Conns |-> NoWork]
    /\ lane = << >>
    /\ work = [w \in Works |-> Free]
    /\ caller = [k \in Callers |-> Idle]
    /\ left = {} /\ shaken = {}

store == <<row, valid, down>>
provider == <<live, revoked>>

-----------------------------------------------------------------------------
(* A caller reads the connection: later it is "the token it presented".    *)
Load(k, c) ==
    /\ caller[k].pc = "idle" /\ Kind[k] # "import"
    /\ c \notin down /\ row[c] # Cleared
    /\ c \in shaken => LoadShaken
    /\ caller' = [caller EXCEPT ![k] = [pc |-> "loaded", conn |-> c, token |-> row[c], attempted |-> row[c]]]
    /\ UNCHANGED <<store, provider, rotation, mutex, lane, work, left, shaken>>

FreeWorks == {w \in Works : work[w].pc = "free"}

Shakes(c) == Cardinality(shaken \cup {c}) <= MaxShaken /\ shaken' = shaken \cup {c}
Waits(k, w, c, t, attempted) ==
    caller' = [caller EXCEPT ![k] = [pc |-> "waiting", on |-> w, conn |-> c, token |-> t, attempted |-> attempted]]

(* Caller k starts the refresh w of connection c with the token t.         *)
Starts(k, w, where, c, t, attempted) ==
    /\ work' = [work EXCEPT ![w] = [pc |-> where, conn |-> c, leader |-> k, token |-> t,
                                    attempted |-> attempted, result |-> Failed]]
    /\ Waits(k, w, c, t, attempted)

(* getAccessToken: join the refresh of the connection or start one, which  *)
(* queues for the lane of the group.                                       *)
GetAccessToken(k) ==
    /\ caller[k].pc = "loaded" /\ ~Bypasses(k)
    /\ LET c == caller[k].conn
           t == caller[k].token
           a == caller[k].attempted
       IN  \/ mutex[c] # NoWork /\ Waits(k, mutex[c], c, t, a) /\ UNCHANGED <<mutex, lane, work>>
           \/ /\ mutex[c] = NoWork /\ FreeWorks # {}
              /\ LET w == CHOOSE u \in FreeWorks : TRUE IN
                    /\ Starts(k, w, "queued", c, t, a)
                    /\ mutex' = [mutex EXCEPT ![c] = w]
                    /\ lane' = Append(lane, w)
    /\ UNCHANGED <<store, provider, rotation, left, shaken>>

(* KiroExecutor.refreshCredentials POSTs the token the caller loaded.      *)
RefreshDirectly(k) ==
    /\ caller[k].pc = "loaded" /\ Bypasses(k) /\ FreeWorks # {}
    /\ Starts(k, CHOOSE u \in FreeWorks : TRUE, "direct", caller[k].conn, caller[k].token, caller[k].attempted)
    /\ Shakes(caller[k].conn)
    /\ UNCHANGED <<store, provider, rotation, mutex, lane, left>>

(* The first token of the next family, which a login issues.               *)
Fresh(c, t) == t[2] = 1 /\ live[c][t[1]] = 0 /\ \A e \in 1..t[1] - 1 : live[c][e] # 0

(* The import of credentials for a connection: validateCodexRefreshToken   *)
(* POSTs the token that is supplied, any that the provider has issued.     *)
Import(k, c) ==
    /\ caller[k].pc = "idle" /\ Kind[k] = "import" /\ FreeWorks # {}
    /\ c \in shaken => LoadShaken
    /\ \E t \in Tokens :
          /\ t[2] <= live[c][t[1]] \/ Fresh(c, t)
          /\ live' = [live EXCEPT ![c][t[1]] = IF @ = 0 THEN 1 ELSE @]
          /\ Starts(k, CHOOSE u \in FreeWorks : TRUE, "direct", c, t, t)
    /\ Shakes(c)
    /\ UNCHANGED <<store, revoked, rotation, mutex, lane, left>>

(* refreshWithRetry: the reactive path calls again, with the same object.  *)
Again(k) == [pc |-> "loaded", conn |-> caller[k].conn, token |-> caller[k].token, attempted |-> caller[k].attempted]

(* Its withTimeout ends an attempt after 30 s; every caller may give up    *)
(* between two attempts.                                                   *)
StopWaiting(k) ==
    /\ \/ caller[k].pc = "waiting" /\ Kind[k] = "reactive" /\ caller' = [caller EXCEPT ![k] = Again(k)]
       \/ caller[k].pc = "loaded" /\ caller' = [caller EXCEPT ![k] = Idle]
    /\ UNCHANGED <<store, provider, rotation, mutex, lane, work, left, shaken>>

-----------------------------------------------------------------------------
(* Mutant of Turn: a refresh does not wait for the ones before it.         *)
TurnAtOnce(w) == w \in RangeOf(lane)

(* await prevTail: the refresh at the head of the chain has the lane.      *)
Turn(w) == lane # << >> /\ Head(lane) = w

(* Mutant of TakeTurn: the token in memory is presented.                   *)
TakeTurnUnread(w) ==
    /\ Turn(w) /\ work[w].pc = "queued"
    /\ work' = [work EXCEPT ![w].pc = "posting"]
    /\ UNCHANGED <<store, provider, rotation, mutex, lane, caller, left, shaken>>

(* _refreshWithFreshCredentials, in turn: the rotation map is asked, then  *)
(* the row is read again: its token is returned while it is valid, and is  *)
(* presented instead of the one in memory (also in the caller's object)    *)
(* when it is not.                                                         *)
TakeTurn(w) ==
    /\ Turn(w) /\ work[w].pc = "queued"
    /\ LET c == work[w].conn
           t == work[w].token
           k == work[w].leader
           fresh == IF row[c] = Cleared THEN t ELSE row[c]
           settle(u) == /\ work' = [work EXCEPT ![w].pc = "settled", ![w].result = u]
                        /\ UNCHANGED caller
       IN  \/ t \in rotation[c] /\ settle(Rotated(t))
           \/ t \notin rotation[c] /\ fresh # t /\ c \in valid /\ settle(fresh)
           \/ /\ t \notin rotation[c] /\ (fresh = t \/ c \notin valid)
              /\ work' = [work EXCEPT ![w].pc = "posting", ![w].token = fresh]
              /\ caller' = IF caller[k].pc # "idle" /\ caller[k].conn = c
                           THEN [caller EXCEPT ![k].token = fresh] ELSE caller
    /\ UNCHANGED <<store, provider, rotation, mutex, lane, left, shaken>>

(* The provider: the live token of a family is exchanged for the next one; *)
(* any other token revokes its family.                                     *)
ProviderAnswers(w) ==
    /\ work[w].pc \in {"posting", "direct"}
    /\ LET c == work[w].conn
           t == work[w].token
           ok == live[c][t[1]] = t[2] /\ t[1] \notin revoked[c]
       IN  /\ ok => t[2] < MaxRotations
           /\ work' = [work EXCEPT ![w].pc = IF @ = "direct" THEN "returned" ELSE "answered",
                                   ![w].result = IF ok THEN Rotated(t) ELSE Refused]
           /\ live' = IF ok THEN [live EXCEPT ![c][t[1]] = @ + 1] ELSE live
           /\ revoked' = IF ok THEN revoked ELSE [revoked EXCEPT ![c] = @ \cup {t[1]}]
    /\ UNCHANGED <<store, rotation, mutex, lane, caller, left, shaken>>

(* The POST fails: before it reaches the provider, or its answer is lost   *)
(* or cannot be read after the provider has rotated.  Both are caught and  *)
(* are null, within the tenure.                                            *)
PostFails(w) ==
    /\ work[w].pc \in {"posting", "answered", "direct", "returned"}
    /\ LET after == IF work[w].pc \in {"posting", "answered"} THEN "settled" ELSE "persist" IN
          work' = [work EXCEPT ![w] = IF w \in left THEN Free ELSE [@ EXCEPT !.pc = after, !.result = Failed]]
    /\ IF work[w].result \in Tokens THEN Shakes(work[w].conn) ELSE UNCHANGED shaken
    /\ left' = left \ {w}
    /\ UNCHANGED <<store, provider, rotation, mutex, lane, caller>>

(* The answer arrives: recordRotation.  When the tenure was given up       *)
(* nobody takes the result.                                                *)
Answer(w) ==
    /\ work[w].pc = "answered"
    /\ rotation' = IF work[w].result \in Tokens
                   THEN [rotation EXCEPT ![work[w].conn] = @ \cup {work[w].token}] ELSE rotation
    /\ shaken' = IF rotation[work[w].conn] # {} THEN shaken \cup {work[w].conn} ELSE shaken
    /\ work' = [work EXCEPT ![w] = IF w \in left THEN Free ELSE [@ EXCEPT !.pc = "settled"]]
    /\ left' = left \ {w}
    /\ UNCHANGED <<store, provider, mutex, lane, caller>>

-----------------------------------------------------------------------------
Waiting(w) == {k \in Callers : caller[k].pc = "waiting" /\ caller[k].on = w}
Served(w, t) == caller' = [k \in Callers |-> IF k \notin Waiting(w) THEN caller[k]
                              ELSE IF t = Failed /\ Kind[k] = "reactive" THEN Again(k) ELSE Idle]
Evict(w) == mutex' = [c \in Conns |-> IF mutex[c] = w THEN NoWork ELSE mutex[c]]

(* Mutants of LaneTimeout: there is no bound; the lane is not released.    *)
LaneTimeoutNever(w) == FALSE /\ UNCHANGED vars
LaneTimeoutKeepsLane(w) ==
    /\ Turn(w) /\ work[w].pc \in {"posting", "answered"}
    /\ left' = left \cup {w}
    /\ Shakes(work[w].conn)
    /\ Served(w, Failed) /\ Evict(w)
    /\ UNCHANGED <<store, provider, rotation, work, lane>>

(* The bound on the tenure: the lane goes to the next, the work returns    *)
(* null, its POST stays on the network.                                    *)
LaneTimeout(w) ==
    /\ Turn(w) /\ work[w].pc \in {"posting", "answered"}
    /\ lane' = Tail(lane)
    /\ left' = left \cup {w}
    /\ Shakes(work[w].conn)
    /\ Served(w, Failed) /\ Evict(w)
    /\ UNCHANGED <<store, provider, rotation, work>>

(* The end of serializeRefresh, after the settle gap if others queue.      *)
LeaveLane(w) ==
    /\ Turn(w) /\ work[w].pc = "settled"
    /\ lane' = Tail(lane)
    /\ work' = [work EXCEPT ![w].pc = "persist"]
    /\ UNCHANGED <<store, provider, rotation, mutex, caller, left, shaken>>

(* wasRefreshTokenRotated.                                                 *)
RotatedPast(c, t) == row[c] \notin {t, Cleared}

(* casGuardShouldSkipPersist: only the reactive path has a guard.          *)
Skips(w) == Kind[work[w].leader] = "reactive" /\ RotatedPast(work[w].conn, work[w].attempted)

(* Each caller whose own persist callback did not run writes the result    *)
(* itself, except the check before a request.                              *)
Fallback(w) == \E k \in Waiting(w) : Kind[k] # "precheck"

(* Mutant of Writes: the result is written by the callers that wait.       *)
WritesForWaiters(w) == Fallback(w)

(* The leader's onPersist runs inside the work, whoever still waits, but   *)
(* not past the mutex.                                                     *)
Writes(w) == (~Bypasses(work[w].leader) /\ ~Skips(w)) \/ Fallback(w)

(* An import stores the token it was given when the check was inconclusive.*)
Imports(w) == Kind[work[w].leader] = "import"
ToStore(w) == IF Imports(w) /\ work[w].result = Failed THEN work[w].token ELSE work[w].result

(* A caller that sees the error sentinel condemns the connection unless    *)
(* the row changed since it was loaded: the reactive path deactivates it,  *)
(* the sweep nulls the token of the row once the access token expired.     *)
Deactivates(w) == \E k \in Waiting(w) :
    Kind[k] = "reactive" /\ ~RotatedPast(work[w].conn, caller[k].attempted)
Clears(w) == work[w].conn \notin valid /\ \E k \in Waiting(w) :
    Kind[k] = "sweep" /\ row[work[w].conn] = caller[k].attempted

Persist(w) ==
    /\ work[w].pc \in {"persist", "returned"}
    /\ LET c == work[w].conn
           t == ToStore(w)
           new == t \in Tokens
       IN  /\ row' = IF new /\ Writes(w) THEN [row EXCEPT ![c] = t]
                     ELSE IF t = Refused /\ Clears(w) THEN [row EXCEPT ![c] = Cleared] ELSE row
           /\ valid' = IF new /\ Writes(w) THEN valid \cup {c} ELSE valid
           /\ down' = IF t = Refused /\ Deactivates(w) THEN down \cup {c}
                      ELSE IF new /\ Imports(w) THEN down \ {c} ELSE down
           /\ shaken' = IF new /\ Skips(w) /\ ~Fallback(w) /\ Older(row[c], t) THEN shaken \cup {c} ELSE shaken
           /\ Served(w, t)
    /\ work' = [work EXCEPT ![w] = Free]
    /\ Evict(w)
    /\ UNCHANGED <<provider, rotation, lane, left>>

(* The bound on the shared promise: everyone gets null, the work goes on.  *)
MutexTimeout(c) ==
    /\ mutex[c] # NoWork
    /\ Served(mutex[c], Failed) /\ Evict(mutex[c])
    /\ Shakes(c)
    /\ UNCHANGED <<store, provider, rotation, lane, work, left>>

-----------------------------------------------------------------------------
AccessExpires(c) ==
    /\ c \in valid
    /\ valid' = valid \ {c}
    /\ UNCHANGED <<row, down, provider, rotation, mutex, lane, work, caller, left, shaken>>

(* An entry lives 60 s, longer than the way from the answer to the row.    *)
RotationExpires(c, t) ==
    /\ t \in rotation[c]
    /\ \A w \in Works : work[w].pc \in {"settled", "persist"} => work[w].conn # c
    /\ rotation' = [rotation EXCEPT ![c] = @ \ {t}]
    /\ UNCHANGED <<store, provider, mutex, lane, work, caller, left, shaken>>

(* The user logs in again: the exchange for the matching connection.       *)
Login(c) ==
    /\ \E t \in Tokens : /\ Fresh(c, t)
                          /\ live' = [live EXCEPT ![c][t[1]] = 1]
                          /\ row' = [row EXCEPT ![c] = t]
    /\ valid' = valid \cup {c} /\ down' = down \ {c}
    /\ Shakes(c)
    /\ UNCHANGED <<revoked, rotation, mutex, lane, work, caller, left>>

Next ==
    \/ \E k \in Callers, c \in Conns : Load(k, c) \/ Import(k, c)
    \/ \E k \in Callers : GetAccessToken(k) \/ RefreshDirectly(k) \/ StopWaiting(k)
    \/ \E w \in Works : TakeTurn(w) \/ ProviderAnswers(w) \/ PostFails(w) \/ Answer(w)
                        \/ LaneTimeout(w) \/ LeaveLane(w) \/ Persist(w)
    \/ \E c \in Conns : MutexTimeout(c) \/ AccessExpires(c) \/ Login(c)
                        \/ \E t \in rotation[c] : RotationExpires(c, t)

Spec == Init /\ [][Next]_vars

(* The process makes progress and its lane timer fires; the network may    *)
(* stay silent for ever, and the bound on the mutex is not relied upon.    *)
FairSpec ==
    /\ Spec
    /\ \A w \in Works : WF_vars(TakeTurn(w) \/ LaneTimeout(w) \/ LeaveLane(w) \/ Persist(w))

-----------------------------------------------------------------------------
(* A token is presented once: no interleaving of callers with old copies,  *)
(* joined or evicted refreshes, siblings and failed POSTs makes the        *)
(* provider revoke the family of a connection whose refreshes go through   *)
(* mutex and lane, finish within their tenure and get the provider's       *)
(* answer.  (Nothing is promised after a timeout, a new login or import, a *)
(* refresh past the lane or an answer lost after the rotation.)            *)
TokensUsedOnce == \A c \in Conns : c \notin shaken => revoked[c] = {}

(* Nor does the router lose the token the provider would accept: under the *)
(* same conditions it is in the row or with a refresh that is about to     *)
(* write it, whoever of the callers gave up waiting.  (The guard of the    *)
(* reactive path can skip the write of a token that nobody waits for; the  *)
(* ghost excludes that case.)                                              *)
LiveTokenKept == \A c \in Conns : c \notin shaken =>
    \/ row[c] = <<1, live[c][1]>>
    \/ \E w \in Works \ left : /\ work[w].pc \in {"answered", "settled", "persist"}
                               /\ work[w].conn = c /\ work[w].result = <<1, live[c][1]>>

Posts == {w \in Works : work[w].pc \in {"posting", "answered", "direct", "returned"}}
PastLane == {w \in Works : work[w].pc \in {"direct", "returned"}}

(* Two refreshes of the group POST at the same time in two cases only: the *)
(* tenure of one of them was given up, or one does not use the serializer. *)
SiblingsApart == \A v, w \in Posts : v = w \/ {v, w} \cap (left \cup PastLane) # {}

(* refreshSerializer.ts:15, "so two siblings never POST to /oauth/token    *)
(* concurrently", as long as none was given up.                            *)
SiblingsNeverPost == \A v, w \in Posts \ left : work[v].conn = work[w].conn

(* Every caller that goes through the lane gets an answer although the     *)
(* network may hang: the lane never wedges, whoever holds it.              *)
RefreshEnds == \A k \in Callers : ~Bypasses(k) => (caller[k].pc = "waiting" ~> caller[k].pc # "waiting")
=============================================================================
