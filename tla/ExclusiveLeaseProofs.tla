------------------------ MODULE ExclusiveLeaseProofs ------------------------
(* Proofs, for any sets of owners, keys, connections and requests and any  *)
(* number of rows, of the properties of ExclusiveLease.                    *)
EXTENDS ExclusiveLease, SequenceTheorems, TLAPS

Uniq(rs) ==
    \A i, j \in Active(rs) : rs[i].owner = rs[j].owner \/ rs[i].conn = rs[j].conn => i = j

Newest(rs) ==
    \A i, j \in 1..Len(rs) : i < j /\ rs[i].owner = rs[j].owner =>
        rs[i].state # "ACTIVE" /\ rs[i].gen <= rs[j].gen

KeyKept(rs) ==
    \A i, j \in 1..Len(rs) :
        rs[i].owner = rs[j].owner /\ rs[i].gen = rs[j].gen => rs[i].key = rs[j].key

(* The invariant of the table.  Newest is what makes Uniq and KeyKept      *)
(* inductive: a transition inserts a second row of the active generation,  *)
(* which is safe because that generation is the owner's newest.            *)
Tab(rs) == rs \in Seq(Row) /\ Uniq(rs) /\ Newest(rs) /\ KeyKept(rs)

(* The inductive invariant: a request that passed the fence leased its     *)
(* connection before whoever leases it now.                                *)
IInv ==
    /\ TypeOK
    /\ Tab(rows)
    /\ \A r \in Reqs : req[r].pc \in {"fenced", "inflight"} => LeasedFirst(rows, req[r])

(* The rows rs2 are the rows rs with some leases ended or their expiry     *)
(* moved.                                                                  *)
Weakened(rs, rs2) ==
    /\ Len(rs2) = Len(rs)
    /\ \A i \in 1..Len(rs) :
          /\ rs2[i].owner = rs[i].owner
          /\ rs2[i].key = rs[i].key
          /\ rs2[i].conn = rs[i].conn
          /\ rs2[i].gen = rs[i].gen
          /\ rs2[i].state = "ACTIVE" => rs[i].state = "ACTIVE"

(* The table only grows, no lease changes hands, and none comes back.      *)
Keeps(rs, rs2) ==
    /\ Len(rs2) >= Len(rs)
    /\ \A i \in 1..Len(rs) :
          /\ rs2[i].owner = rs[i].owner
          /\ rs2[i].key = rs[i].key
          /\ rs2[i].conn = rs[i].conn
          /\ rs2[i].gen = rs[i].gen
          /\ rs2[i].state = "ACTIVE" => rs[i].state = "ACTIVE"
    /\ \A o, g : Ended(rs, o, g) => Ended(rs2, o, g)

-----------------------------------------------------------------------------
(* A function on 1..n is a sequence of length n.                           *)
LEMMA FunctionIsSeq ==
    ASSUME NEW S, NEW n \in Nat, NEW f \in [1..n -> S]
    PROVE  f \in Seq(S) /\ Len(f) = n
<1>1. f \in Seq(S)
  BY SeqDef
<1>2. Len(f) \in Nat /\ DOMAIN f = 1..Len(f)
  BY <1>1, LenProperties
<1>3. 1..n = 1..Len(f)
  BY <1>2
<1> QED
  BY <1>1, <1>2, <1>3

(* Generations are positive naturals.                                      *)
LEMMA GenerationType ==
    ASSUME NEW rs \in Seq(Row)
    PROVE  \A i \in 1..Len(rs) : rs[i].gen \in Nat \ {0}
<1>1. ASSUME NEW i \in 1..Len(rs) PROVE rs[i] \in Row
  BY ElementOfSeq
<1>2. ASSUME NEW x \in Row PROVE x.gen \in Nat \ {0}
  BY DEF Row
<1> QED
  BY <1>1, <1>2

(* Ending leases only weakens the table.                                   *)
LEMMA EndWeakens ==
    ASSUME NEW rs \in Seq(Row), NEW S, NEW st \in States \ {"ACTIVE"}
    PROVE  /\ EndRows(rs, S, st) \in Seq(Row) /\ Weakened(rs, EndRows(rs, S, st))
           /\ \A i \in 1..Len(rs) : i \in S => EndRows(rs, S, st)[i].state # "ACTIVE"
           /\ \A i \in 1..Len(rs) : i \notin S => EndRows(rs, S, st)[i] = rs[i]
<1>1. Len(rs) \in Nat /\ \A i \in 1..Len(rs) : rs[i] \in Row
  BY LenProperties, ElementOfSeq
<1> DEFINE a == EndRows(rs, S, st)
<1>2. ASSUME NEW i \in 1..Len(rs)
      PROVE  /\ a[i] \in Row
             /\ a[i].owner = rs[i].owner /\ a[i].key = rs[i].key
             /\ a[i].conn = rs[i].conn /\ a[i].gen = rs[i].gen
             /\ a[i].state = IF i \in S THEN st ELSE rs[i].state
             /\ i \notin S => a[i] = rs[i]
  BY <1>1 DEF EndRows, Row
<1>3. a \in [1..Len(rs) -> Row]
  BY <1>2 DEF EndRows
<1> HIDE DEF a
<1>4. a \in Seq(Row) /\ Len(a) = Len(rs)
  BY <1>1, <1>3, FunctionIsSeq
<1>5. Weakened(rs, a)
  BY <1>2, <1>4 DEF Weakened
<1> QED
  BY <1>2, <1>4, <1>5 DEF a

(* Moving the expiry of leases weakens the table, too.                     *)
LEMMA FreshWeakens ==
    ASSUME NEW rs \in Seq(Row), NEW S, NEW f \in BOOLEAN
    PROVE  SetFresh(rs, S, f) \in Seq(Row) /\ Weakened(rs, SetFresh(rs, S, f))
<1>1. Len(rs) \in Nat /\ \A i \in 1..Len(rs) : rs[i] \in Row
  BY LenProperties, ElementOfSeq
<1> DEFINE b == SetFresh(rs, S, f)
<1>2. ASSUME NEW i \in 1..Len(rs)
      PROVE  /\ b[i] \in Row
             /\ b[i].owner = rs[i].owner /\ b[i].key = rs[i].key
             /\ b[i].conn = rs[i].conn /\ b[i].gen = rs[i].gen
             /\ b[i].state = rs[i].state
  BY <1>1 DEF SetFresh, Row
<1>3. b \in [1..Len(rs) -> Row]
  BY <1>2 DEF SetFresh
<1> HIDE DEF b
<1>4. b \in Seq(Row) /\ Len(b) = Len(rs)
  BY <1>1, <1>3, FunctionIsSeq
<1>5. Weakened(rs, b)
  BY <1>2, <1>4 DEF Weakened
<1> QED
  BY <1>4, <1>5 DEF b

(* A weaker table is as consistent, and no ended lease comes back.         *)
LEMMA WeakenedTab ==
    ASSUME NEW rs, NEW rs2 \in Seq(Row), Tab(rs), Weakened(rs, rs2)
    PROVE  Tab(rs2) /\ Keeps(rs, rs2)
<1>1. Len(rs) \in Nat
  BY LenProperties DEF Tab
<1>2. Uniq(rs2)
  BY DEF Weakened, Tab, Uniq, Active
<1>3. Newest(rs2)
  BY DEF Weakened, Tab, Newest
<1>4. KeyKept(rs2)
  BY DEF Weakened, Tab, KeyKept
<1>5. Keeps(rs, rs2)
  <2>1. ASSUME NEW o, NEW g, Ended(rs, o, g) PROVE Ended(rs2, o, g)
    BY <2>1 DEF Weakened, Ended, Active
  <2> QED
    BY <2>1, <1>1 DEF Keeps, Weakened
<1> QED
  BY <1>2, <1>3, <1>4, <1>5 DEF Tab

(* expire leaves a consistent table with fresh active leases only.         *)
LEMMA ExpireTab ==
    ASSUME NEW rs, Tab(rs)
    PROVE  /\ Tab(Expire(rs)) /\ Keeps(rs, Expire(rs))
           /\ Len(Expire(rs)) = Len(rs)
           /\ \A i \in Active(Expire(rs)) : Expire(rs)[i].fresh
<1> DEFINE S == {i \in Active(rs) : ~rs[i].fresh}
<1>0. rs \in Seq(Row) /\ "EXPIRED" \in States \ {"ACTIVE"} /\ TRUE \in BOOLEAN
  BY DEF Tab, States
<1>1. /\ Expire(rs) \in Seq(Row) /\ Weakened(rs, Expire(rs))
      /\ \A i \in 1..Len(rs) : i \in S => Expire(rs)[i].state # "ACTIVE"
      /\ \A i \in 1..Len(rs) : i \notin S => Expire(rs)[i] = rs[i]
  <2>1. /\ EndRows(rs, S, "EXPIRED") \in Seq(Row) /\ Weakened(rs, EndRows(rs, S, "EXPIRED"))
        /\ \A i \in 1..Len(rs) : i \in S => EndRows(rs, S, "EXPIRED")[i].state # "ACTIVE"
        /\ \A i \in 1..Len(rs) : i \notin S => EndRows(rs, S, "EXPIRED")[i] = rs[i]
    <3> HIDE DEF S
    <3> QED
      BY <1>0, EndWeakens
  <2>2. Expire(rs) = EndRows(rs, S, "EXPIRED")
    BY Zenon DEF Expire
  <2> HIDE DEF S
  <2> QED
    BY <2>1, <2>2
<1>2. Tab(Expire(rs)) /\ Keeps(rs, Expire(rs))
  BY <1>1, WeakenedTab
<1>3. \A i \in Active(Expire(rs)) : Expire(rs)[i].fresh
  BY <1>1 DEF Active, Weakened
<1> QED
  BY <1>1, <1>2, <1>3 DEF Weakened

(* Inserting an active row for an owner and a connection that have none,   *)
(* with a generation that is not behind the owner's and has not ended.     *)
LEMMA InsertTab ==
    ASSUME NEW rs, Tab(rs), NEW o \in Owners, NEW k \in ApiKeys, NEW c \in Conns,
           NEW g \in Nat \ {0},
           OwnerRows(rs, o) = {}, ConnRows(rs, c) = {},
           \A i \in 1..Len(rs) : rs[i].owner = o =>
               rs[i].gen <= g /\ (rs[i].gen = g => rs[i].key = k)
    PROVE  /\ Tab(Append(rs, NewRow(o, k, c, g)))
           /\ Len(Append(rs, NewRow(o, k, c, g))) = Len(rs) + 1
           /\ \A i \in 1..Len(rs) : Append(rs, NewRow(o, k, c, g))[i] = rs[i]
           /\ \A oo, gg : Ended(rs, oo, gg) /\ ~(oo = o /\ gg = g) =>
                  Ended(Append(rs, NewRow(o, k, c, g)), oo, gg)
<1> DEFINE n == NewRow(o, k, c, g)
           t == Append(rs, n)
<1>1. rs \in Seq(Row) /\ Len(rs) \in Nat /\ n \in Row
  BY LenProperties DEF Tab, NewRow, Row, States
<1>2. /\ n.owner = o /\ n.key = k /\ n.conn = c /\ n.gen = g /\ n.state = "ACTIVE"
  BY DEF NewRow
<1> HIDE DEF n
<1>3. /\ t \in Seq(Row) /\ Len(t) = Len(rs) + 1
      /\ \A i \in 1..Len(rs) : t[i] = rs[i]
      /\ t[Len(rs) + 1] = n
  BY <1>1, AppendProperties
<1> HIDE DEF t
<1>4. ASSUME NEW i \in 1..Len(t)
      PROVE  (i \in 1..Len(rs) /\ t[i] = rs[i]) \/ (i = Len(rs) + 1 /\ t[i] = n)
  BY <1>1, <1>3
<1>5. ASSUME NEW i \in 1..Len(rs), rs[i].state = "ACTIVE"
      PROVE  rs[i].owner # o /\ rs[i].conn # c
  BY <1>5 DEF OwnerRows, ConnRows, Active
<1>6. Uniq(t)
  <2> SUFFICES ASSUME NEW i \in 1..Len(t), NEW j \in 1..Len(t),
                      t[i].state = "ACTIVE", t[j].state = "ACTIVE",
                      t[i].owner = t[j].owner \/ t[i].conn = t[j].conn
               PROVE  i = j
    BY DEF Uniq, Active
  <2>1. CASE i \in 1..Len(rs) /\ t[i] = rs[i] /\ j \in 1..Len(rs) /\ t[j] = rs[j]
    BY <2>1 DEF Tab, Uniq, Active
  <2>2. CASE i \in 1..Len(rs) /\ t[i] = rs[i] /\ j = Len(rs) + 1 /\ t[j] = n
    BY <2>2, <1>2, <1>5
  <2>3. CASE i = Len(rs) + 1 /\ t[i] = n /\ j \in 1..Len(rs) /\ t[j] = rs[j]
    BY <2>3, <1>2, <1>5
  <2> QED
    BY <2>1, <2>2, <2>3, <1>4
<1>7. Newest(t) /\ KeyKept(t)
  <2>1. Newest(t)
    <3> SUFFICES ASSUME NEW i \in 1..Len(t), NEW j \in 1..Len(t), i < j, t[i].owner = t[j].owner
                 PROVE  t[i].state # "ACTIVE" /\ t[i].gen <= t[j].gen
      BY DEF Newest
    <3>1. i \in 1..Len(rs) /\ t[i] = rs[i]
      BY <1>1, <1>3, <1>4
    <3>2. CASE j \in 1..Len(rs) /\ t[j] = rs[j]
      BY <3>1, <3>2 DEF Tab, Newest
    <3>3. CASE j = Len(rs) + 1 /\ t[j] = n
      BY <3>1, <3>3, <1>2, <1>5
    <3> QED
      BY <3>2, <3>3, <1>4
  <2>2. KeyKept(t)
    <3> SUFFICES ASSUME NEW i \in 1..Len(t), NEW j \in 1..Len(t),
                        t[i].owner = t[j].owner, t[i].gen = t[j].gen
                 PROVE  t[i].key = t[j].key
      BY DEF KeyKept
    <3>1. CASE i \in 1..Len(rs) /\ t[i] = rs[i] /\ j \in 1..Len(rs) /\ t[j] = rs[j]
      BY <3>1 DEF Tab, KeyKept
    <3>2. CASE i \in 1..Len(rs) /\ t[i] = rs[i] /\ j = Len(rs) + 1 /\ t[j] = n
      BY <3>2, <1>2
    <3>3. CASE i = Len(rs) + 1 /\ t[i] = n /\ j \in 1..Len(rs) /\ t[j] = rs[j]
      BY <3>3, <1>2
    <3> QED
      BY <3>1, <3>2, <3>3, <1>4
  <2> QED
    BY <2>1, <2>2
<1>8. ASSUME NEW oo, NEW gg, Ended(rs, oo, gg), ~(oo = o /\ gg = g) PROVE Ended(t, oo, gg)
  <2>1. \E i \in 1..Len(t) : t[i].owner = oo /\ t[i].gen = gg
    BY <1>1, <1>3, <1>8 DEF Ended
  <2>2. ASSUME NEW i \in 1..Len(t), t[i].state = "ACTIVE", t[i].owner = oo, t[i].gen = gg
        PROVE  FALSE
    BY <2>2, <1>2, <1>4, <1>8 DEF Ended, Active
  <2> QED
    BY <2>1, <2>2 DEF Ended, Active
<1> QED
  BY <1>3, <1>6, <1>7, <1>8 DEF Tab, t, n

(* acquireExclusiveConnectionLease keeps the table consistent.             *)
LEMMA AcquireTab ==
    ASSUME NEW rs, Tab(rs), NEW o \in Owners, NEW k \in ApiKeys, NEW c \in Conns,
           NEW rs2, NEW out, AcquireLease(rs, o, k, c, rs2, out)
    PROVE  Tab(rs2) /\ Keeps(rs, rs2)
<1>1. rs \in Seq(Row) /\ Len(rs) \in Nat /\ "EXPIRED" \in States \ {"ACTIVE"} /\ TRUE \in BOOLEAN
  BY LenProperties DEF Tab, States
<1>2. CASE rs2 = rs
  BY <1>1, <1>2 DEF Keeps
<1>3. CASE rs2 = SetFresh(rs, OwnerRows(rs, o), TRUE)
  <2>1. rs2 \in Seq(Row) /\ Weakened(rs, rs2)
    BY <1>1, <1>3, FreshWeakens
  <2> QED
    BY <2>1, WeakenedTab
<1>4. CASE /\ OwnerRows(rs, o) = {} /\ ConnRows(rs, c) = {}
           /\ \E g \in 1..(Len(rs) + 1) :
                 NextGeneration(rs, o, g) /\ rs2 = Append(rs, NewRow(o, k, c, g))
  <2>1. PICK g \in 1..(Len(rs) + 1) :
            NextGeneration(rs, o, g) /\ rs2 = Append(rs, NewRow(o, k, c, g))
    BY <1>4
  <2>2. g \in Nat \ {0} /\ \A i \in 1..Len(rs) : rs[i].owner = o => rs[i].gen < g
    BY <2>1, <1>1 DEF NextGeneration
  <2>3. \A i \in 1..Len(rs) : rs[i].gen \in Nat
    BY <1>1, GenerationType
  <2>4. \A i \in 1..Len(rs) : rs[i].owner = o => rs[i].gen <= g /\ rs[i].gen # g
    BY <2>2, <2>3
  <2>5. /\ Tab(rs2) /\ Len(rs2) = Len(rs) + 1
        /\ \A i \in 1..Len(rs) : rs2[i] = rs[i]
        /\ \A oo, gg : Ended(rs, oo, gg) /\ ~(oo = o /\ gg = g) => Ended(rs2, oo, gg)
    BY <1>4, <2>1, <2>2, <2>4, InsertTab
  <2>6. ~Ended(rs, o, g)
    BY <2>4 DEF Ended
  <2> QED
    BY <2>5, <2>6, <1>1 DEF Keeps
<1> QED
  BY <1>2, <1>3, <1>4 DEF AcquireLease

(* transitionExclusiveConnectionLease keeps the table consistent: the      *)
(* generation it carries over is the owner's newest and has not ended.     *)
LEMMA TransitionTab ==
    ASSUME NEW rs, Tab(rs), NEW o \in Owners, NEW k \in ApiKeys, NEW c \in Conns, NEW g,
           NEW rs2, NEW out, TransitionLease(rs, o, g, k, c, rs2, out)
    PROVE  Tab(rs2) /\ Keeps(rs, rs2)
<1>1. rs \in Seq(Row) /\ Len(rs) \in Nat /\ "INVALIDATED" \in States \ {"ACTIVE"} /\ TRUE \in BOOLEAN
  BY LenProperties DEF Tab, States
<1>2. CASE rs2 = rs
  BY <1>1, <1>2 DEF Keeps
<1>3. CASE /\ \E i \in Exact(rs, o, g, k) : rs[i].conn # c
           /\ ConnRows(rs, c) = {}
           /\ rs2 = Append(EndRows(rs, OwnerRows(rs, o), "INVALIDATED"), NewRow(o, k, c, g))
  <2> DEFINE t == EndRows(rs, OwnerRows(rs, o), "INVALIDATED")
  <2>1. PICK i \in 1..Len(rs) : /\ rs[i].state = "ACTIVE" /\ rs[i].owner = o
                                /\ rs[i].gen = g /\ rs[i].key = k
    BY <1>3 DEF Exact, OwnerRows, Active
  <2>2. /\ t \in Seq(Row) /\ Weakened(rs, t)
        /\ \A j \in 1..Len(rs) : j \in OwnerRows(rs, o) => t[j].state # "ACTIVE"
    BY <1>1, EndWeakens
  <2> HIDE DEF t
  <2>3. Tab(t) /\ Keeps(rs, t)
    BY <2>2, WeakenedTab
  <2>4. OwnerRows(t, o) = {} /\ ConnRows(t, c) = {}
    <3>1. ASSUME NEW j \in 1..Len(t), t[j].state = "ACTIVE" PROVE t[j].owner # o /\ t[j].conn # c
      BY <3>1, <2>2, <1>3 DEF Weakened, OwnerRows, ConnRows, Active
    <3> QED
      BY <3>1 DEF OwnerRows, ConnRows, Active
  <2>5. \A j \in 1..Len(rs) : rs[j].gen \in Nat \ {0}
    BY <1>1, GenerationType
  <2>6. ASSUME NEW j \in 1..Len(rs), rs[j].owner = o
        PROVE  rs[j].gen <= g /\ (rs[j].gen = g => rs[j].key = k)
    <3>1. CASE j < i
      BY <3>1, <2>1, <2>6 DEF Tab, Newest, KeyKept
    <3>2. CASE j = i
      BY <3>2, <2>1, <2>5
    <3>3. CASE i < j
      BY <3>3, <2>1, <2>6 DEF Tab, Newest
    <3> QED
      BY <3>1, <3>2, <3>3, <1>1
  <2>7. \A j \in 1..Len(t) : t[j].owner = o => t[j].gen <= g /\ (t[j].gen = g => t[j].key = k)
    BY <2>2, <2>6 DEF Weakened
  <2>8. g \in Nat \ {0}
    BY <2>1, <2>5
  <2>9. /\ Tab(rs2) /\ Len(rs2) = Len(t) + 1
        /\ \A j \in 1..Len(t) : rs2[j] = t[j]
        /\ \A oo, gg : Ended(t, oo, gg) /\ ~(oo = o /\ gg = g) => Ended(rs2, oo, gg)
    BY <1>3, <2>3, <2>4, <2>7, <2>8, InsertTab DEF t
  <2>10. ~Ended(rs, o, g)
    BY <2>1 DEF Ended, Active
  <2>11. Len(t) = Len(rs)
    BY <2>2 DEF Weakened
  <2> QED
    BY <2>3, <2>9, <2>10, <2>11, <1>1 DEF Keeps
<1> QED
  BY <1>2, <1>3 DEF TransitionLease

(* Keeping ended leases ended composes.                                    *)
LEMMA KeepsTransitive ==
    ASSUME NEW rs, NEW rs2, NEW rs3, Tab(rs), Tab(rs2), Tab(rs3), Keeps(rs, rs2), Keeps(rs2, rs3)
    PROVE  Keeps(rs, rs3)
<1>1. Len(rs) \in Nat /\ Len(rs2) \in Nat /\ Len(rs3) \in Nat
  BY LenProperties DEF Tab
<1> QED
  BY <1>1 DEF Keeps

-----------------------------------------------------------------------------
(* Whatever a claim does to the table under either kind of lookup.         *)
LEMMA MutateTab ==
    ASSUME Tab(rows), NEW q \in Request, NEW held, NEW g, NEW out,
           Mutate(Expire(rows), held, q, g, rows', out)
    PROVE  Tab(rows') /\ Keeps(rows, rows')
<1>1. q.owner \in Owners /\ q.key \in ApiKeys /\ q.conn \in Conns
  BY DEF Request
<1>2. Tab(Expire(rows)) /\ Keeps(rows, Expire(rows))
  BY ExpireTab
<1>3. Tab(rows') /\ Keeps(Expire(rows), rows')
  BY <1>1, <1>2, AcquireTab, TransitionTab DEF Mutate
<1> QED
  BY <1>2, <1>3, KeepsTransitive

(* Whoever passed the fence keeps his place in a table that only grows.    *)
LEMMA LeasedFirstKept ==
    ASSUME NEW rs, NEW rs2, NEW q, Tab(rs), Tab(rs2), Keeps(rs, rs2), LeasedFirst(rs, q)
    PROVE  LeasedFirst(rs2, q)
<1>1. Len(rs) \in Nat /\ Len(rs2) \in Nat /\ Len(rs) <= Len(rs2)
  BY LenProperties DEF Tab, Keeps
<1>2. PICK i \in 1..Len(rs) :
          /\ rs[i].owner = q.owner /\ rs[i].gen = q.gen /\ rs[i].key = q.key
          /\ rs[i].conn = q.conn
          /\ \A j \in ConnRows(rs, q.conn) : i <= j
  BY DEF LeasedFirst
<1>3. ASSUME NEW j \in ConnRows(rs2, q.conn) PROVE i <= j
  <2>1. j \in 1..Len(rs2) /\ rs2[j].state = "ACTIVE" /\ rs2[j].conn = q.conn
    BY DEF ConnRows, Active
  <2>2. CASE j \in 1..Len(rs)
    <3>1. j \in ConnRows(rs, q.conn)
      BY <2>1, <2>2 DEF Keeps, ConnRows, Active
    <3> QED
      BY <3>1, <1>2
  <2>3. CASE j \notin 1..Len(rs)
    BY <2>1, <2>3, <1>1, <1>2
  <2> QED
    BY <2>2, <2>3
<1>4. /\ i \in 1..Len(rs2) /\ rs2[i].owner = q.owner /\ rs2[i].gen = q.gen
      /\ rs2[i].key = q.key /\ rs2[i].conn = q.conn
  BY <1>1, <1>2 DEF Keeps
<1> QED
  BY <1>3, <1>4 DEF LeasedFirst

(* A claim keeps the type of the request and lets nobody through.          *)
LEMMA ClaimedType ==
    ASSUME req \in [Reqs -> Request \cup {Idle}], NEW r \in Reqs, NEW out,
           req[r].pc = "selected", Claimed(r, out)
    PROVE  /\ req[r] \in Request
           /\ req' \in [Reqs -> Request \cup {Idle}]
           /\ \A s \in Reqs : req'[s].pc \in {"fenced", "inflight"} => req'[s] = req[s]
<1>1. req[r] \in Request
  BY DEF Idle
<1>2. [req[r] EXCEPT !.pc = "claimed", !.seen = FALSE] \in Request
  BY <1>1 DEF Request
<1>3. /\ [req[r] EXCEPT !.pc = "claimed", !.seen = FALSE].pc \notin {"fenced", "inflight"}
      /\ Idle.pc \notin {"fenced", "inflight"}
  BY <1>1 DEF Request, Idle
<1> QED
  BY <1>1, <1>2, <1>3 DEF Claimed

(* What DispatchIsFenced says of one step.                                 *)
Fenced ==
    \A r \in Reqs :
        /\ req[r].pc = "claimed" /\ req'[r].pc = "fenced" => HoldsConnection(rows', req'[r])
        /\ req[r].pc # "inflight" /\ req'[r].pc = "inflight" => LeasedFirst(rows', req'[r])

(* The fence: a request that passes it holds the only lease of its         *)
(* connection.                                                             *)
LEMMA FenceIInv ==
    ASSUME IInv, NEW r \in Reqs, Fence(r)
    PROVE  IInv' /\ Keeps(rows, rows') /\ Fenced
<1> DEFINE rs == Expire(rows)
           q == req[r]
           p == [q EXCEPT !.pc = "fenced"]
           ok == \E i \in Exact(rs, q.owner, q.gen, q.key) : rs[i].conn = q.conn
<1>1. /\ q.pc = "claimed" /\ rows' = rs
      /\ req' = [req EXCEPT ![r] = IF ok THEN p ELSE Idle]
  BY DEF Fence
<1>2. Tab(rows) /\ Tab(rs) /\ Keeps(rows, rs) /\ \A i \in Active(rs) : rs[i].fresh
  BY ExpireTab DEF IInv
<1>3. req \in [Reqs -> Request \cup {Idle}] /\ q \in Request
  BY <1>1 DEF IInv, TypeOK, Idle
<1>4. /\ p \in Request /\ p.pc = "fenced"
      /\ p.owner = q.owner /\ p.gen = q.gen /\ p.key = q.key /\ p.conn = q.conn
      /\ Idle.pc \notin {"fenced", "inflight"}
  BY <1>3 DEF Request, Idle
<1> HIDE DEF rs, ok, p
<1>5. req' \in [Reqs -> Request \cup {Idle}]
  BY <1>1, <1>3, <1>4
<1>6. ASSUME ok PROVE HoldsConnection(rs, p) /\ LeasedFirst(rs, p)
  <2>1. PICK i \in Active(rs) : /\ rs[i].owner = q.owner /\ rs[i].gen = q.gen
                                /\ rs[i].key = q.key /\ rs[i].conn = q.conn
    BY <1>6 DEF ok, Exact, OwnerRows
  <2>2. \A j \in ConnRows(rs, q.conn) : j = i
    BY <2>1, <1>2 DEF Tab, Uniq, ConnRows
  <2>3. i \in 1..Len(rs) /\ i <= i
    BY <1>2, LenProperties DEF Tab, Active
  <2>4. HoldsConnection(rs, p)
    BY <2>1, <2>2, <1>2, <1>4 DEF HoldsConnection, ConnRows
  <2>5. LeasedFirst(rs, p)
    BY <2>1, <2>2, <2>3, <1>4 DEF LeasedFirst
  <2> QED
    BY <2>4, <2>5
<1>7. ASSUME NEW s \in Reqs, req'[s].pc \in {"fenced", "inflight"}
      PROVE  req'[s] = req[s] \/ (ok /\ req'[s] = p)
  BY <1>1, <1>3, <1>4, <1>7
<1>8. ASSUME NEW s \in Reqs, req'[s].pc \in {"fenced", "inflight"}
      PROVE  LeasedFirst(rs, req'[s])
  <2>1. CASE req'[s] = req[s]
    <3>1. LeasedFirst(rows, req[s])
      BY <2>1, <1>8 DEF IInv
    <3> QED
      BY <2>1, <3>1, <1>2, LeasedFirstKept
  <2> QED
    BY <2>1, <1>6, <1>7, <1>8
<1>9. IInv'
  BY <1>1, <1>2, <1>5, <1>8 DEF IInv, TypeOK, Tab
<1>10. Fenced
  BY <1>1, <1>4, <1>6, <1>7, <1>8 DEF Fenced
<1> QED
  BY <1>1, <1>2, <1>9, <1>10

(* Every step that lets nobody through keeps the invariant and brings no   *)
(* ended lease back.                                                       *)
LEMMA OtherIInv ==
    ASSUME IInv,
           Tab(rows') /\ Keeps(rows, rows'),
           req' \in [Reqs -> Request \cup {Idle}],
           \A s \in Reqs : req'[s].pc \in {"fenced", "inflight"} => req'[s] = req[s]
    PROVE  IInv' /\ Keeps(rows, rows') /\ Fenced
<1>1. ASSUME NEW s \in Reqs, req'[s].pc \in {"fenced", "inflight"}
      PROVE  LeasedFirst(rows', req'[s])
  <2>1. req'[s] = req[s] /\ LeasedFirst(rows, req[s])
    BY <1>1 DEF IInv
  <2>2. Tab(rows)
    BY DEF IInv
  <2>3. LeasedFirst(rows', req[s])
    BY <2>1, <2>2, LeasedFirstKept
  <2> QED
    BY <2>1, <2>3
<1>2. IInv'
  BY <1>1 DEF IInv, TypeOK, Tab
<1> QED
  BY <1>1, <1>2 DEF Fenced

(* The attempts and the retries: the lease is not looked at.               *)
LEMMA MovesIInv ==
    ASSUME IInv, NEW r \in Reqs, NEW from \in {"fenced", "inflight"},
           NEW to \in {"claimed", "fenced", "inflight"}, MovesOn(r, from, to)
    PROVE  IInv' /\ Keeps(rows, rows') /\ Fenced
<1> DEFINE p == [req[r] EXCEPT !.pc = to]
<1>1. rows' = rows /\ req[r].pc = from /\ req' = [req EXCEPT ![r] = p]
  BY DEF MovesOn
<1>2. req \in [Reqs -> Request \cup {Idle}] /\ req[r] \in Request
  BY <1>1 DEF IInv, TypeOK, Idle
<1>3. /\ p \in Request /\ p.pc = to
      /\ p.owner = req[r].owner /\ p.gen = req[r].gen /\ p.key = req[r].key
      /\ p.conn = req[r].conn
  BY <1>2 DEF Request
<1>4. LeasedFirst(rows, req[r])
  BY <1>1 DEF IInv
<1> HIDE DEF p
<1>5. LeasedFirst(rows, p)
  BY <1>3, <1>4 DEF LeasedFirst
<1>6. req' \in [Reqs -> Request \cup {Idle}] /\ \A s \in Reqs : req'[s] = IF s = r THEN p ELSE req[s]
  BY <1>1, <1>2, <1>3
<1>7. ASSUME NEW s \in Reqs, req'[s].pc \in {"fenced", "inflight"}
      PROVE  LeasedFirst(rows', req'[s])
  BY <1>1, <1>5, <1>6, <1>7 DEF IInv
<1>8. Tab(rows) /\ Len(rows) \in Nat
  BY LenProperties DEF IInv, Tab
<1>9. Keeps(rows, rows')
  BY <1>1, <1>8 DEF Keeps
<1>10. IInv'
  BY <1>1, <1>6, <1>7, <1>8 DEF IInv, TypeOK, Tab
<1>11. \A s \in Reqs : ~(req[s].pc = "claimed" /\ req'[s].pc = "fenced")
  BY <1>1, <1>6
<1> QED
  BY <1>7, <1>9, <1>10, <1>11 DEF Fenced

(* An operation that expires rows and then ends or renews some of them.    *)
LEMMA UpdateTab ==
    ASSUME Tab(rows), NEW S, NEW st \in States \ {"ACTIVE"}, NEW f \in BOOLEAN, NEW rs2,
           \/ rs2 = EndRows(Expire(rows), S, st) \/ rs2 = SetFresh(Expire(rows), S, f)
           \/ rs2 = SetFresh(rows, S, f)
    PROVE  Tab(rs2) /\ Keeps(rows, rs2)
<1>1. Tab(Expire(rows)) /\ Keeps(rows, Expire(rows))
  BY ExpireTab
<1>2. CASE rs2 = SetFresh(rows, S, f)
  <2>1. rs2 \in Seq(Row) /\ Weakened(rows, rs2)
    BY <1>2, FreshWeakens DEF Tab
  <2> QED
    BY <2>1, WeakenedTab
<1>3. CASE rs2 = EndRows(Expire(rows), S, st) \/ rs2 = SetFresh(Expire(rows), S, f)
  <2>1. rs2 \in Seq(Row) /\ Weakened(Expire(rows), rs2)
    BY <1>1, <1>3, EndWeakens, FreshWeakens DEF Tab
  <2>2. Tab(rs2) /\ Keeps(Expire(rows), rs2)
    BY <2>1, <1>1, WeakenedTab
  <2> QED
    BY <2>2, <1>1, KeepsTransitive
<1> QED
  BY <1>2, <1>3

(* The selection only reads the table and records what it saw.             *)
LEMMA SelectIInv ==
    ASSUME IInv, NEW r \in Reqs, NEW mode \in {"acquire", "request"}, NEW o \in Owners,
           NEW k \in ApiKeys, NEW c \in Conns, Select(r, mode, o, k, c)
    PROVE  IInv' /\ Keeps(rows, rows') /\ Fenced
<1>1. Tab(Expire(rows)) /\ Keeps(rows, Expire(rows)) /\ rows' = Expire(rows)
  BY ExpireTab DEF IInv, Select
<1>2. Len(Expire(rows)) \in Nat
  BY <1>1, LenProperties DEF Tab
<1>3. PICK g \in 0..Len(Expire(rows)) :
          req' = [req EXCEPT ![r] = [pc |-> "selected", mode |-> mode, owner |-> o,
                      key |-> k, gen |-> g, conn |-> c, seen |-> OwnerRows(Expire(rows), o) # {}]]
  BY DEF Select
<1> DEFINE q == [pc |-> "selected", mode |-> mode, owner |-> o, key |-> k, gen |-> g,
                 conn |-> c, seen |-> OwnerRows(Expire(rows), o) # {}]
<1>4. q \in Request /\ q.pc \notin {"fenced", "inflight"}
  <2>1. (OwnerRows(Expire(rows), o) # {}) \in BOOLEAN
    OBVIOUS
  <2> QED
    BY <2>1, <1>2 DEF Request
<1> HIDE DEF q
<1>5. /\ req' \in [Reqs -> Request \cup {Idle}]
      /\ \A s \in Reqs : req'[s].pc \in {"fenced", "inflight"} => req'[s] = req[s]
  BY <1>3, <1>4 DEF q, IInv, TypeOK
<1> QED
  BY <1>1, <1>5, OtherIInv

(* Every step preserves the invariant, keeps ended leases ended and        *)
(* dispatches only through the fence.                                      *)
LEMMA NextIInv == IInv /\ [Next]_vars => IInv' /\ Keeps(rows, rows') /\ Fenced
<1> SUFFICES ASSUME IInv, [Next]_vars PROVE IInv' /\ Keeps(rows, rows') /\ Fenced
  OBVIOUS
<1>0. /\ Tab(rows) /\ req \in [Reqs -> Request \cup {Idle}] /\ Len(rows) \in Nat
      /\ Idle.pc \notin {"fenced", "inflight"}
  BY LenProperties DEF IInv, TypeOK, Tab, Idle
<1>st. /\ "EXPIRED" \in States \ {"ACTIVE"} /\ "RELEASED" \in States \ {"ACTIVE"}
       /\ "INVALIDATED" \in States \ {"ACTIVE"} /\ TRUE \in BOOLEAN /\ FALSE \in BOOLEAN
  BY DEF States
<1>1. ASSUME rows' = rows PROVE Tab(rows') /\ Keeps(rows, rows')
  BY <1>0, <1>1 DEF Keeps
<1>2. CASE UNCHANGED vars
  BY <1>0, <1>1, <1>2, OtherIInv DEF vars
<1>3. CASE Reconcile
  BY <1>0, <1>3, ExpireTab, OtherIInv DEF Reconcile
<1>4. CASE \E i \in Active(rows) : TtlElapses(i)
  <2>1. PICK i : rows' = SetFresh(rows, {i}, FALSE) /\ req' = req
    BY <1>4 DEF TtlElapses
  <2>2. Tab(rows') /\ Keeps(rows, rows')
    BY <2>1, <1>0, <1>st, UpdateTab
  <2> QED
    BY <2>1, <2>2, <1>0, OtherIInv
<1>5. CASE \E o \in Owners, g \in 1..Len(rows), k \in ApiKeys :
              Renew(o, g, k) \/ Release(o, g, k) \/ Invalidate(o, g, k)
  <2>1. PICK o \in Owners, g \in 1..Len(rows), k \in ApiKeys :
              Renew(o, g, k) \/ Release(o, g, k) \/ Invalidate(o, g, k)
    BY <1>5
  <2>2. CASE Renew(o, g, k)
    <3>1. Tab(rows') /\ Keeps(rows, rows')
      BY <2>2, <1>0, <1>st, UpdateTab DEF Renew
    <3> QED
      BY <2>2, <3>1, <1>0, OtherIInv DEF Renew
  <2>3. CASE Release(o, g, k)
    <3>1. Tab(rows') /\ Keeps(rows, rows')
      BY <2>3, <1>0, <1>st, UpdateTab DEF Release
    <3> QED
      BY <2>3, <3>1, <1>0, OtherIInv DEF Release
  <2>4. CASE Invalidate(o, g, k)
    <3>1. Tab(rows') /\ Keeps(rows, rows')
      BY <2>4, <1>0, <1>st, UpdateTab DEF Invalidate
    <3> QED
      BY <2>4, <3>1, <1>0, OtherIInv DEF Invalidate
  <2> QED
    BY <2>1, <2>2, <2>3, <2>4
<1>6. CASE \E r \in Reqs, mode \in {"acquire", "request"}, o \in Owners, k \in ApiKeys, c \in Conns :
              Select(r, mode, o, k, c)
  BY <1>6, SelectIInv
<1>7. CASE \E r \in Reqs : ClaimSelected(r) \/ CommitLease(r)
  <2>0. PICK r \in Reqs : ClaimSelected(r) \/ CommitLease(r)
    BY <1>7
  <2>1. PICK held, g, out :
            /\ req[r].pc = "selected"
            /\ Mutate(Expire(rows), held, req[r], g, rows', out)
            /\ Claimed(r, out)
    BY <2>0 DEF ClaimSelected, CommitLease
  <2>2. /\ req[r] \in Request
        /\ req' \in [Reqs -> Request \cup {Idle}]
        /\ \A s \in Reqs : req'[s].pc \in {"fenced", "inflight"} => req'[s] = req[s]
    BY <2>1, <1>0, ClaimedType
  <2>3. Tab(rows') /\ Keeps(rows, rows')
    BY <2>1, <2>2, <1>0, MutateTab
  <2> QED
    BY <2>2, <2>3, OtherIInv
<1>8. CASE \E r \in Reqs : Fence(r)
  BY <1>8, FenceIInv
<1>9. CASE Restart \/ \E r \in Reqs : Finish(r)
  <2>1. /\ rows' = rows /\ req' \in [Reqs -> Request \cup {Idle}]
        /\ \A s \in Reqs : req'[s].pc \in {"fenced", "inflight"} => req'[s] = req[s]
    BY <1>0, <1>9 DEF Restart, Finish
  <2> QED
    BY <2>1, <1>1, OtherIInv
<1>10. CASE \E r \in Reqs : Attempt(r) \/ ExecutorRetry(r) \/ Retry(r)
  BY <1>10, MovesIInv DEF Attempt, ExecutorRetry, Retry
<1> QED
  BY <1>2, <1>3, <1>4, <1>5, <1>6, <1>7, <1>8, <1>9, <1>10 DEF Next

(* The inductive invariant holds in every reachable state.                 *)
THEOREM LeaseInvariance == Spec => []IInv
<1>1. Init => IInv
  <2> SUFFICES ASSUME Init PROVE IInv
    OBVIOUS
  <2>1. rows \in Seq(Row) /\ Len(rows) = 0
    BY EmptySeq DEF Init
  <2>2. 1..Len(rows) = {}
    BY <2>1
  <2>3. Tab(rows)
    BY <2>1, <2>2 DEF Tab, Uniq, Newest, KeyKept, Active
  <2> QED
    BY <2>1, <2>3 DEF IInv, TypeOK, Init, Idle
<1>2. IInv /\ [Next]_vars => IInv'
  BY NextIInv
<1> QED
  BY <1>1, <1>2, PTL DEF Spec

(* The table and the requests keep their types, whatever is selected,      *)
(* claimed, expired or lost in a restart.                                  *)
THEOREM LeaseType == Spec => []TypeOK
<1>1. IInv => TypeOK
  BY DEF IInv
<1> QED
  BY LeaseInvariance, <1>1, PTL

(* Global active-owner and active-connection uniqueness, from the checks   *)
(* of acquire and transition alone.                                        *)
THEOREM LeasesExclusive == Spec => []ActiveUnique
<1>1. IInv => ActiveUnique
  BY DEF IInv, Tab, Uniq, ActiveUnique
<1> QED
  BY LeaseInvariance, <1>1, PTL

(* The active lease is the newest generation of its owner (nextGeneration, *)
(* transition).                                                            *)
THEOREM GenerationsOrdered == Spec => []ActiveIsNewest
<1>1. IInv => ActiveIsNewest
  BY DEF IInv, Tab, Newest, ActiveIsNewest
<1> QED
  BY LeaseInvariance, <1>1, PTL

(* Exclusive per owner and per connection, and the newest of the owner.    *)
THEOREM LeasesStaySound == Spec => []LeasesSound
<1>1. ActiveUnique /\ ActiveIsNewest => LeasesSound
  BY DEF LeasesSound
<1> QED
  BY LeasesExclusive, GenerationsOrdered, <1>1, PTL

(* A generation is never taken over by another API key.                    *)
THEOREM KeysBound == Spec => []GenerationKeepsKey
<1>1. IInv => GenerationKeepsKey
  BY DEF IInv, Tab, KeyKept, GenerationKeepsKey
<1> QED
  BY LeaseInvariance, <1>1, PTL

(* A generation that has ended never becomes active again.                 *)
THEOREM NoResurrection == Spec => EndedStaysEnded
<1>1. IInv /\ [Next]_vars =>
        [\A o \in Owners, g \in 1..Len(rows) : Ended(rows, o, g) => Ended(rows', o, g)]_vars
  BY NextIInv DEF Keeps
<1> QED
  BY LeaseInvariance, <1>1, PTL DEF Spec, EndedStaysEnded

(* A managed request passes the fence only with the sole, unexpired lease  *)
(* on its connection, and no attempt made behind the fence, however late   *)
(* and however often repeated, goes out on a connection that was somebody  *)
(* else's then (assertExclusiveConnectionLeaseFence, BaseExecutor.execute).*)
THEOREM DispatchesFenced == Spec => DispatchIsFenced
<1>1. IInv /\ [Next]_vars =>
        [\A r \in Reqs :
            /\ req[r].pc = "claimed" /\ req'[r].pc = "fenced" => HoldsConnection(rows', req'[r])
            /\ req[r].pc # "inflight" /\ req'[r].pc = "inflight" => LeasedFirst(rows', req'[r])]_vars
  BY NextIInv DEF Fenced
<1> QED
  BY LeaseInvariance, <1>1, PTL DEF Spec, DispatchIsFenced
=============================================================================
