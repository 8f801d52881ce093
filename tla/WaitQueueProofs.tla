-------------------------- MODULE WaitQueueProofs ---------------------------
(* What push, shift and splice do to the waiting requests in a queue.      *)
EXTENDS WaitQueue, SequenceTheorems, FiniteSetTheorems, TLAPS

(* Appending a request that does not stand in the queue yet.               *)
LEMMA AppendQueue ==
    ASSUME NEW S, NEW s \in Seq(S), NEW r \in S, NoDup(s), r \notin RangeOf(s)
    PROVE  /\ Append(s, r) \in Seq(S)
           /\ RangeOf(Append(s, r)) = RangeOf(s) \cup {r}
           /\ NoDup(Append(s, r))
<1>1. /\ Append(s, r) \in Seq(S)
      /\ Len(Append(s, r)) = Len(s) + 1
      /\ \A i \in 1..Len(s) : Append(s, r)[i] = s[i]
      /\ Append(s, r)[Len(s) + 1] = r
  BY AppendProperties
<1>2. Len(s) \in Nat
  BY LenProperties
<1> QED
  BY <1>1, <1>2 DEF RangeOf, NoDup

(* Dropping the first n requests of a queue.                               *)
LEMMA DropQueue ==
    ASSUME NEW S, NEW s \in Seq(S), NEW n \in 0..Len(s), NoDup(s)
    PROVE  /\ SubSeq(s, n + 1, Len(s)) \in Seq(S)
           /\ RangeOf(SubSeq(s, n + 1, Len(s))) = RangeOf(s) \ {s[i] : i \in 1..n}
           /\ NoDup(SubSeq(s, n + 1, Len(s)))
<1> DEFINE t == SubSeq(s, n + 1, Len(s))
<1>1. Len(s) \in Nat
  BY LenProperties
<1>2. /\ t \in Seq(S)
      /\ Len(t) = Len(s) - n
      /\ \A i \in 1..Len(s) - n : t[i] = s[n + i]
  BY <1>1, SubSeqProperties
<1>3. NoDup(t)
  BY <1>1, <1>2 DEF NoDup
<1>4. RangeOf(t) = RangeOf(s) \ {s[i] : i \in 1..n}
  <2>1. ASSUME NEW x \in RangeOf(t) PROVE x \in RangeOf(s) \ {s[i] : i \in 1..n}
    <3>1. PICK i \in 1..Len(s) - n : x = s[n + i]
      BY <1>2, <2>1 DEF RangeOf
    <3> QED
      BY <3>1, <1>1 DEF RangeOf, NoDup
  <2>2. ASSUME NEW x \in RangeOf(s) \ {s[i] : i \in 1..n} PROVE x \in RangeOf(t)
    <3>1. PICK j \in 1..Len(s) : x = s[j]
      BY <2>2 DEF RangeOf
    <3>2. j - n \in 1..Len(s) - n /\ n + (j - n) = j
      BY <3>1, <2>2, <1>1
    <3>3. t[j - n] = x
      BY <3>1, <3>2, <1>2
    <3> QED
      BY <3>2, <3>3, <1>2 DEF RangeOf
  <2> QED
    BY <2>1, <2>2
<1> QED
  BY <1>2, <1>3, <1>4

(* Shifting the first request off a queue.                                 *)
LEMMA ShiftQueue ==
    ASSUME NEW S, NEW s \in Seq(S), s # << >>, NoDup(s)
    PROVE  /\ Head(s) \in RangeOf(s)
           /\ Tail(s) \in Seq(S)
           /\ RangeOf(Tail(s)) = RangeOf(s) \ {Head(s)}
           /\ NoDup(Tail(s))
<1>1. Len(s) \in Nat /\ Len(s) > 0
  BY LenProperties, EmptySeq
<1>2. Head(s) = s[1]
  BY <1>1
<1>3. Tail(s) = SubSeq(s, 1 + 1, Len(s))
  BY TailIsSubSeq
<1>4. {s[i] : i \in 1..1} = {Head(s)}
  BY <1>2
<1>5. 1 \in 0..Len(s)
  BY <1>1
<1>6. /\ SubSeq(s, 1 + 1, Len(s)) \in Seq(S)
      /\ RangeOf(SubSeq(s, 1 + 1, Len(s))) = RangeOf(s) \ {s[i] : i \in 1..1}
      /\ NoDup(SubSeq(s, 1 + 1, Len(s)))
  BY <1>5, DropQueue
<1>7. Head(s) \in RangeOf(s)
  BY <1>1, <1>2 DEF RangeOf
<1> QED
  BY <1>3, <1>4, <1>6, <1>7

(* A request that joins a queue stands first only if the queue was empty.  *)
LEMMA AppendHead ==
    ASSUME NEW S, NEW s \in Seq(S), NEW r \in S
    PROVE  /\ Append(s, r) # << >>
           /\ s # << >> => Head(Append(s, r)) = Head(s)
<1>1. Len(s) \in Nat /\ (s # << >> => Len(s) > 0)
  BY LenProperties, EmptySeq
<1>2. /\ Append(s, r) \in Seq(S)
      /\ Len(Append(s, r)) = Len(s) + 1
      /\ \A i \in 1..Len(s) : Append(s, r)[i] = s[i]
  BY AppendProperties
<1>3. Append(s, r) # << >>
  BY <1>1, <1>2, EmptySeq
<1>4. s # << >> => Head(s) = s[1] /\ Head(Append(s, r)) = Append(s, r)[1]
  BY <1>1, <1>2
<1> QED
  BY <1>1, <1>2, <1>3, <1>4

(* Where the others stand once one request is removed.                     *)
LEMMA WithoutAt ==
    ASSUME NEW S, NEW s \in Seq(S), NEW m \in 1..Len(s), NoDup(s)
    PROVE  /\ Without(s, s[m]) \in Seq(S)
           /\ Len(Without(s, s[m])) = Len(s) - 1
           /\ \A i \in 1..Len(s) - 1 : Without(s, s[m])[i] = IF i < m THEN s[i] ELSE s[i + 1]
<1> DEFINE u == SubSeq(s, 1, m - 1)
           v == SubSeq(s, m + 1, Len(s))
           t == Without(s, s[m])
<1>1. Len(s) \in Nat
  BY LenProperties
<1>2. t = u \o v
  <2>1. (CHOOSE i \in 1..Len(s) : s[i] = s[m]) = m
    BY DEF NoDup
  <2> QED
    BY <2>1 DEF Without
<1>3. /\ u \in Seq(S)
      /\ Len(u) = m - 1
      /\ \A i \in 1..m - 1 : u[i] = s[i]
  BY <1>1, SubSeqProperties
<1>4. /\ v \in Seq(S)
      /\ Len(v) = Len(s) - m
      /\ \A i \in 1..Len(s) - m : v[i] = s[m + i]
  BY <1>1, SubSeqProperties
<1> HIDE DEF u, v, t
<1>5. /\ t \in Seq(S)
      /\ Len(t) = Len(u) + Len(v)
      /\ \A i \in 1..Len(u) + Len(v) : t[i] = IF i <= Len(u) THEN u[i] ELSE v[i - Len(u)]
  BY <1>2, <1>3, <1>4, ConcatProperties
<1>6. ASSUME NEW i \in 1..Len(s) - 1 PROVE t[i] = IF i < m THEN s[i] ELSE s[i + 1]
  <2>1. CASE i < m
    <3>1. i \in 1..Len(u) + Len(v) /\ i <= Len(u) /\ i \in 1..m - 1
      BY <2>1, <1>3, <1>4, <1>1
    <3>2. t[i] = u[i]
      BY <3>1, <1>5
    <3> QED
      BY <2>1, <3>1, <3>2, <1>3
  <2>2. CASE ~(i < m)
    <3>1. i - (m - 1) \in 1..Len(s) - m
      BY <2>2, <1>1
    <3>2. v[i - (m - 1)] = s[m + (i - (m - 1))]
      BY <3>1, <1>4
    <3>3. m + (i - (m - 1)) = i + 1
      BY <1>1
    <3>4. t[i] = v[i - (m - 1)]
      <4>1. i \in 1..Len(u) + Len(v) /\ ~(i <= Len(u))
        BY <2>2, <1>3, <1>4, <1>1
      <4>2. t[i] = v[i - Len(u)]
        BY <4>1, <1>5
      <4> QED
        BY <4>2, <1>3
    <3> QED
      BY <3>2, <3>3, <3>4, <2>2
  <2> QED
    BY <2>1, <2>2
<1> QED
  BY <1>5, <1>6, <1>3, <1>4, <1>1 DEF t

LEMMA WithoutHead ==
    ASSUME NEW S, NEW s \in Seq(S), s # << >>, NEW r, r # Head(s), NoDup(s)
    PROVE  Without(s, r) # << >> /\ Head(Without(s, r)) = Head(s)
<1>1. Len(s) \in Nat /\ Len(s) > 0
  BY LenProperties, EmptySeq
<1>2. Head(s) = s[1]
  BY HeadTailProperties
<1>3. CASE ~\E i \in 1..Len(s) : s[i] = r
  BY <1>3 DEF Without
<1>4. CASE \E i \in 1..Len(s) : s[i] = r
  <2>1. PICK m \in 1..Len(s) : s[m] = r
    BY <1>4
  <2> DEFINE t == Without(s, s[m])
  <2>2. /\ t \in Seq(S) /\ Len(t) = Len(s) - 1
        /\ \A i \in 1..Len(s) - 1 : t[i] = IF i < m THEN s[i] ELSE s[i + 1]
    BY WithoutAt
  <2>3. m > 1
    BY <1>1, <1>2, <2>1
  <2> HIDE DEF t
  <2>4. t # << >> /\ t[1] = s[1]
    BY <1>1, <2>2, <2>3, EmptySeq
  <2>5. Head(t) = t[1]
    BY <2>2, <2>4, HeadTailProperties
  <2> QED
    BY <1>2, <2>1, <2>4, <2>5 DEF t
<1> QED
  BY <1>3, <1>4

(* Removing one request wherever it stands.                                *)
LEMMA WithoutQueue ==
    ASSUME NEW S, NEW s \in Seq(S), NEW r, NoDup(s)
    PROVE  /\ Without(s, r) \in Seq(S)
           /\ RangeOf(Without(s, r)) = RangeOf(s) \ {r}
           /\ NoDup(Without(s, r))
<1>1. Len(s) \in Nat
  BY LenProperties
<1>2. CASE ~\E i \in 1..Len(s) : s[i] = r
  BY <1>2 DEF Without, RangeOf
<1>3. CASE \E i \in 1..Len(s) : s[i] = r
  <2> DEFINE t == Without(s, r)
  <2>1. PICK m \in 1..Len(s) : s[m] = r
    BY <1>3
  <2>5. /\ t \in Seq(S)
        /\ Len(t) = Len(s) - 1
        /\ \A i \in 1..Len(s) - 1 : t[i] = IF i < m THEN s[i] ELSE s[i + 1]
    BY <2>1, WithoutAt
  <2> HIDE DEF t
  <2>6. NoDup(t)
    <3> SUFFICES ASSUME NEW i \in 1..Len(s) - 1, NEW j \in 1..Len(s) - 1, t[i] = t[j]
                 PROVE  i = j
      BY <2>5 DEF NoDup
    <3>1. /\ t[i] = IF i < m THEN s[i] ELSE s[i + 1]
          /\ t[j] = IF j < m THEN s[j] ELSE s[j + 1]
      BY <2>5
    <3>2. i \in 1..Len(s) /\ i + 1 \in 1..Len(s) /\ j \in 1..Len(s) /\ j + 1 \in 1..Len(s)
      BY <1>1
    <3> DEFINE a == IF i < m THEN i ELSE i + 1
               b == IF j < m THEN j ELSE j + 1
    <3>3. a \in 1..Len(s) /\ b \in 1..Len(s) /\ s[a] = s[b]
      BY <3>1, <3>2
    <3>4. a = b
      BY <3>3 DEF NoDup
    <3> QED
      BY <3>4
  <2>7. RangeOf(t) = RangeOf(s) \ {r}
    <3>1. ASSUME NEW x \in RangeOf(t) PROVE x \in RangeOf(s) \ {r}
      <4>1. PICK i \in 1..Len(s) - 1 : x = IF i < m THEN s[i] ELSE s[i + 1]
        BY <2>5, <3>1 DEF RangeOf
      <4> QED
        BY <4>1, <2>1, <1>1 DEF RangeOf, NoDup
    <3>2. ASSUME NEW x \in RangeOf(s) \ {r} PROVE x \in RangeOf(t)
      <4>1. PICK j \in 1..Len(s) : x = s[j] /\ j # m
        BY <2>1, <3>2 DEF RangeOf
      <4>2. CASE j < m
        BY <4>1, <4>2, <2>1, <2>5, <1>1 DEF RangeOf
      <4>3. CASE j > m
        <5>1. j - 1 \in 1..Len(s) - 1 /\ ~(j - 1 < m) /\ (j - 1) + 1 = j
          BY <4>1, <4>3, <2>1, <1>1
        <5>2. t[j - 1] = x
          BY <5>1, <4>1, <2>5
        <5> QED
          BY <5>1, <5>2, <2>5 DEF RangeOf
      <4> QED
        BY <4>1, <4>2, <4>3, <2>1, <1>1
    <3> QED
      BY <3>1, <3>2
  <2> QED
    BY <2>5, <2>6, <2>7 DEF t
<1> QED
  BY <1>2, <1>3

(* Removing several requests at once.                                      *)
LEMMA WithoutAllQueue ==
    ASSUME NEW S, NEW s \in Seq(S), NEW R
    PROVE  /\ WithoutAll(s, R) \in Seq(S)
           /\ RangeOf(WithoutAll(s, R)) = RangeOf(s) \ R
           /\ NoDup(s) => NoDup(WithoutAll(s, R))
<1> DEFINE kept == {i \in 1..Len(s) : s[i] \notin R}
           upto(i) == {j \in kept : j <= i}
           rank(i) == Cardinality(upto(i))
           c == Cardinality(kept)
           at(n) == CHOOSE i \in kept : rank(i) = n
           t == WithoutAll(s, R)
<1>1. Len(s) \in Nat
  BY LenProperties
<1>2. IsFiniteSet(kept) /\ c \in Nat
  <2>1. IsFiniteSet(1..Len(s))
    BY <1>1, FS_Interval
  <2> QED
    BY <2>1, FS_Subset, FS_CardinalityType
<1>3. ASSUME NEW i \in kept PROVE rank(i) \in 1..c
  <2>1. IsFiniteSet(upto(i)) /\ rank(i) \in Nat /\ rank(i) <= c
    BY <1>2, FS_Subset, FS_CardinalityType
  <2>2. i \in upto(i)
    OBVIOUS
  <2>3. rank(i) # 0
    BY <2>1, <2>2, FS_EmptySet
  <2> HIDE DEF rank, c
  <2> QED
    BY <2>1, <2>3, <1>2
<1>4. ASSUME NEW i \in kept, NEW j \in kept, i < j PROVE rank(i) # rank(j)
  <2>1. upto(i) \in SUBSET upto(j) /\ IsFiniteSet(upto(j))
    BY <1>2, <1>4, FS_Subset
  <2>2. j \in upto(j) /\ j \notin upto(i)
    BY <1>4
  <2> QED
    BY <2>1, <2>2, FS_Subset
<1>5. \A i, j \in kept : rank(i) = rank(j) => i = j
  <2> SUFFICES ASSUME NEW i \in kept, NEW j \in kept, i # j PROVE rank(i) # rank(j)
    OBVIOUS
  <2>1. i \in Nat /\ j \in Nat
    BY <1>1
  <2>2. i < j \/ j < i
    BY <2>1
  <2> HIDE DEF kept, rank
  <2> QED
    BY <2>2, <1>4
<1> HIDE DEF rank
<1>6. \A n \in 1..c : \E i \in kept : rank(i) = n
  <2> DEFINE f == [i \in kept |-> rank(i)]
  <2> HIDE DEF kept, c
  <2>1. f \in Injection(kept, 1..c)
    BY <1>3, <1>5 DEF Injection, IsInjective
  <2>2. IsFiniteSet(1..c) /\ Cardinality(1..c) = c
    BY <1>2, FS_Interval
  <2>3. f \in Surjection(kept, 1..c)
    BY <2>1, <2>2, FS_Injection DEF c
  <2> QED
    BY <2>3 DEF Surjection
<1>7. ASSUME NEW n \in 1..c PROVE at(n) \in kept /\ rank(at(n)) = n
  BY <1>6
<1>8. t = [n \in 1..c |-> s[at(n)]]
  BY DEF WithoutAll, rank
<1> HIDE DEF at, t, c
<1>9. ASSUME NEW i \in kept PROVE rank(i) \in 1..c /\ at(rank(i)) = i
  <2> HIDE DEF kept
  <2>1. rank(i) \in 1..c
    BY <1>3
  <2> QED
    BY <2>1, <1>5, <1>7
<1>10. \A n \in 1..c : at(n) \in 1..Len(s) /\ s[at(n)] \in S /\ s[at(n)] \notin R
  BY <1>7, ElementOfSeq
<1>11. t \in Seq(S) /\ Len(t) = c
  <2>1. \A n \in 1..c : s[at(n)] \in S
    BY <1>10
  <2>2. t \in [1..c -> S]
    BY <2>1, <1>8
  <2> HIDE DEF kept
  <2> QED
    BY <2>2, <1>2, IsASeq, LenProperties DEF c
<1>12. RangeOf(t) = RangeOf(s) \ R
  <2>1. ASSUME NEW x \in RangeOf(t) PROVE x \in RangeOf(s) \ R
    BY <2>1, <1>8, <1>10, <1>11 DEF RangeOf
  <2>2. ASSUME NEW x \in RangeOf(s) \ R PROVE x \in RangeOf(t)
    <3>1. PICK i \in kept : x = s[i]
      BY <2>2 DEF RangeOf
    <3>2. rank(i) \in 1..c /\ t[rank(i)] = x
      BY <3>1, <1>8, <1>9
    <3> QED
      BY <3>2, <1>11 DEF RangeOf
  <2> QED
    BY <2>1, <2>2
<1>13. NoDup(s) => NoDup(t)
  <2> SUFFICES ASSUME NoDup(s), NEW m \in 1..c, NEW n \in 1..c, t[m] = t[n] PROVE m = n
    BY <1>11 DEF NoDup
  <2>1. s[at(m)] = s[at(n)]
    BY <1>8
  <2>2. at(m) = at(n)
    BY <2>1, <1>10 DEF NoDup
  <2> QED
    BY <2>2, <1>7
<1> QED
  BY <1>11, <1>12, <1>13 DEF t

-----------------------------------------------------------------------------
(* The order in a queue.                                                   *)

Before(s, x, y) == \E i, j \in 1..Len(s) : i < j /\ s[i] = x /\ s[j] = y

(* Cutting off the first requests keeps the order of the others, and those *)
(* cut off stood before them.                                              *)
LEMMA DropOrder ==
    ASSUME NEW S, NEW s \in Seq(S), NEW n \in 0..Len(s), NEW x, NEW y
    PROVE  LET t == SubSeq(s, n + 1, Len(s))
           IN  /\ Before(t, x, y) => Before(s, x, y)
               /\ x \in {s[i] : i \in 1..n} /\ y \in RangeOf(t) => Before(s, x, y)
<1> DEFINE t == SubSeq(s, n + 1, Len(s))
<1>1. Len(s) \in Nat
  BY LenProperties
<1>2. Len(t) = Len(s) - n /\ \A i \in 1..Len(s) - n : t[i] = s[n + i]
  BY <1>1, SubSeqProperties
<1> HIDE DEF t
<1>3. ASSUME Before(t, x, y) PROVE Before(s, x, y)
  <2>1. PICK i \in 1..Len(s) - n, j \in 1..Len(s) - n : i < j /\ s[n + i] = x /\ s[n + j] = y
    BY <1>2, <1>3 DEF Before
  <2>2. n + i \in 1..Len(s) /\ n + j \in 1..Len(s) /\ n + i < n + j
    BY <1>1, <2>1
  <2> QED
    BY <2>1, <2>2 DEF Before
<1>4. ASSUME x \in {s[i] : i \in 1..n}, y \in RangeOf(t) PROVE Before(s, x, y)
  <2>1. PICK i \in 1..n : s[i] = x
    BY <1>4
  <2>2. PICK j \in 1..Len(s) - n : s[n + j] = y
    BY <1>2, <1>4 DEF RangeOf
  <2>3. i \in 1..Len(s) /\ n + j \in 1..Len(s) /\ i < n + j
    BY <1>1, <2>1, <2>2
  <2> QED
    BY <2>1, <2>2, <2>3 DEF Before
<1> QED
  BY <1>3, <1>4 DEF t

(* Removing a request keeps the order of the others.                       *)
LEMMA WithoutOrder ==
    ASSUME NEW S, NEW s \in Seq(S), NEW r, NoDup(s), NEW x, NEW y, Before(Without(s, r), x, y)
    PROVE  Before(s, x, y)
<1>1. Len(s) \in Nat
  BY LenProperties
<1>2. CASE ~\E i \in 1..Len(s) : s[i] = r
  BY <1>2 DEF Without
<1>3. CASE \E i \in 1..Len(s) : s[i] = r
  <2> DEFINE t == Without(s, r)
  <2>1. PICK m \in 1..Len(s) : s[m] = r
    BY <1>3
  <2>2. /\ Len(t) = Len(s) - 1
        /\ \A i \in 1..Len(s) - 1 : t[i] = IF i < m THEN s[i] ELSE s[i + 1]
    BY <2>1, WithoutAt
  <2> HIDE DEF t
  <2>3. PICK i \in 1..Len(s) - 1, j \in 1..Len(s) - 1 : i < j /\ t[i] = x /\ t[j] = y
    BY <2>2 DEF Before, t
  <2> DEFINE a == IF i < m THEN i ELSE i + 1
             b == IF j < m THEN j ELSE j + 1
  <2>4. a \in 1..Len(s) /\ b \in 1..Len(s) /\ a < b
    BY <1>1, <2>3
  <2>5. s[a] = x /\ s[b] = y
    BY <2>2, <2>3
  <2> HIDE DEF a, b
  <2> QED
    BY <2>4, <2>5 DEF Before
<1> QED
  BY <1>2, <1>3

(* A request that is appended stands behind all others.                    *)
LEMMA AppendOrder ==
    ASSUME NEW S, NEW s \in Seq(S), NEW r \in S, NEW x, NEW y, Before(Append(s, r), x, y)
    PROVE  Before(s, x, y) \/ (x \in RangeOf(s) /\ y = r)
<1>1. Len(s) \in Nat
  BY LenProperties
<1>2. /\ Len(Append(s, r)) = Len(s) + 1
      /\ \A i \in 1..Len(s) : Append(s, r)[i] = s[i]
      /\ Append(s, r)[Len(s) + 1] = r
  BY AppendProperties
<1>3. PICK i \in 1..Len(s) + 1, j \in 1..Len(s) + 1 :
        i < j /\ Append(s, r)[i] = x /\ Append(s, r)[j] = y
  BY <1>2 DEF Before
<1>4. i \in 1..Len(s) /\ s[i] = x
  BY <1>1, <1>2, <1>3
<1>5. CASE j = Len(s) + 1
  BY <1>2, <1>3, <1>4, <1>5 DEF RangeOf
<1>6. CASE j # Len(s) + 1
  <2>1. j \in 1..Len(s) /\ s[j] = y
    BY <1>1, <1>2, <1>3, <1>6
  <2> QED
    BY <1>3, <1>4, <2>1 DEF Before
<1> QED
  BY <1>5, <1>6

-----------------------------------------------------------------------------
(* Numbers.                                                                *)

(* A set of naturals has a least element.                                  *)
LEMMA LeastNat ==
    ASSUME NEW T \in SUBSET Nat, T # {}
    PROVE  \E m \in T : \A k \in T : m <= k
<1>1. \E m \in T : \A k \in T : <<k, m>> \notin OpToRel(<, Nat)
  BY NatLessThanWellFounded, WFMin, Zenon
<1>2. PICK m \in T : \A k \in T : <<k, m>> \notin OpToRel(<, Nat)
  BY <1>1
<1>3. ASSUME NEW k \in T PROVE ~(k < m)
  BY <1>2 DEF OpToRel
<1> QED
  BY <1>3

(* Induction up to n, for a set of naturals instead of a predicate.        *)
LEMMA CountUp ==
    ASSUME NEW n \in Nat, NEW S, 0 \in S, \A i \in 0..(n - 1) : i \in S => i + 1 \in S
    PROVE  \A i \in 0..n : i \in S
<1> DEFINE T == {i \in 0..n : i \notin S}
<1> SUFFICES ASSUME T # {} PROVE FALSE
  OBVIOUS
<1>0. T \in SUBSET Nat
  OBVIOUS
<1>1. PICK m \in T : \A k \in T : m <= k
  <2> HIDE DEF T
  <2> QED
    BY <1>0, LeastNat
<1>2. m # 0 /\ m - 1 \in 0..(n - 1) /\ m - 1 \notin T
  BY <1>1
<1> QED
  BY <1>2

LEMMA CountTo ==
    ASSUME NEW n \in Nat
    PROVE  IsFiniteSet(1..n) /\ Cardinality(1..n) = n
<1>1. 1 \in Int /\ n \in Int
  OBVIOUS
<1>2. IsFiniteSet(1..n) /\ Cardinality(1..n) = IF 1 > n THEN 0 ELSE n - 1 + 1
  BY <1>1, FS_Interval
<1> QED
  BY <1>2

(* A finite set of naturals has a greatest element.                        *)
LEMMA GreatestNat ==
    ASSUME NEW T \in SUBSET Nat, IsFiniteSet(T), T # {}
    PROVE  \E m \in T : \A k \in T : k <= m
<1> DEFINE c == Cardinality(T)
<1>1. c \in Nat /\ \E f : f \in Bijection(1..c, T)
  BY FS_CardinalityType DEF ExistsBijection
<1>2. PICK f : f \in Bijection(1..c, T)
  BY <1>1
<1>3. /\ f \in [1..c -> T] /\ f \in [1..c -> Nat]
      /\ \A x \in T : \E i \in 1..c : f[i] = x
  BY <1>2 DEF Bijection, Injection, Surjection
<1> HIDE DEF c
<1> DEFINE S == {n \in Nat : n = 0 \/ n > c \/ \E i \in 1..n : \A j \in 1..n : f[j] <= f[i]}
<1>4. 0 \in S
  OBVIOUS
<1>5. ASSUME NEW n \in 0..(c - 1), n \in S PROVE n + 1 \in S
  <2>1. CASE n = 0
    <3>1. f[1] \in Nat
      BY <2>1, <1>1, <1>3, <1>5
    <3> QED
      BY <2>1, <3>1
  <2>2. CASE n # 0
    <3>1. PICK i \in 1..n : \A j \in 1..n : f[j] <= f[i]
      BY <2>2, <1>1, <1>5
    <3>2. f[i] \in Nat /\ f[n + 1] \in Nat /\ \A j \in 1..n : f[j] \in Nat
      <4>1. n + 1 \in 1..c /\ i \in 1..c /\ \A j \in 1..n : j \in 1..c
        BY <1>1
      <4> QED
        BY <4>1, <1>3
    <3>3. CASE f[n + 1] <= f[i]
      BY <3>1, <3>3
    <3>4. CASE f[n + 1] > f[i]
      BY <3>1, <3>2, <3>4
    <3> QED
      BY <3>2, <3>3, <3>4
  <2> QED
    BY <2>1, <2>2
<1> HIDE DEF S
<1>6. c \in S
  <2>1. \A i \in 0..c : i \in S
    BY <1>1, <1>4, <1>5, CountUp
  <2> QED
    BY <1>1, <2>1
<1>7. c # 0
  <2>1. PICK i \in 1..c : TRUE
    BY <1>3
  <2> QED
    BY <1>1, <2>1
<1>8. PICK i \in 1..c : \A j \in 1..c : f[j] <= f[i]
  BY <1>1, <1>6, <1>7 DEF S
<1> QED
  BY <1>3, <1>8
=============================================================================
