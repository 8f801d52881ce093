----------------------------- MODULE WaitQueue ------------------------------
(* The array that the semaphores use as a queue of waiting requests: push, *)
(* shift and findIndex-then-splice, with what the models say of it.        *)
EXTENDS Naturals, Sequences, FiniteSets

RangeOf(s) == {s[i] : i \in 1..Len(s)}

NoDup(s) == \A i, j \in 1..Len(s) : s[i] = s[j] => i = j

(* The sequence s without its element r, if it has one.                    *)
Without(s, r) ==
    IF \E i \in 1..Len(s) : s[i] = r
    THEN LET i == CHOOSE i \in 1..Len(s) : s[i] = r
         IN  SubSeq(s, 1, i - 1) \o SubSeq(s, i + 1, Len(s))
    ELSE s

(* The sequence s without its elements in R: element n of the result is    *)
(* the one with n kept positions up to its own.                            *)
WithoutAll(s, R) ==
    LET kept == {i \in 1..Len(s) : s[i] \notin R}
        rank(i) == Cardinality({j \in kept : j <= i})
    IN  [n \in 1..Cardinality(kept) |-> s[CHOOSE i \in kept : rank(i) = n]]
=============================================================================
