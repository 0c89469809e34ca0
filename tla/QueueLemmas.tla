---------------------------- MODULE QueueLemmas ----------------------------
(***************************************************************************)
(* What the three list operations of a queue edit (append, remove, move)   *)
(* return: an element-wise description, and that they neither duplicate nor *)
(* invent an element. Used by the proofs about every model with a queue.   *)
(***************************************************************************)
EXTENDS Naturals, Sequences, SequencesExt, SequenceTheorems, TLAPS

Distinct(q) == \A m, n \in 1..Len(q) : m # n => q[m] # q[n]
Within(r, q) == \A n \in 1..Len(r) : \E m \in 1..Len(q) : r[n] = q[m]

(* The elements of RemoveAt(q, n).                                          *)
LEMMA RemoveAtAt ==
  ASSUME NEW S, NEW q \in Seq(S), NEW n \in 1..Len(q)
  PROVE  /\ RemoveAt(q, n) \in Seq(S)
         /\ Len(RemoveAt(q, n)) = Len(q) - 1
         /\ \A i \in 1..(Len(q) - 1) :
              RemoveAt(q, n)[i] = IF i < n THEN q[i] ELSE q[i + 1]
  <1> DEFINE l == SubSeq(q, 1, n - 1)
             r == SubSeq(q, n + 1, Len(q))
             c == l \o r
  <1>1. /\ l \in Seq(S) /\ Len(l) = n - 1
        /\ \A i \in 1..(n - 1) : l[i] = q[i]
    BY SubSeqProperties
  <1>2. /\ r \in Seq(S) /\ Len(r) = Len(q) - n
        /\ \A i \in 1..(Len(q) - n) : r[i] = q[i + n]
    BY SubSeqProperties
  <1>3. RemoveAt(q, n) = c
    BY DEF RemoveAt
  <1> HIDE DEF l, r
  <1>4. /\ c \in Seq(S) /\ Len(c) = Len(l) + Len(r)
        /\ \A i \in 1..(Len(l) + Len(r)) :
             c[i] = IF i <= Len(l) THEN l[i] ELSE r[i - Len(l)]
    BY <1>1, <1>2, ConcatProperties
  <1> HIDE DEF c
  <1>5. /\ Len(l) + Len(r) = Len(q) - 1 /\ Len(l) = n - 1
        /\ Len(c) = Len(q) - 1
    BY <1>1, <1>2, <1>4
  <1>6. ASSUME NEW i \in 1..(Len(q) - 1), i < n
        PROVE  c[i] = q[i]
    <2>1. i \in 1..(Len(l) + Len(r)) /\ i <= Len(l)
      BY <1>5, <1>6
    <2> QED
      BY <1>1, <1>4, <1>6, <2>1
  <1>7. ASSUME NEW i \in 1..(Len(q) - 1), ~(i < n)
        PROVE  c[i] = q[i + 1]
    <2> DEFINE k == i - (n - 1)
    <2>1. k \in 1..(Len(q) - n) /\ k + n = i + 1
      BY <1>7
    <2>2. i \in 1..(Len(l) + Len(r)) /\ ~(i <= Len(l)) /\ i - Len(l) = k
      BY <1>5, <1>7
    <2>3. c[i] = r[k]
      BY <1>4, <2>2
    <2> HIDE DEF k
    <2> QED
      BY <1>2, <2>1, <2>3
  <1> QED
    BY <1>3, <1>4, <1>5, <1>6, <1>7

(* The elements of InsertAt(q, n, e).                                       *)
LEMMA InsertAtAt ==
  ASSUME NEW S, NEW q \in Seq(S), NEW n \in 1..(Len(q) + 1), NEW e \in S
  PROVE  /\ InsertAt(q, n, e) \in Seq(S)
         /\ Len(InsertAt(q, n, e)) = Len(q) + 1
         /\ \A i \in 1..(Len(q) + 1) :
              InsertAt(q, n, e)[i] =
                IF i < n THEN q[i] ELSE IF i = n THEN e ELSE q[i - 1]
  <1> DEFINE l == SubSeq(q, 1, n - 1)
             r == SubSeq(q, n, Len(q))
             m == l \o <<e>>
  <1>1. /\ l \in Seq(S) /\ Len(l) = n - 1
        /\ \A i \in 1..(n - 1) : l[i] = q[i]
    BY SubSeqProperties
  <1>2. /\ r \in Seq(S) /\ Len(r) = Len(q) + 1 - n
        /\ \A i \in 1..(Len(q) + 1 - n) : r[i] = q[i + n - 1]
    BY SubSeqProperties
  <1> HIDE DEF l, r
  <1>3. /\ m \in Seq(S) /\ Len(m) = n
        /\ \A i \in 1..n : m[i] = IF i <= n - 1 THEN l[i] ELSE <<e>>[i - (n - 1)]
    <2>1. <<e>> \in Seq(S) /\ Len(<<e>>) = 1
      OBVIOUS
    <2> QED
      BY <1>1, <2>1, ConcatProperties
  <1>4. \A i \in 1..n : m[i] = IF i < n THEN q[i] ELSE e
    BY <1>1, <1>3
  <1> HIDE DEF m
  <1>5. /\ m \o r \in Seq(S) /\ Len(m \o r) = Len(q) + 1
        /\ \A i \in 1..(Len(q) + 1) :
             (m \o r)[i] = IF i <= n THEN m[i] ELSE r[i - n]
    BY <1>2, <1>3, ConcatProperties
  <1>6. InsertAt(q, n, e) = m \o r
    BY DEF InsertAt, l, r, m
  <1> QED
    BY <1>2, <1>4, <1>5, <1>6

(* Appending a new element, removing one or moving one keeps the elements   *)
(* distinct, and nothing but the appended one is new.                       *)
LEMMA AppendKeeps ==
  ASSUME NEW S, NEW q \in Seq(S), NEW e \in S, Distinct(q),
         \A n \in 1..Len(q) : q[n] # e
  PROVE  /\ Append(q, e) \in Seq(S) /\ Distinct(Append(q, e))
         /\ \A n \in 1..Len(Append(q, e)) :
              \/ Append(q, e)[n] = e
              \/ \E m \in 1..Len(q) : Append(q, e)[n] = q[m]
  <1> DEFINE r == Append(q, e)
  <1>1. /\ Len(r) = Len(q) + 1 /\ r[Len(q) + 1] = e
        /\ \A i \in 1..Len(q) : r[i] = q[i]
    BY AppendProperties
  <1>4. r \in Seq(S)
    OBVIOUS
  <1> HIDE DEF r
  <1>2. \A n \in 1..Len(r) : r[n] = e \/ \E m \in 1..Len(q) : r[n] = q[m]
    <2>1. \A n \in 1..Len(r) : n \in 1..Len(q) \/ n = Len(q) + 1
      BY <1>1
    <2> QED
      BY <1>1, <2>1
  <1>3. Distinct(r)
    <2> SUFFICES ASSUME NEW m \in 1..Len(r), NEW n \in 1..Len(r), m # n
                 PROVE  r[m] # r[n]
      BY DEF Distinct
    <2>1. m \in 1..Len(q) \/ m = Len(q) + 1
      BY <1>1
    <2>2. n \in 1..Len(q) \/ n = Len(q) + 1
      BY <1>1
    <2> QED
      BY <1>1, <2>1, <2>2 DEF Distinct
  <1> QED
    BY <1>4, <1>2, <1>3 DEF r

LEMMA RemoveKeeps ==
  ASSUME NEW S, NEW q \in Seq(S), NEW k \in 1..Len(q), Distinct(q),
         NEW r, r = RemoveAt(q, k)
  PROVE  r \in Seq(S) /\ Distinct(r) /\ Within(r, q)
  <1>1. /\ r \in Seq(S) /\ Len(r) = Len(q) - 1
        /\ \A i \in 1..(Len(q) - 1) : r[i] = IF i < k THEN q[i] ELSE q[i + 1]
    BY RemoveAtAt
  <1> DEFINE p == [i \in 1..(Len(q) - 1) |-> IF i < k THEN i ELSE i + 1]
  <1>2. \A i \in 1..(Len(q) - 1) : r[i] = q[p[i]]
    BY <1>1
  <1>3. \A i \in 1..(Len(q) - 1) : p[i] \in 1..Len(q)
    OBVIOUS
  <1>4. \A m, n \in 1..(Len(q) - 1) : m # n => p[m] # p[n]
    OBVIOUS
  <1> HIDE DEF p
  <1>5. Within(r, q)
    BY <1>1, <1>2, <1>3 DEF Within
  <1>6. ASSUME NEW m \in 1..Len(r), NEW n \in 1..Len(r), m # n PROVE r[m] # r[n]
    <2>1. /\ m \in 1..(Len(q) - 1) /\ n \in 1..(Len(q) - 1)
          /\ p[m] \in 1..Len(q) /\ p[n] \in 1..Len(q) /\ p[m] # p[n]
      BY <1>1, <1>3, <1>4, <1>6
    <2>2. q[p[m]] # q[p[n]]
      BY <2>1 DEF Distinct
    <2> QED
      BY <1>2, <2>1, <2>2
  <1> QED
    BY <1>1, <1>5, <1>6 DEF Distinct

(* A move is a removal and an insertion: a permutation of the positions.    *)
LEMMA MoveKeeps ==
  ASSUME NEW S, NEW q \in Seq(S), NEW k \in 1..Len(q), NEW j \in 1..Len(q),
         Distinct(q), NEW r, r = InsertAt(RemoveAt(q, k), j, q[k])
  PROVE  r \in Seq(S) /\ Distinct(r) /\ Within(r, q)
  <1> DEFINE c == RemoveAt(q, k)
  <1>1. /\ c \in Seq(S) /\ Len(c) = Len(q) - 1
        /\ \A i \in 1..(Len(q) - 1) : c[i] = IF i < k THEN q[i] ELSE q[i + 1]
    BY RemoveAtAt
  <1>2. r = InsertAt(c, j, q[k])
    OBVIOUS
  <1> HIDE DEF c
  <1>3. /\ j \in 1..(Len(c) + 1) /\ Len(c) + 1 = Len(q) /\ q[k] \in S
    BY <1>1
  <1> DEFINE e == q[k]
  <1>4. e \in S /\ r = InsertAt(c, j, e)
    BY <1>2, <1>3
  <1> HIDE DEF e
  <1>4a. c \in Seq(S) /\ j \in 1..(Len(c) + 1) /\ e \in S
    BY <1>1, <1>3, <1>4
  <1>4b. /\ InsertAt(c, j, e) \in Seq(S) /\ Len(InsertAt(c, j, e)) = Len(c) + 1
        /\ \A i \in 1..(Len(c) + 1) :
             InsertAt(c, j, e)[i] =
               IF i < j THEN c[i] ELSE IF i = j THEN e ELSE c[i - 1]
    BY ONLY <1>4a, InsertAtAt
  <1>5. /\ r \in Seq(S) /\ Len(r) = Len(c) + 1
        /\ \A i \in 1..(Len(c) + 1) :
             r[i] = IF i < j THEN c[i] ELSE IF i = j THEN e ELSE c[i - 1]
    BY ONLY <1>4b, <1>4
  <1>6. ASSUME NEW i \in 1..Len(q), i < j
        PROVE  r[i] = IF i < k THEN q[i] ELSE q[i + 1]
    BY <1>1, <1>3, <1>5, <1>6
  <1>7. ASSUME NEW i \in 1..Len(q), i > j
        PROVE  r[i] = IF i <= k THEN q[i - 1] ELSE q[i]
    <2>1. PICK h \in 1..(Len(q) - 1) : h = i - 1
      BY <1>7
    <2>2. i \in 1..(Len(c) + 1) /\ ~(i < j) /\ i # j /\ i = h + 1
      BY <1>3, <1>7, <2>1
    <2>3. r[i] = c[i - 1]
      BY ONLY <1>5, <2>2
    <2>4. r[i] = c[h] /\ i = h + 1
      BY <2>1, <2>2, <2>3
    <2> QED
      BY <1>1, <2>1, <2>4
  <1>8. r[j] = q[k]
    BY <1>3, <1>5 DEF e
  <1> HIDE DEF e
  <1> DEFINE p == [i \in 1..Len(q) |->
                     IF i < j THEN IF i < k THEN i ELSE i + 1
                     ELSE IF i = j THEN k
                     ELSE IF i <= k THEN i - 1 ELSE i]
  <1>9. \A i \in 1..Len(q) : r[i] = q[p[i]]
    BY <1>6, <1>7, <1>8
  <1>10. \A i \in 1..Len(q) : p[i] \in 1..Len(q)
    OBVIOUS
  <1>11. \A m, n \in 1..Len(q) : m # n => p[m] # p[n]
    OBVIOUS
  <1> HIDE DEF p
  <1>12. r \in Seq(S) /\ Len(r) = Len(q)
    BY <1>3, <1>5
  <1>13. Within(r, q)
    BY <1>9, <1>10, <1>12 DEF Within
  <1>14. ASSUME NEW m \in 1..Len(r), NEW n \in 1..Len(r), m # n PROVE r[m] # r[n]
    <2>1. /\ m \in 1..Len(q) /\ n \in 1..Len(q)
          /\ p[m] \in 1..Len(q) /\ p[n] \in 1..Len(q) /\ p[m] # p[n]
      BY <1>10, <1>11, <1>12, <1>14
    <2>2. q[p[m]] # q[p[n]]
      BY <2>1 DEF Distinct
    <2> QED
      BY <1>9, <2>1, <2>2
  <1> QED
    BY <1>12, <1>13, <1>14 DEF Distinct
=============================================================================
