------------------------- MODULE TransactionPool_proofs -------------------------
(***************************************************************************)
(* Theorems of TransactionPool: of any number of transactions and          *)
(* commands, any threshold and block size, and every interleaving of the   *)
(* loop, its helpers and its two callers.                                  *)
(***************************************************************************)
EXTENDS TransactionPool, FiniteSetTheorems, SequenceTheorems,
        WellFoundedInduction, TLAPS

-----------------------------------------------------------------------------
(* Lists. *)

\* The elements of a sequence are those at its positions.
LEMMA ElementsAt ==
  ASSUME NEW S, NEW s \in Seq(S)
  PROVE  /\ Len(s) \in Nat /\ DOMAIN s = 1..Len(s)
         /\ ToSet(s) = {s[i] : i \in 1..Len(s)} /\ ToSet(s) \subseteq S
         /\ \A i \in 1..Len(s) : s[i] \in S
BY LenProperties, ElementOfSeq DEF ToSet

\* What is appended is one element more.
LEMMA ElementsOfAppend ==
  ASSUME NEW S, NEW s \in Seq(S), NEW x \in S
  PROVE  Append(s, x) \in Seq(S) /\ ToSet(Append(s, x)) = ToSet(s) \cup {x}
<1>1. /\ Append(s, x) \in Seq(S) /\ Len(Append(s, x)) = Len(s) + 1
      /\ \A i \in 1..Len(s) : Append(s, x)[i] = s[i]
      /\ Append(s, x)[Len(s) + 1] = x
  BY AppendProperties
<1>2. /\ Len(s) \in Nat
      /\ ToSet(s) = {s[i] : i \in 1..Len(s)}
      /\ ToSet(Append(s, x)) = {Append(s, x)[i] : i \in 1..(Len(s) + 1)}
  BY <1>1, ElementsAt
<1>3. ToSet(s) \cup {x} \subseteq ToSet(Append(s, x))
  <2>1. x \in ToSet(Append(s, x))
    BY <1>1, <1>2
  <2>2. ASSUME NEW i \in 1..Len(s) PROVE s[i] \in ToSet(Append(s, x))
    <3>1. i \in 1..(Len(s) + 1) /\ Append(s, x)[i] = s[i]
      BY <1>1, <1>2
    <3> QED
      BY <1>2, <3>1
  <2> QED
    BY <1>2, <2>1, <2>2
<1>4. ASSUME NEW i \in 1..(Len(s) + 1) PROVE Append(s, x)[i] \in ToSet(s) \cup {x}
  <2>1. CASE i = Len(s) + 1
    BY <1>1, <2>1
  <2>2. CASE i # Len(s) + 1
    <3>1. i \in 1..Len(s)
      BY <1>2, <2>2
    <3> QED
      BY <1>1, <1>2, <3>1
  <2> QED
    BY <2>1, <2>2
<1> QED
  BY <1>1, <1>2, <1>3, <1>4

\* A bounded set of naturals has a greatest element and a least one.
LEMMA Extremes ==
  ASSUME NEW N \in Nat, NEW S \in SUBSET (0..N), S # {}
  PROVE  /\ Max(S) \in S /\ \A k \in S : Max(S) >= k
         /\ Min(S) \in S /\ \A k \in S : Min(S) <= k
<1>1. ASSUME NEW T \in SUBSET Nat, T # {}
      PROVE  \E x \in T : \A y \in T : x <= y
  <2>1. PICK x \in T : \A y \in T : ~(<<y, x>> \in OpToRel(<, Nat))
    BY <1>1, NatLessThanWellFounded, WFMin
  <2>2. \A y \in T : ~(y < x)
    BY <2>1 DEF OpToRel
  <2> QED
    BY <2>2
<1>2. Min(S) \in S /\ \A k \in S : Min(S) <= k
  <2>1. \E x \in S : \A y \in S : x <= y
    <3>1. S \in SUBSET Nat
      OBVIOUS
    <3> QED
      BY <1>1, <3>1
  <2> QED
    BY <2>1 DEF Min
<1> DEFINE T == {N - k : k \in S}
<1>3. T \in SUBSET Nat /\ T # {}
  <2>1. PICK k \in S : TRUE
    OBVIOUS
  <2>2. N - k \in T
    BY <2>1
  <2>3. ASSUME NEW j \in S PROVE N - j \in Nat
    OBVIOUS
  <2> QED
    BY <2>2, <2>3
<1>4. PICK x \in T : \A y \in T : x <= y
  BY <1>1, <1>3
<1>5. PICK m \in S : x = N - m
  OBVIOUS
<1>6. \A k \in S : m >= k
  <2> TAKE k \in S
  <2>1. N - m <= N - k
    BY <1>4, <1>5
  <2> QED
    BY <2>1
<1>7. Max(S) \in S /\ \A k \in S : Max(S) >= k
  BY <1>6 DEF Max
<1> QED
  BY <1>2, <1>7

\* The last position up to which transactions are not younger than x.
LEMMA OlderPositions ==
  ASSUME NEW list \in Seq(Tx), NEW x \in Tx, NEW m, m = Max(NotYounger(list, x))
  PROVE  /\ m \in 0..Len(list)
         /\ m # 0 => Timestamp[list[m]] <= Timestamp[x]
         /\ \A k \in 1..Len(list) : k > m => Timestamp[list[k]] > Timestamp[x]
<1>1. /\ Len(list) \in Nat /\ DOMAIN list = 1..Len(list)
      /\ \A k \in 1..Len(list) : Timestamp[list[k]] \in Nat
      /\ Timestamp[x] \in Nat
  BY ElementsAt, TxAssumption
<1>2. NotYounger(list, x) \in SUBSET (0..Len(list)) /\ NotYounger(list, x) # {}
  BY <1>1 DEF NotYounger
<1>3. m \in NotYounger(list, x) /\ \A k \in NotYounger(list, x) : m >= k
  BY <1>1, <1>2, Extremes
<1>4. \A k \in 1..Len(list) : k > m => Timestamp[list[k]] > Timestamp[x]
  <2> SUFFICES ASSUME NEW k \in 1..Len(list), k > m, ~(Timestamp[list[k]] > Timestamp[x])
               PROVE  FALSE
    OBVIOUS
  <2>1. k \in NotYounger(list, x)
    BY <1>1 DEF NotYounger
  <2> QED
    BY <1>1, <1>2, <1>3, <2>1
<1> QED
  BY <1>1, <1>2, <1>3, <1>4 DEF NotYounger

\* What is where after an insertion behind position m.
LEMMA InsertAtIs ==
  ASSUME NEW list \in Seq(Tx), NEW x \in Tx, NEW m \in 0..Len(list)
  PROVE  /\ InsertAt(list, m + 1, x) \in Seq(Tx)
         /\ Len(InsertAt(list, m + 1, x)) = Len(list) + 1
         /\ \A k \in 1..m : InsertAt(list, m + 1, x)[k] = list[k]
         /\ InsertAt(list, m + 1, x)[m + 1] = x
         /\ \A k \in (m + 2)..(Len(list) + 1) : InsertAt(list, m + 1, x)[k] = list[k - 1]
<1> DEFINE n == Len(list)
           a == SubSeq(list, 1, (m + 1) - 1)
           b == SubSeq(list, m + 1, n)
           c == a \o <<x>>
           r == c \o b
<1>1. n \in Nat /\ m \in Nat /\ m <= n
  BY ElementsAt
<1>2. InsertAt(list, m + 1, x) = r
  BY DEF InsertAt
<1>3. /\ a \in Seq(Tx) /\ Len(a) = m
      /\ \A k \in 1..m : a[k] = list[k]
  <2>1. (m + 1) - 1 = m
    BY <1>1
  <2> QED
    BY <1>1, <2>1, SubSeqProperties
<1>4. /\ b \in Seq(Tx) /\ Len(b) = n - m
      /\ \A k \in 1..(n - m) : b[k] = list[m + k]
  BY <1>1, SubSeqProperties
<1> HIDE DEF a, b
<1>5. /\ c \in Seq(Tx) /\ Len(c) = m + 1
      /\ \A k \in 1..m : c[k] = a[k]
      /\ c[m + 1] = x
  <2>1. <<x>> \in Seq(Tx) /\ Len(<<x>>) = 1 /\ <<x>>[1] = x
    OBVIOUS
  <2>2. /\ c \in Seq(Tx) /\ Len(c) = Len(a) + Len(<<x>>)
        /\ \A k \in 1..(Len(a) + Len(<<x>>)) :
             c[k] = IF k <= Len(a) THEN a[k] ELSE <<x>>[k - Len(a)]
    BY <1>3, <2>1, ConcatProperties
  <2> QED
    BY <1>1, <1>3, <2>1, <2>2
<1> HIDE DEF c
<1>6. /\ r \in Seq(Tx) /\ Len(r) = n + 1
      /\ \A k \in 1..(m + 1) : r[k] = c[k]
      /\ \A k \in (m + 2)..(n + 1) : r[k] = b[k - (m + 1)]
  <2>1. /\ r \in Seq(Tx) /\ Len(r) = Len(c) + Len(b)
        /\ \A k \in 1..(Len(c) + Len(b)) :
             r[k] = IF k <= Len(c) THEN c[k] ELSE b[k - Len(c)]
    BY <1>4, <1>5, ConcatProperties
  <2> QED
    BY <1>1, <1>4, <1>5, <2>1
<1> HIDE DEF r
<1>7. \A k \in (m + 2)..(n + 1) : r[k] = list[k - 1]
  <2> TAKE k \in (m + 2)..(n + 1)
  <2>1. k - (m + 1) \in 1..(n - m) /\ m + (k - (m + 1)) = k - 1
    BY <1>1
  <2> QED
    BY <1>4, <1>6, <2>1
<1>8. \A k \in 1..m : r[k] = list[k]
  BY <1>1, <1>3, <1>5, <1>6
<1>9. r[m + 1] = x
  BY <1>1, <1>5, <1>6
<1> QED
  BY <1>2, <1>6, <1>7, <1>8, <1>9

\* What is where when position m was taken out.
LEMMA RemoveAtIs ==
  ASSUME NEW S, NEW list \in Seq(S), NEW m \in 1..Len(list)
  PROVE  /\ RemoveAt(list, m) \in Seq(S)
         /\ Len(RemoveAt(list, m)) = Len(list) - 1
         /\ \A k \in 1..(m - 1) : RemoveAt(list, m)[k] = list[k]
         /\ \A k \in m..(Len(list) - 1) : RemoveAt(list, m)[k] = list[k + 1]
<1> DEFINE n == Len(list)
           a == SubSeq(list, 1, m - 1)
           b == SubSeq(list, m + 1, n)
           r == a \o b
<1>1. n \in Nat /\ m \in Nat /\ 1 <= m /\ m <= n
  BY ElementsAt
<1>2. RemoveAt(list, m) = r
  BY DEF RemoveAt
<1>3. /\ a \in Seq(S) /\ Len(a) = m - 1
      /\ \A k \in 1..(m - 1) : a[k] = list[k]
  BY <1>1, SubSeqProperties
<1>4. /\ b \in Seq(S) /\ Len(b) = n - m
      /\ \A k \in 1..(n - m) : b[k] = list[m + k]
  BY <1>1, SubSeqProperties
<1> HIDE DEF a, b
<1>5. /\ r \in Seq(S) /\ Len(r) = n - 1
      /\ \A k \in 1..(m - 1) : r[k] = a[k]
      /\ \A k \in m..(n - 1) : r[k] = b[k - (m - 1)]
  <2>1. /\ r \in Seq(S) /\ Len(r) = Len(a) + Len(b)
        /\ \A k \in 1..(Len(a) + Len(b)) :
             r[k] = IF k <= Len(a) THEN a[k] ELSE b[k - Len(a)]
    BY <1>3, <1>4, ConcatProperties
  <2> QED
    BY <1>1, <1>3, <1>4, <2>1
<1> HIDE DEF r
<1>6. \A k \in m..(n - 1) : r[k] = list[k + 1]
  <2> TAKE k \in m..(n - 1)
  <2>1. k - (m - 1) \in 1..(n - m) /\ m + (k - (m - 1)) = k + 1
    BY <1>1
  <2> QED
    BY <1>4, <1>5, <2>1
<1>7. \A k \in 1..(m - 1) : r[k] = list[k]
  BY <1>1, <1>3, <1>5
<1> QED
  BY <1>2, <1>5, <1>6, <1>7

\* A removal takes the transaction out where it is.
LEMMA RemovedIs ==
  ASSUME NEW list \in Seq(Tx), NEW x \in ToSet(list)
  PROVE  \E m \in 1..Len(list) : list[m] = x /\ RemovedFrom(list, x) = RemoveAt(list, m)
<1> DEFINE I == {i \in 1..Len(list) : list[i] = x}
<1>1. Len(list) \in Nat /\ I # {} /\ I \in SUBSET (0..Len(list))
  BY ElementsAt
<1>2. Min(I) \in I
  BY <1>1, Extremes
<1>3. SelectInSeq(list, LAMBDA v : v = x) = Min(I)
  BY <1>1 DEF SelectInSeq
<1>4. \E i \in 1..Len(list) : list[i] = x
  BY <1>1
<1>5. RemovedFrom(list, x) = RemoveAt(list, Min(I))
  BY <1>3, <1>4 DEF RemovedFrom, RemoveFirst
<1> QED
  BY <1>2, <1>5

-----------------------------------------------------------------------------
(* Lists of transactions, the oldest first. *)

\* A list of these transactions, each once and the oldest first.
Lists(list, S) == ToSet(list) = S /\ IsInjective(list) /\ ByAge(list)

\* What is inserted comes after what is not younger and before what is.
LEMMA InsertedLists ==
  ASSUME NEW list \in Seq(Tx), NEW S, Lists(list, S), NEW x \in Tx, x \notin S
  PROVE  Inserted(list, x) \in Seq(Tx) /\ Lists(Inserted(list, x), S \cup {x})
<1> DEFINE m == Max(NotYounger(list, x))
           n == Len(list)
           r == Inserted(list, x)
<1>1. /\ m \in 0..n /\ n \in Nat /\ m \in Nat
      /\ m # 0 => Timestamp[list[m]] <= Timestamp[x]
      /\ \A k \in 1..n : k > m => Timestamp[list[k]] > Timestamp[x]
  BY OlderPositions, ElementsAt
<1>2. r = InsertAt(list, m + 1, x)
  BY DEF Inserted
<1> HIDE DEF m, r
<1>3. /\ r \in Seq(Tx) /\ Len(r) = n + 1
      /\ \A k \in 1..m : r[k] = list[k]
      /\ r[m + 1] = x
      /\ \A k \in (m + 2)..(n + 1) : r[k] = list[k - 1]
  <2> DEFINE i == InsertAt(list, m + 1, x)
  <2>1. /\ i \in Seq(Tx) /\ Len(i) = n + 1
        /\ \A k \in 1..m : i[k] = list[k]
        /\ i[m + 1] = x
        /\ \A k \in (m + 2)..(n + 1) : i[k] = list[k - 1]
    <3>1. m \in 0..Len(list)
      BY <1>1
    <3>2. i \in Seq(Tx) /\ Len(i) = n + 1 /\ i[m + 1] = x
      BY <3>1, InsertAtIs
    <3>3. \A k \in 1..m : i[k] = list[k]
      BY <3>1, InsertAtIs
    <3>4. \A k \in (m + 2)..(n + 1) : i[k] = list[k - 1]
      BY <3>1, InsertAtIs
    <3> QED
      BY <3>2, <3>3, <3>4
  <2> QED
    BY <1>2, <2>1
<1>4. /\ DOMAIN list = 1..n /\ DOMAIN r = 1..(n + 1)
      /\ S = {list[k] : k \in 1..n} /\ ToSet(r) = {r[k] : k \in 1..(n + 1)}
      /\ \A k \in 1..n : Timestamp[list[k]] \in Nat
      /\ Timestamp[x] \in Nat
  <2>1. \A k \in 1..n : list[k] \in Tx
    BY ElementsAt
  <2> QED
    BY <1>3, <2>1, ElementsAt, TxAssumption DEF Lists
<1>5. \A k \in 1..(n + 1) : \/ k \in 1..m
                            \/ k = m + 1
                            \/ k \in (m + 2)..(n + 1) /\ k - 1 \in (m + 1)..n /\ k - 1 \in 1..n
  BY <1>1
<1>6. /\ \A k \in 1..m : k \in 1..n /\ k \in 1..(n + 1)
      /\ \A k \in (m + 1)..n : k + 1 \in (m + 2)..(n + 1) /\ (k + 1) - 1 = k
      /\ m + 1 \in 1..(n + 1)
      /\ \A k \in 1..n : k \in 1..m \/ k \in (m + 1)..n
      /\ \A k \in (m + 2)..(n + 1) : k \in 1..(n + 1)
  BY <1>1
<1>7. ToSet(r) = S \cup {x}
  <2>1. \A k \in 1..(n + 1) : r[k] \in S \cup {x}
    BY <1>3, <1>4, <1>5, <1>6
  <2>2. \A k \in 1..n : list[k] \in ToSet(r)
    <3> TAKE k \in 1..n
    <3>1. CASE k \in 1..m
      BY <1>3, <1>4, <1>6, <3>1
    <3>2. CASE k \in (m + 1)..n
      <4>1. k + 1 \in 1..(n + 1) /\ r[k + 1] = list[k]
        BY <1>3, <1>6, <3>2
      <4> QED
        BY <1>4, <4>1
    <3> QED
      BY <1>6, <3>1, <3>2
  <2>3. x \in ToSet(r)
    BY <1>3, <1>4, <1>6
  <2> QED
    BY <1>4, <2>1, <2>2, <2>3
<1>8. \A j, k \in 1..n : list[j] = list[k] => j = k
  BY <1>4 DEF Lists, IsInjective
<1>9. \A k \in 1..n : list[k] # x
  BY <1>4
<1>10. ASSUME NEW j \in 1..(n + 1), NEW k \in 1..(n + 1), r[j] = r[k], j < k
       PROVE  FALSE
  <2>1. CASE j \in 1..m
    <3>1. r[j] = list[j] /\ j \in 1..n
      BY <1>3, <1>6, <2>1
    <3>2. CASE k \in 1..m
      <4>1. r[k] = list[k] /\ k \in 1..n
        BY <1>3, <1>6, <3>2
      <4> QED
        <5>1. list[j] = list[k]
          BY <1>10, <3>1, <4>1
        <5>2. j = k
          BY <1>8, <3>1, <4>1, <5>1
        <5> QED
          BY <1>1, <1>10, <5>2
    <3>3. CASE k = m + 1
      BY <1>3, <1>9, <1>10, <3>1, <3>3
    <3>4. CASE k \in (m + 2)..(n + 1) /\ k - 1 \in 1..n
      <4>1. j = k - 1
        BY <1>3, <1>8, <1>10, <3>1, <3>4
      <4> QED
        BY <1>1, <2>1, <3>4, <4>1
    <3> QED
      BY <1>5, <3>2, <3>3, <3>4
  <2>2. CASE j = m + 1
    <3>1. k \in (m + 2)..(n + 1) /\ k - 1 \in 1..n
      BY <1>1, <1>10, <2>2
    <3> QED
      BY <1>3, <1>9, <1>10, <2>2, <3>1
  <2>3. CASE j \in (m + 2)..(n + 1) /\ j - 1 \in 1..n
    <3>1. k \in (m + 2)..(n + 1) /\ k - 1 \in 1..n
      BY <1>1, <1>10, <2>3
    <3>2. j - 1 = k - 1
      BY <1>3, <1>8, <1>10, <2>3, <3>1
    <3> QED
      BY <1>10, <2>3, <3>1, <3>2
  <2> QED
    BY <1>5, <2>1, <2>2, <2>3
<1>11. IsInjective(r)
  <2>1. \A j, k \in 1..(n + 1) : j = k \/ j < k \/ k < j
    BY <1>1
  <2> QED
    BY <1>4, <1>10, <2>1 DEF IsInjective
<1>12. \A j, k \in 1..n : j < k => Timestamp[list[j]] <= Timestamp[list[k]]
  BY <1>4 DEF Lists, ByAge
<1>13. \A j \in 1..m : Timestamp[list[j]] <= Timestamp[x]
  <2> TAKE j \in 1..m
  <2>1. CASE j = m
    BY <1>1, <2>1
  <2>2. CASE j < m
    <3>1. m \in 1..n /\ m # 0 /\ j \in 1..n
      BY <1>1, <2>2
    <3>2. Timestamp[list[j]] <= Timestamp[list[m]] /\ Timestamp[list[m]] <= Timestamp[x]
      BY <1>1, <1>12, <2>2, <3>1
    <3> QED
      BY <1>4, <3>1, <3>2
  <2> QED
    BY <1>1, <2>1, <2>2
<1>14. \A k \in (m + 1)..n : Timestamp[x] <= Timestamp[list[k]]
  <2> TAKE k \in (m + 1)..n
  <2>1. k \in 1..n /\ k > m
    BY <1>1
  <2> QED
    BY <1>1, <1>4, <2>1
<1>15. ASSUME NEW j \in 1..(n + 1), NEW k \in 1..(n + 1), j < k
       PROVE  Timestamp[r[j]] <= Timestamp[r[k]]
  <2>1. CASE j \in 1..m
    <3>1. r[j] = list[j] /\ j \in 1..n
      BY <1>3, <1>6, <2>1
    <3>2. CASE k \in 1..m
      BY <1>3, <1>6, <1>12, <1>15, <3>1, <3>2
    <3>3. CASE k = m + 1
      BY <1>3, <1>13, <2>1, <3>1, <3>3
    <3>4. CASE k \in (m + 2)..(n + 1) /\ k - 1 \in (m + 1)..n
      <4>1. j < k - 1 /\ k - 1 \in 1..n
        BY <1>1, <2>1, <3>4
      <4> QED
        BY <1>3, <1>12, <3>1, <3>4, <4>1
    <3> QED
      BY <1>5, <3>2, <3>3, <3>4
  <2>2. CASE j = m + 1
    <3>1. k \in (m + 2)..(n + 1) /\ k - 1 \in (m + 1)..n
      BY <1>1, <1>15, <2>2
    <3> QED
      BY <1>3, <1>14, <2>2, <3>1
  <2>3. CASE j \in (m + 2)..(n + 1)
    <3>1. k \in (m + 2)..(n + 1) /\ k - 1 \in 1..n /\ j - 1 \in 1..n /\ j - 1 < k - 1
      BY <1>1, <1>15, <2>3
    <3> QED
      BY <1>3, <1>12, <2>3, <3>1
  <2> QED
    BY <1>5, <2>1, <2>2, <2>3
<1>16. ByAge(r)
  BY <1>4, <1>15 DEF ByAge
<1> QED
  BY <1>3, <1>7, <1>11, <1>16 DEF Lists, r

\* What stays after a removal is in its order, and what was removed is gone.
LEMMA RemovedLists ==
  ASSUME NEW list \in Seq(Tx), NEW S, Lists(list, S), NEW x \in S
  PROVE  RemovedFrom(list, x) \in Seq(Tx) /\ Lists(RemovedFrom(list, x), S \ {x})
<1> DEFINE n == Len(list)
           r == RemovedFrom(list, x)
<1>1. PICK m \in 1..n : list[m] = x /\ r = RemoveAt(list, m)
  BY RemovedIs DEF Lists
<1> HIDE DEF r
<1>2. n \in Nat /\ m \in Nat /\ 1 <= m /\ m <= n
  BY ElementsAt
<1>3. /\ r \in Seq(Tx) /\ Len(r) = n - 1
      /\ \A k \in 1..(m - 1) : r[k] = list[k]
      /\ \A k \in m..(n - 1) : r[k] = list[k + 1]
  BY <1>1, RemoveAtIs
<1>4. /\ DOMAIN list = 1..n /\ DOMAIN r = 1..(n - 1)
      /\ S = {list[k] : k \in 1..n} /\ ToSet(r) = {r[k] : k \in 1..(n - 1)}
  BY <1>3, ElementsAt DEF Lists
<1>5. /\ \A j, k \in 1..n : list[j] = list[k] => j = k
      /\ \A j, k \in 1..n : j < k => Timestamp[list[j]] <= Timestamp[list[k]]
  BY <1>4 DEF Lists, IsInjective, ByAge
<1> DEFINE at(k) == IF k < m THEN k ELSE k + 1
<1>6. \A k \in 1..(n - 1) : at(k) \in 1..n /\ at(k) # m /\ r[k] = list[at(k)]
  <2> TAKE k \in 1..(n - 1)
  <2>1. CASE k < m
    <3>1. k \in 1..(m - 1) /\ k \in 1..n
      BY <1>2, <2>1
    <3> QED
      BY <1>3, <2>1, <3>1
  <2>2. CASE ~(k < m)
    <3>1. k \in m..(n - 1) /\ k + 1 \in 1..n /\ k + 1 # m
      BY <1>2, <2>2
    <3> QED
      BY <1>3, <2>2, <3>1
  <2> QED
    BY <2>1, <2>2
<1>7. \A j, k \in 1..(n - 1) : /\ at(j) = at(k) => j = k
                               /\ j < k => at(j) < at(k)
  BY <1>2
<1>8. \A k \in 1..n : k # m => \E j \in 1..(n - 1) : at(j) = k
  <2> SUFFICES ASSUME NEW k \in 1..n, k # m
               PROVE  \E j \in 1..(n - 1) : at(j) = k
    OBVIOUS
  <2>1. CASE k < m
    <3>1. k \in 1..(n - 1) /\ at(k) = k
      BY <1>2, <2>1
    <3> QED
      BY <3>1
  <2>2. CASE k > m
    <3>1. k - 1 \in 1..(n - 1) /\ at(k - 1) = k
      BY <1>2, <2>2
    <3> QED
      BY <3>1
  <2> QED
    BY <1>2, <2>1, <2>2
<1> HIDE DEF at
<1>9. ToSet(r) = S \ {x}
  <2>1. \A k \in 1..(n - 1) : r[k] \in S \ {x}
    BY <1>1, <1>4, <1>5, <1>6
  <2>2. \A k \in 1..n : list[k] # x => list[k] \in ToSet(r)
    BY <1>1, <1>4, <1>6, <1>8
  <2> QED
    BY <1>4, <2>1, <2>2
<1>10. IsInjective(r)
  BY <1>4, <1>5, <1>6, <1>7 DEF IsInjective
<1>11. ByAge(r)
  BY <1>4, <1>5, <1>6, <1>7 DEF ByAge
<1> QED
  BY <1>3, <1>9, <1>10, <1>11 DEF Lists, r

\* The list that almostClear makes is one of what stays.
LEMMA RelistedLists ==
  ASSUME NEW S \in SUBSET Tx, NEW list \in SetToSeqs(S), ByAge(list)
  PROVE  list \in Seq(Tx) /\ Lists(list, S)
<1> DEFINE n == Cardinality(S)
<1>1. IsFiniteSet(S) /\ n \in Nat
  BY FS_Subset, FS_CardinalityType, TxAssumption
<1>2. list \in [1..n -> S] /\ \A j, k \in 1..n : j # k => list[j] # list[k]
  BY DEF SetToSeqs
<1>3. list \in Seq(Tx) /\ list \in Seq(S) /\ Len(list) = n
  BY <1>1, <1>2
<1>4. IsInjective(list)
  BY <1>2 DEF IsInjective
<1>5. list \in Surjection(1..n, S)
  <2>1. list \in Injection(1..n, S)
    BY <1>2, <1>4 DEF Injection
  <2>2. IsFiniteSet(1..n) /\ Cardinality(1..n) = n
    BY <1>1, FS_Interval
  <2> QED
    BY <1>1, <2>1, <2>2, FS_Injection
<1>6. ToSet(list) = S
  <2>1. ToSet(list) = {list[i] : i \in 1..n}
    BY <1>3, ElementsAt
  <2>2. \A x \in S : \E i \in 1..n : list[i] = x
    BY <1>5 DEF Surjection
  <2>3. \A i \in 1..n : list[i] \in S
    BY <1>2
  <2> QED
    BY <2>1, <2>2, <2>3
<1> QED
  BY <1>3, <1>4, <1>6 DEF Lists

-----------------------------------------------------------------------------
(* The invariant. *)

\* The transactions that reach a caller: a message keeps its priority, so those of the
\* two callers are apart.
ReachesCaller(c) == IF c = "MsgHandler" THEN Priority ELSE Ordinary

\* The loop serves one caller, or none when it selects; what it adds has room.
LoopInv ==
  /\ phase = "select" <=> \A c \in Caller : call[c].at # "loop"
  /\ \A c, d \in Caller : call[c].at = "loop" /\ call[d].at = "loop" => c = d
  /\ \A c \in Caller : call[c].at = "loop" =>
       /\ phase = "wait" <=> call[c].op = "remove"
       /\ phase \in {"insert", "drop", "relist"} => call[c].tx \in Tx
       /\ phase = "write" => HasRoom(call[c].tx)
  /\ behavior # "Drop" => phase \notin {"drop", "relist"}

\* What a caller is about to add is not in the map: nobody else adds it.
FreshInv ==
  \A c \in Caller :
    /\ call[c].op \in {"exist", "chain", "add"} => call[c].tx \in ReachesCaller(c)
    /\ call[c].op = "chain" => call[c].tx \notin transactions
    /\ call[c].op = "add" /\ (call[c].at = "loop" => phase = "write")
         => call[c].tx \notin transactions

\* The list has what the map has, but for what is just being added, and for what
\* almostClear has dropped.
ListInv ==
  /\ phase \in {"select", "wait", "write"} => Lists(sortedList, transactions)
  /\ phase = "insert" =>
       \A c \in Caller : call[c].at = "loop" =>
         /\ call[c].tx \in transactions
         /\ Lists(sortedList, transactions \ {call[c].tx})

\* The status follows the size, but for an addition that is not finished.
StatusInv ==
  behavior = "Ignore" =>
    IF status THEN \/ Cardinality(transactions) < Threshold
                   \/ phase = "insert" /\ Cardinality(transactions) <= Threshold
    ELSE 4 * Cardinality(transactions) > 3 * Threshold

\* Only the message goroutine asks for blocks, and for removals while it flushes one:
\* what is selected, and then proposed, stays until then.
RoundInv ==
  /\ call["transactionHandler"].op \in {"none", "exist", "chain", "add"}
  /\ call["MsgHandler"].op = "remove" => round = "flush"
  /\ call["MsgHandler"].op \in {"size", "get"} => round = "lead"
  /\ work.picked # <<>> => call["MsgHandler"].op = "get"
  /\ behavior # "Drop" => ToSet(work.picked) \subseteq transactions
  /\ ProposedStaysInPool

PoolInv == TypeOK /\ LoopInv /\ FreshInv /\ ListInv /\ StatusInv /\ RoundInv

-----------------------------------------------------------------------------
(* Calls. *)

\* What a call is like, at each place.
LEMMA CallFields ==
  ASSUME NEW r \in Calls
  PROVE  /\ r.op \in {"none", "exist", "chain", "add", "remove", "size", "get"}
         /\ r.at \in {"self", "channel", "helper", "loop"}
         /\ r.op \in {"exist", "chain", "add", "remove"} => r.tx \in AnyTx
         /\ r.at = "loop" => r.op \in {"add", "remove"}
         /\ r.at = "helper" => r.op \in {"exist", "size", "get"}
         /\ r.at = "self" => r.op \in {"none", "chain"}
         /\ r.op \in {"none", "chain"} => r.at = "self"
         /\ r.op = "none" => r = Idle
BY DEF Calls, Idle

\* What calls become.
LEMMA CallsMade ==
  /\ Idle \in Calls /\ Idle.op = "none" /\ Idle.at = "self"
  /\ \A x \in AnyTx : \A op \in {"exist", "add", "remove"} : Request(op, x) \in Calls
  /\ \A op \in {"size", "get"} : Request(op, "all") \in Calls
  /\ \A op, x : /\ Request(op, x).op = op /\ Request(op, x).at = "channel"
                /\ Request(op, x).tx = x
BY DEF Calls, Idle, Request

\* A request that is passed on is the same request.
LEMMA CallsPassed ==
  ASSUME NEW r \in Calls, r.at = "channel", NEW place \in {"helper", "loop"},
         place = "loop" <=> r.op \in {"add", "remove"}
  PROVE  /\ Passed(r, place) \in Calls
         /\ Passed(r, place).op = r.op /\ Passed(r, place).at = place
         /\ Passed(r, place).tx = r.tx
BY DEF Calls, Idle, Passed

\* The caller goes on by itself when the pool does not have its transaction.
LEMMA CallsChecked ==
  ASSUME NEW r \in Calls, r.op = "exist"
  PROVE  LET s == [r EXCEPT !.op = "chain", !.at = "self"]
         IN  s \in Calls /\ s.op = "chain" /\ s.at = "self" /\ s.tx = r.tx
<1>1. r \in [op : {"exist"}, at : {"channel", "helper"}, tx : AnyTx]
  BY DEF Calls, Idle
<1> DEFINE s == [r EXCEPT !.op = "chain", !.at = "self"]
<1>2. s \in [op : {"chain"}, at : {"self"}, tx : AnyTx] /\ s.tx = r.tx
  BY <1>1
<1>3. [op : {"chain"}, at : {"self"}, tx : AnyTx] \subseteq Calls
  BY DEF Calls
<1> HIDE DEF s
<1>4. s \in Calls /\ s.op = "chain" /\ s.at = "self" /\ s.tx = r.tx
  BY <1>2, <1>3
<1> QED
  BY <1>4 DEF s

\* One call changes at a time.
LEMMA OneBecomes ==
  ASSUME call \in [Caller -> Calls], NEW c \in Caller, NEW req \in Calls, Becomes(c, req)
  PROVE  /\ call' \in [Caller -> Calls]
         /\ call'[c] = req
         /\ \A d \in Caller \ {c} : call'[d] = call[d]
BY DEF Becomes

\* The calls of a pool that is sound are calls.
LEMMA CallsTyped == ASSUME PoolInv PROVE TypeOK /\ call \in [Caller -> Calls]
BY DEF PoolInv, TypeOK

\* A step that only makes another call keeps the types.
LEMMA TypeStays ==
  ASSUME PoolInv, call' \in [Caller -> Calls],
         UNCHANGED <<poolVars, phase, handlerVars, blockVars, work, crashed>>
  PROVE  TypeOK'
<1>1. /\ TypeOK
      /\ UNCHANGED <<transactions, commands, sortedList, behavior, status>>
      /\ UNCHANGED <<phase, stopChan, addTx, work, crashed>>
      /\ UNCHANGED <<round, proposed, flushing, executed, outdated>>
  BY CallsTyped DEF poolVars, handlerVars, blockVars
<1>2. /\ (transactions \subseteq Tx /\ Cardinality(transactions) <= Threshold)'
      /\ (commands \subseteq Command /\ Cardinality(commands) <= Threshold)'
      /\ (sortedList \in Seq(Tx) /\ behavior \in Behaviors /\ status \in BOOLEAN)'
  BY <1>1 DEF TypeOK
<1>3. /\ (phase \in {"select", "wait", "write", "insert", "drop", "relist"})'
      /\ (stopChan \in Seq(BOOLEAN) /\ Len(stopChan) <= StopChanSize /\ addTx \in BOOLEAN)'
  BY <1>1 DEF TypeOK
<1>4. /\ (round \in {"follow", "lead", "proposed", "flush"})'
      /\ (proposed \in Seq(AnyTx) /\ flushing \in Seq(AnyTx))'
      /\ (executed \subseteq AnyTx /\ outdated \subseteq Command)'
  BY <1>1 DEF TypeOK
<1>5. /\ (work \in [step : {"none", "commands", "list", "check", "fill"},
                    potential : Seq(Tx), picked : Seq(Tx), i : Nat])'
      /\ (crashed \in {"no", "nil dereference", "map race"})'
  BY <1>1 DEF TypeOK
<1> QED
  BY <1>2, <1>3, <1>4, <1>5 DEF TypeOK

\* Steps beside the loop: what it is doing, the list and the status stay.
LEMMA BesideLoop ==
  ASSUME PoolInv, UNCHANGED <<transactions, sortedList, behavior, status, phase>>,
         commands' \subseteq commands,
         \A c \in Caller : \/ call'[c] = call[c]
                           \/ call[c].at # "loop" /\ call'[c].at # "loop"
  PROVE  LoopInv' /\ ListInv' /\ StatusInv'
<1> USE DEF PoolInv
<1>1. \A c \in Caller : call'[c].at = "loop" <=> call[c].at = "loop"
  OBVIOUS
<1>2. \A c \in Caller : call'[c].at = "loop" => call'[c] = call[c]
  OBVIOUS
<1>3. Cardinality(commands') <= Cardinality(commands)
  <2>1. IsFiniteSet(commands)
    BY FS_Subset, TxAssumption DEF TypeOK
  <2> QED
    BY <2>1, FS_Subset
<1>4. Cardinality(commands) \in Nat /\ Cardinality(commands') \in Nat /\ Threshold \in Nat
  BY FS_Subset, FS_CardinalityType, TxAssumption, BoundAssumption DEF TypeOK
<1>5. \A x : HasRoom(x) => HasRoom(x)'
  BY <1>3, <1>4 DEF HasRoom
<1>6. LoopInv'
  BY <1>1, <1>2, <1>5 DEF LoopInv
<1>7. ListInv'
  BY <1>1, <1>2 DEF ListInv, Lists, ByAge
<1>8. StatusInv'
  BY DEF StatusInv
<1> QED
  BY <1>6, <1>7, <1>8

\* A caller's next request is one for a transaction that reaches it and, if it is to
\* be added, is not there.
LEMMA OneFresh ==
  ASSUME PoolInv, NEW c \in Caller, NEW req \in Calls, Becomes(c, req),
         UNCHANGED <<transactions, phase>>,
         req.op \in {"exist", "chain", "add"} => req.tx \in ReachesCaller(c),
         req.op \in {"chain", "add"} => req.tx \notin transactions
  PROVE  FreshInv'
<1>1. call'[c] = req /\ \A d \in Caller \ {c} : call'[d] = call[d]
  BY OneBecomes DEF PoolInv, TypeOK
<1> QED
  BY <1>1 DEF PoolInv, FreshInv

\* A step in which a caller goes on, beside the loop.
LEMMA CallerStep ==
  ASSUME PoolInv, NEW c \in Caller, NEW req \in Calls, Becomes(c, req),
         call[c].at # "loop", req.at # "loop",
         UNCHANGED <<transactions, sortedList, behavior, status, phase>>,
         commands' \subseteq commands,
         req.op \in {"exist", "chain", "add"} => req.tx \in ReachesCaller(c),
         req.op \in {"chain", "add"} => req.tx \notin transactions
  PROVE  /\ LoopInv' /\ FreshInv' /\ ListInv' /\ StatusInv'
         /\ call' \in [Caller -> Calls] /\ call'[c] = req
         /\ \A d \in Caller \ {c} : call'[d] = call[d]
<1>1. /\ call' \in [Caller -> Calls] /\ call'[c] = req
      /\ \A d \in Caller \ {c} : call'[d] = call[d]
  BY OneBecomes DEF PoolInv, TypeOK
<1>2. FreshInv'
  BY OneFresh
<1>3. LoopInv' /\ ListInv' /\ StatusInv'
  BY <1>1, BesideLoop
<1> QED
  BY <1>1, <1>2, <1>3

\* A step in which no call changes.
LEMMA QuietStep ==
  ASSUME PoolInv, UNCHANGED <<transactions, sortedList, behavior, status, phase, call>>,
         commands' \subseteq commands
  PROVE  LoopInv' /\ FreshInv' /\ ListInv' /\ StatusInv'
<1>1. LoopInv' /\ ListInv' /\ StatusInv'
  BY BesideLoop
<1>2. FreshInv'
  BY DEF PoolInv, FreshInv
<1> QED
  BY <1>1, <1>2

\* Commands are fewer after a deletion.
LEMMA FewerCommands ==
  ASSUME TypeOK, NEW S \in SUBSET commands
  PROVE  Cardinality(S) <= Threshold
<1>1. IsFiniteSet(commands)
  BY FS_Subset, TxAssumption DEF TypeOK
<1>2. /\ Cardinality(S) <= Cardinality(commands) /\ Cardinality(S) \in Nat
      /\ Cardinality(commands) \in Nat /\ Threshold \in Nat
      /\ Cardinality(commands) <= Threshold
  BY <1>1, FS_Subset, FS_CardinalityType, BoundAssumption DEF TypeOK
<1> QED
  BY <1>2

-----------------------------------------------------------------------------
(* The callers keep the invariant. *)

\* A transaction is received by the caller that it reaches.
LEMMA ReceiveKeeps ==
  ASSUME PoolInv, NEW c \in Caller, NEW x \in AnyTx, ReceiveTransaction(c, x)
  PROVE  PoolInv'
<1> DEFINE req == Request("exist", x)
<1>1. req \in Calls /\ req.op = "exist" /\ req.at = "channel" /\ req.tx = x
  BY CallsMade
<1> HIDE DEF req
<1>2. /\ Becomes(c, req) /\ call[c] = Idle /\ x \in ReachesCaller(c)
      /\ UNCHANGED <<poolVars, phase, handlerVars, blockVars, work, crashed>>
  BY DEF ReceiveTransaction, IsIdle, ReachesCaller, req
<1>3. /\ LoopInv' /\ FreshInv' /\ ListInv' /\ StatusInv'
      /\ call' \in [Caller -> Calls] /\ call'[c] = req
      /\ \A d \in Caller \ {c} : call'[d] = call[d]
  BY <1>1, <1>2, CallsMade, CallerStep DEF poolVars
<1>4. TypeOK'
  BY <1>2, <1>3, TypeStays
<1>5. RoundInv'
  BY <1>1, <1>2, <1>3, CallsMade
  DEF PoolInv, RoundInv, ProposedStaysInPool, Caller, poolVars, blockVars
<1> QED
  BY <1>3, <1>4, <1>5 DEF PoolInv

\* The handler reads what it was told.
LEMMA ReadStatusKeeps == ASSUME PoolInv, ReadStatus PROVE PoolInv'
<1>1. UNCHANGED <<poolVars, phase, call, blockVars, work, crashed>>
  BY DEF ReadStatus
<1>2. /\ stopChan \in Seq(BOOLEAN) /\ stopChan # <<>> /\ Len(stopChan) <= StopChanSize
      /\ addTx' = Head(stopChan) /\ stopChan' = Tail(stopChan)
      /\ StopChanSize \in Nat
  BY BoundAssumption DEF ReadStatus, PoolInv, TypeOK
<1>3. addTx' \in BOOLEAN /\ stopChan' \in Seq(BOOLEAN) /\ Len(stopChan') = Len(stopChan) - 1
  BY <1>2, HeadTailProperties
<1>4. Len(stopChan') <= StopChanSize
  BY <1>2, <1>3, LenProperties
<1>5. TypeOK'
  BY <1>1, <1>3, <1>4 DEF PoolInv, TypeOK, poolVars, blockVars
<1>6. LoopInv' /\ FreshInv' /\ ListInv' /\ StatusInv'
  BY <1>1, QuietStep DEF poolVars
<1>7. RoundInv'
  BY <1>1 DEF PoolInv, RoundInv, ProposedStaysInPool, poolVars, blockVars
<1> QED
  BY <1>5, <1>6, <1>7 DEF PoolInv

\* A transaction that is not executed yet is to be added.
LEMMA CheckChainKeeps ==
  ASSUME PoolInv, NEW c \in Caller, CheckChain(c)
  PROVE  PoolInv'
<1> DEFINE x == call[c].tx
           req == IF x \in executed \cup outdated THEN Idle ELSE Request("add", x)
<1>1. /\ call[c] \in Calls /\ call[c].op = "chain" /\ call[c].at = "self"
      /\ x \in AnyTx /\ x \in ReachesCaller(c) /\ x \notin transactions
  BY CallFields DEF CheckChain, PoolInv, TypeOK, FreshInv
<1>2. /\ req \in Calls /\ req.op \in {"none", "add"} /\ req.at \in {"self", "channel"}
      /\ req.op = "add" => req.tx = x
  BY <1>1, CallsMade
<1>3. /\ Becomes(c, req)
      /\ UNCHANGED <<poolVars, phase, handlerVars, blockVars, work, crashed>>
  BY DEF CheckChain
<1> HIDE DEF req
<1>4. /\ LoopInv' /\ FreshInv' /\ ListInv' /\ StatusInv'
      /\ call' \in [Caller -> Calls] /\ call'[c] = req
      /\ \A d \in Caller \ {c} : call'[d] = call[d]
  BY <1>1, <1>2, <1>3, CallerStep DEF poolVars
<1>5. TypeOK'
  BY <1>3, <1>4, TypeStays
<1>6. RoundInv'
  BY <1>1, <1>2, <1>3, <1>4
  DEF PoolInv, RoundInv, ProposedStaysInPool, Caller, poolVars, blockVars
<1> QED
  BY <1>4, <1>5, <1>6 DEF PoolInv

\* The proposer asks for the size when it leads.
LEMMA StartProposalKeeps == ASSUME PoolInv, StartProposal PROVE PoolInv'
<1> DEFINE c == "MsgHandler"
           req == Request("size", "all")
<1>1. req \in Calls /\ req.op = "size" /\ req.at = "channel"
  BY CallsMade
<1> HIDE DEF req
<1>2. /\ Becomes(c, req) /\ call[c] = Idle /\ c \in Caller /\ round = "lead"
      /\ UNCHANGED <<poolVars, phase, handlerVars, blockVars, work, crashed>>
  BY DEF StartProposal, IsIdle, Caller, req
<1>3. /\ LoopInv' /\ FreshInv' /\ ListInv' /\ StatusInv'
      /\ call' \in [Caller -> Calls] /\ call'[c] = req
      /\ \A d \in Caller \ {c} : call'[d] = call[d]
  BY <1>1, <1>2, CallsMade, CallerStep DEF poolVars
<1>4. TypeOK'
  BY <1>2, <1>3, TypeStays
<1>5. RoundInv'
  BY <1>1, <1>2, <1>3, CallsMade
  DEF PoolInv, RoundInv, ProposedStaysInPool, Caller, poolVars, blockVars
<1> QED
  BY <1>3, <1>4, <1>5 DEF PoolInv

\* A block is a sequence of transactions or of a command.
LEMMA ForeignBlockType == ForeignBlock \subseteq Seq(AnyTx)
<1>1. \A x \in Command \ executed : <<x>> \in Seq(AnyTx)
  BY DEF AnyTx
<1>2. ASSUME NEW b \in SeqOf(Tx \ executed, BlockSize)
      PROVE  b \in Seq(AnyTx)
  <2>1. PICK m \in 0..BlockSize : b \in [1..m -> Tx \ executed]
    BY DEF SeqOf
  <2>2. m \in Nat
    BY BoundAssumption
  <2>3. b \in [1..m -> AnyTx]
    BY <2>1 DEF AnyTx
  <2> QED
    BY <2>2, <2>3
<1> QED
  BY <1>1, <1>2 DEF ForeignBlock

\* A flush begins.
LEMMA FinalizeKeeps == ASSUME PoolInv, FinalizeBlock PROVE PoolInv'
<1>1. /\ UNCHANGED <<poolVars, phase, call, handlerVars, executed, outdated, work, crashed>>
      /\ call["MsgHandler"] = Idle /\ round' = "flush" /\ proposed' = <<>>
  BY DEF FinalizeBlock, IsIdle
<1>2. flushing' \in Seq(AnyTx)
  <2>1. flushing' = proposed \/ flushing' \in ForeignBlock
    BY DEF FinalizeBlock
  <2> QED
    BY <2>1, ForeignBlockType DEF PoolInv, TypeOK
<1>3. proposed' \in Seq(AnyTx)
  BY <1>1, EmptySeq
<1>4. TypeOK'
  BY <1>1, <1>2, <1>3 DEF PoolInv, TypeOK, poolVars, handlerVars
<1>5. LoopInv' /\ FreshInv' /\ ListInv' /\ StatusInv'
  BY <1>1, QuietStep DEF poolVars
<1>6. RoundInv'
  BY <1>1, CallsMade DEF PoolInv, RoundInv, ProposedStaysInPool, poolVars
<1> QED
  BY <1>4, <1>5, <1>6 DEF PoolInv

\* The next transaction of the block is to be removed.
LEMMA FlushNextKeeps == ASSUME PoolInv, FlushNext PROVE PoolInv'
<1> DEFINE c == "MsgHandler"
           x == Head(flushing)
           req == Request("remove", x)
<1>1. flushing \in Seq(AnyTx) /\ flushing # <<>>
  BY DEF FlushNext, PoolInv, TypeOK
<1>2. x \in AnyTx /\ Tail(flushing) \in Seq(AnyTx)
  BY <1>1, HeadTailProperties
<1> HIDE DEF x
<1>3. req \in Calls /\ req.op = "remove" /\ req.at = "channel"
  BY <1>2, CallsMade
<1>4. /\ Becomes(c, req) /\ call[c] = Idle /\ c \in Caller /\ round = "flush"
      /\ executed' = executed \cup {x} /\ flushing' = Tail(flushing)
      /\ outdated' = outdated \/ outdated' \in SUBSET Command
      /\ UNCHANGED <<poolVars, phase, handlerVars, round, proposed, work, crashed>>
  BY DEF FlushNext, IsIdle, Caller, x
<1> HIDE DEF req
<1>5. /\ LoopInv' /\ FreshInv' /\ ListInv' /\ StatusInv'
      /\ call' \in [Caller -> Calls] /\ call'[c] = req
      /\ \A d \in Caller \ {c} : call'[d] = call[d]
  BY <1>3, <1>4, CallsMade, CallerStep DEF poolVars
<1>6. TypeOK'
  BY <1>2, <1>4, <1>5 DEF PoolInv, TypeOK, poolVars, handlerVars
<1>7. RoundInv'
  BY <1>3, <1>4, <1>5, CallsMade
  DEF PoolInv, RoundInv, ProposedStaysInPool, Caller, poolVars
<1> QED
  BY <1>5, <1>6, <1>7 DEF PoolInv

\* The flush ends.
LEMMA EndFlushKeeps == ASSUME PoolInv, EndFlush PROVE PoolInv'
<1>1. /\ UNCHANGED <<poolVars, phase, call, handlerVars, proposed, flushing, executed,
                     outdated, work, crashed>>
      /\ call["MsgHandler"] = Idle /\ round' \in {"follow", "lead"}
  BY DEF EndFlush, IsIdle
<1>2. TypeOK'
  BY <1>1 DEF PoolInv, TypeOK, poolVars, handlerVars
<1>3. LoopInv' /\ FreshInv' /\ ListInv' /\ StatusInv'
  BY <1>1, QuietStep DEF poolVars
<1>4. RoundInv'
  BY <1>1, CallsMade DEF PoolInv, RoundInv, ProposedStaysInPool, poolVars
<1> QED
  BY <1>2, <1>3, <1>4 DEF PoolInv

-----------------------------------------------------------------------------
(* The helpers keep the invariant. *)

\* The local variables of the selection.
Works == [step : {"none", "commands", "list", "check", "fill"},
          potential : Seq(Tx), picked : Seq(Tx), i : Nat]

\* What is no command may be in a block.
LEMMA SeqOfAnyTx == ASSUME NEW s \in Seq(Tx) PROVE s \in Seq(AnyTx)
<1>1. PICK m \in Nat : s \in [1..m -> Tx]
  OBVIOUS
<1>2. s \in [1..m -> AnyTx]
  BY <1>1 DEF AnyTx
<1> QED
  BY <1>2

\* A selection begins with nothing picked.
LEMMA NewWork ==
  /\ NoWork \in Works /\ NoWork.picked = <<>>
  /\ [NoWork EXCEPT !.step = "commands"] \in Works
  /\ [NoWork EXCEPT !.step = "commands"].picked = <<>>
  /\ ToSet(<<>>) = {}
<1>1. <<>> \in Seq(Tx) /\ 0 \in Nat
  BY EmptySeq
<1>2. NoWork \in Works /\ NoWork.picked = <<>>
  BY <1>1 DEF NoWork, Works
<1>3. [NoWork EXCEPT !.step = "commands"] \in Works
  BY <1>2 DEF Works
<1>4. [NoWork EXCEPT !.step = "commands"].picked = <<>>
  BY DEF NoWork
<1>5. ToSet(<<>>) = {}
  BY DEF ToSet
<1> QED
  BY <1>2, <1>3, <1>4, <1>5

\* A helper takes a request.
LEMMA StartHelperKeeps ==
  ASSUME PoolInv, NEW c \in Caller, StartHelper(c)
  PROVE  PoolInv'
<1> DEFINE req == Passed(call[c], "helper")
<1>1. /\ call[c] \in Calls /\ call[c].at = "channel" /\ call[c].op \in {"exist", "size", "get"}
      /\ Becomes(c, req)
      /\ UNCHANGED <<poolVars, phase, handlerVars, blockVars, crashed>>
      /\ work' = IF call[c].op = "get" THEN [NoWork EXCEPT !.step = "commands"] ELSE work
  BY DEF StartHelper, Waits, PoolInv, TypeOK
<1>2. /\ req \in Calls /\ req.op = call[c].op /\ req.at = "helper" /\ req.tx = call[c].tx
  BY <1>1, CallsPassed
<1> HIDE DEF req
<1>3. req.op = "exist" => req.tx \in ReachesCaller(c)
  BY <1>2 DEF PoolInv, FreshInv
<1>4. /\ LoopInv' /\ FreshInv' /\ ListInv' /\ StatusInv'
      /\ call' \in [Caller -> Calls] /\ call'[c] = req
      /\ \A d \in Caller \ {c} : call'[d] = call[d]
  BY <1>1, <1>2, <1>3, CallerStep DEF poolVars
<1>5. work' \in Works /\ (work'.picked = work.picked \/ work'.picked = <<>>)
  <2>1. work \in Works
    BY DEF PoolInv, TypeOK, Works
  <2> QED
    BY <1>1, <2>1, NewWork
<1>6. TypeOK'
  BY <1>1, <1>4, <1>5 DEF PoolInv, TypeOK, Works, poolVars, handlerVars, blockVars
<1>8. RoundInv'
  BY <1>1, <1>2, <1>4, <1>5, NewWork
  DEF PoolInv, RoundInv, ProposedStaysInPool, Caller, poolVars, blockVars
<1> QED
  BY <1>4, <1>6, <1>8 DEF PoolInv

\* The pool has the transaction, or the caller goes on with the chain.
LEMMA AnswerExistKeeps ==
  ASSUME PoolInv, NEW c \in Caller, AnswerExist(c)
  PROVE  PoolInv'
<1> DEFINE x == call[c].tx
           asks == [call[c] EXCEPT !.op = "chain", !.at = "self"]
           req == IF x \in transactions \cup commands THEN Idle ELSE asks
<1>1. /\ call[c] \in Calls /\ call[c].at = "helper" /\ call[c].op = "exist"
      /\ Becomes(c, req)
      /\ UNCHANGED <<poolVars, phase, handlerVars, blockVars, work, crashed>>
      /\ x \in ReachesCaller(c)
  BY DEF AnswerExist, Helps, PoolInv, TypeOK, FreshInv
<1>2. asks \in Calls /\ asks.op = "chain" /\ asks.at = "self" /\ asks.tx = x
  BY <1>1, CallsChecked
<1> HIDE DEF asks
<1>3. /\ req \in Calls /\ req.op \in {"none", "chain"} /\ req.at = "self"
      /\ req.op = "chain" => req.tx = x /\ x \notin transactions
  BY <1>2, CallsMade
<1> HIDE DEF req
<1>4. /\ LoopInv' /\ FreshInv' /\ ListInv' /\ StatusInv'
      /\ call' \in [Caller -> Calls] /\ call'[c] = req
      /\ \A d \in Caller \ {c} : call'[d] = call[d]
  BY <1>1, <1>3, CallerStep DEF poolVars
<1>5. TypeOK'
  BY <1>1, <1>4, TypeStays
<1>6. RoundInv'
  BY <1>1, <1>3, <1>4
  DEF PoolInv, RoundInv, ProposedStaysInPool, Caller, poolVars, blockVars
<1> QED
  BY <1>4, <1>5, <1>6 DEF PoolInv

\* A proposer whose pool is not empty asks for a block.
LEMMA AnswerSizeKeeps ==
  ASSUME PoolInv, NEW c \in Caller, AnswerSize(c)
  PROVE  PoolInv'
<1> DEFINE req == IF transactions = {} /\ commands = {} THEN Idle ELSE Request("get", "all")
<1>1. /\ call[c].at = "helper" /\ call[c].op = "size" /\ Becomes(c, req)
      /\ UNCHANGED <<poolVars, phase, handlerVars, blockVars, work, crashed>>
  BY DEF AnswerSize, Helps
<1>2. req \in Calls /\ req.op \in {"none", "get"} /\ req.at \in {"self", "channel"}
  BY CallsMade
<1> HIDE DEF req
<1>3. /\ LoopInv' /\ FreshInv' /\ ListInv' /\ StatusInv'
      /\ call' \in [Caller -> Calls] /\ call'[c] = req
      /\ \A d \in Caller \ {c} : call'[d] = call[d]
  BY <1>1, <1>2, CallerStep DEF poolVars
<1>4. TypeOK'
  BY <1>1, <1>3, TypeStays
<1>5. RoundInv'
  BY <1>1, <1>2, <1>3
  DEF PoolInv, RoundInv, ProposedStaysInPool, Caller, poolVars, blockVars
<1> QED
  BY <1>3, <1>4, <1>5 DEF PoolInv

\* Who selects is the message goroutine, and it leads.
LEMMA SelectingIs ==
  ASSUME PoolInv, NEW c \in Caller, NEW step, Selecting(c, step)
  PROVE  /\ c = "MsgHandler" /\ call[c].op = "get" /\ call[c].at = "helper"
         /\ round = "lead" /\ work.step = step
BY DEF Selecting, Helps, PoolInv, RoundInv, Caller

\* A step of the selection that does not end it: what was picked is in the map.
LEMMA PickingKeeps ==
  ASSUME PoolInv, NEW c \in Caller, NEW step, Selecting(c, step),
         UNCHANGED <<transactions, sortedList, behavior, status, phase, call, handlerVars,
                     blockVars>>,
         commands' \subseteq commands,
         work' \in Works,
         ToSet(work'.picked) \subseteq ToSet(work.picked) \cup transactions,
         crashed' \in {"no", "nil dereference", "map race"}
  PROVE  PoolInv'
<1>1. LoopInv' /\ FreshInv' /\ ListInv' /\ StatusInv'
  BY QuietStep
<1>2. TypeOK'
  BY FewerCommands DEF PoolInv, TypeOK, Works, handlerVars, blockVars
<1>3. RoundInv'
  BY SelectingIs DEF PoolInv, RoundInv, ProposedStaysInPool, blockVars
<1> QED
  BY <1>1, <1>2, <1>3 DEF PoolInv

\* The selection ends: what it proposes is in the pool.
LEMMA AnswerKeeps ==
  ASSUME PoolInv, NEW c \in Caller, NEW step, Selecting(c, step),
         NEW block \in Seq(AnyTx), Answer(c, block),
         behavior # "Drop" => ToSet(block) \subseteq transactions \cup commands',
         UNCHANGED <<transactions, sortedList, behavior, status, phase, handlerVars,
                     flushing, executed, outdated>>,
         commands' \subseteq commands,
         crashed' \in {"no", "nil dereference", "map race"}
  PROVE  PoolInv'
<1>1. /\ call[c].at = "helper" /\ c = "MsgHandler"
      /\ proposed' = block /\ round' = "proposed" /\ Becomes(c, Idle) /\ work' = NoWork
  BY SelectingIs DEF Answer
<1>2. /\ LoopInv' /\ FreshInv' /\ ListInv' /\ StatusInv'
      /\ call' \in [Caller -> Calls] /\ call'[c] = Idle
      /\ \A d \in Caller \ {c} : call'[d] = call[d]
  BY <1>1, CallsMade, CallerStep
<1>3. proposed' \in Seq(AnyTx) /\ work' \in Works /\ work'.picked = <<>>
  BY <1>1, NewWork
<1>4. TypeOK'
  BY <1>1, <1>2, <1>3, FewerCommands DEF PoolInv, TypeOK, Works, handlerVars
<1>5. /\ call'["MsgHandler"].op = "none"
      /\ call'["transactionHandler"] = call["transactionHandler"]
      /\ ToSet(work'.picked) = {}
  BY <1>1, <1>2, <1>3, NewWork, CallsMade DEF Caller
<1>6. ProposedStaysInPool'
  BY <1>1 DEF ProposedStaysInPool
<1>7. RoundInv'
  BY <1>3, <1>5, <1>6 DEF PoolInv, RoundInv
<1> QED
  BY <1>2, <1>4, <1>7 DEF PoolInv

\* A command is proposed and stays; those that are refused are deleted.
LEMMA SelectCommandKeeps ==
  ASSUME PoolInv, NEW c \in Caller, SelectCommand(c)
  PROVE  PoolInv'
<1> DEFINE valid == commands \ outdated
<1>1. Selecting(c, "commands")
  BY DEF SelectCommand
<1>2. UNCHANGED <<transactions, sortedList, behavior, status, phase, handlerVars, flushing,
                  executed, outdated, crashed>>
  BY DEF SelectCommand
<1>3. crashed' \in {"no", "nil dereference", "map race"}
  BY <1>2 DEF PoolInv, TypeOK
<1>4. ASSUME NEW x \in valid, NEW gone \in SUBSET (commands \ valid),
             commands' = commands \ LeavesWith(x, gone), Answer(c, <<x>>)
      PROVE  PoolInv'
  <2>1. commands' \subseteq commands /\ x \in commands'
    BY <1>4 DEF LeavesWith
  <2>2. <<x>> \in Seq(AnyTx) /\ ToSet(<<x>>) = {x}
    <3>1. x \in AnyTx
      BY DEF PoolInv, TypeOK, AnyTx
    <3> DEFINE s == <<x>>
    <3>2. s \in Seq(AnyTx) /\ Len(s) = 1 /\ s[1] = x
      BY <3>1
    <3> HIDE DEF s
    <3>3. ToSet(s) = {s[k] : k \in 1..1}
      BY <3>2, ElementsAt
    <3>4. s \in Seq(AnyTx) /\ ToSet(s) = {x}
      BY <3>2, <3>3
    <3> QED
      BY <3>4 DEF s
  <2> QED
    BY <1>1, <1>2, <1>3, <1>4, <2>1, <2>2, AnswerKeeps
<1>5. ASSUME commands' = {}, work' = [work EXCEPT !.step = "list"],
             UNCHANGED <<call, round, proposed>>
      PROVE  PoolInv'
  <2>1. work \in Works
    BY DEF PoolInv, TypeOK, Works
  <2>2. work' \in Works /\ work'.picked = work.picked
    BY <1>5, <2>1 DEF Works
  <2> QED
    BY <1>1, <1>2, <1>3, <1>5, <2>2, PickingKeeps DEF blockVars
<1> QED
  BY <1>4, <1>5 DEF SelectCommand

\* The walk along the list gives transactions.
LEMMA ListOldestKeeps ==
  ASSUME PoolInv, NEW c \in Caller, ListOldest(c)
  PROVE  PoolInv'
<1> DEFINE m == Min({BlockSize, Len(sortedList)})
           oldest == SubSeq(sortedList, 1, m)
<1>1. /\ Selecting(c, "list")
      /\ UNCHANGED <<poolVars, phase, call, handlerVars, blockVars, crashed>>
      /\ work' = [work EXCEPT !.potential = oldest, !.step = "check"]
  BY DEF ListOldest
<1>2. oldest \in Seq(Tx)
  <2>1. sortedList \in Seq(Tx) /\ Len(sortedList) \in Nat /\ BlockSize \in Nat
    BY ElementsAt, BoundAssumption DEF PoolInv, TypeOK
  <2> DEFINE sizes == {BlockSize, Len(sortedList)}
  <2>2. /\ sizes \in SUBSET (0..(BlockSize + Len(sortedList))) /\ sizes # {}
        /\ BlockSize + Len(sortedList) \in Nat
    BY <2>1
  <2>3. Min(sizes) \in sizes /\ \A k \in sizes : Min(sizes) <= k
    BY <2>2, Extremes
  <2>4. m \in 0..Len(sortedList)
    BY <2>1, <2>3
  <2> HIDE DEF m
  <2> QED
    BY <2>1, <2>4, SubSeqProperties
<1> HIDE DEF oldest
<1>3. work \in Works
  BY DEF PoolInv, TypeOK, Works
<1>4. work' \in Works /\ work'.picked = work.picked
  BY <1>1, <1>2, <1>3 DEF Works
<1>5. crashed' \in {"no", "nil dereference", "map race"} /\ commands' \subseteq commands
  BY <1>1 DEF PoolInv, TypeOK, poolVars
<1> QED
  BY <1>1, <1>4, <1>5, PickingKeeps DEF poolVars, blockVars

\* One of them is taken if it is in the map.
LEMMA CheckPotentialKeeps ==
  ASSUME PoolInv, NEW c \in Caller, CheckPotential(c)
  PROVE  PoolInv'
<1> DEFINE x == Head(work.potential)
<1>1. /\ Selecting(c, "check")
      /\ UNCHANGED <<poolVars, phase, call, handlerVars, blockVars, crashed>>
      /\ work' = IF work.potential = <<>> THEN [work EXCEPT !.step = "fill"]
                 ELSE [work EXCEPT
                         !.potential = Tail(@),
                         !.picked = IF x \in transactions THEN Append(@, x) ELSE @]
  BY DEF CheckPotential
<1>2. work \in Works /\ work.potential \in Seq(Tx) /\ work.picked \in Seq(Tx)
  BY DEF PoolInv, TypeOK, Works
<1>3. /\ work' \in Works
      /\ ToSet(work'.picked) \subseteq ToSet(work.picked) \cup transactions
  <2>1. CASE work.potential = <<>>
    BY <1>1, <1>2, <2>1 DEF Works
  <2>2. CASE work.potential # <<>>
    <3>1. x \in Tx /\ Tail(work.potential) \in Seq(Tx)
      BY <1>2, <2>2, HeadTailProperties
    <3>2. /\ Append(work.picked, x) \in Seq(Tx)
          /\ ToSet(Append(work.picked, x)) = ToSet(work.picked) \cup {x}
      BY <1>2, <3>1, ElementsOfAppend
    <3> HIDE DEF x
    <3>3. work' \in Works
      BY <1>1, <1>2, <2>2, <3>1, <3>2 DEF Works
    <3>4. work'.picked = IF x \in transactions THEN Append(work.picked, x) ELSE work.picked
      BY <1>1, <1>2, <2>2 DEF Works
    <3> QED
      BY <3>2, <3>3, <3>4
  <2> QED
    BY <2>1, <2>2
<1>4. crashed' \in {"no", "nil dereference", "map race"} /\ commands' \subseteq commands
  BY <1>1 DEF PoolInv, TypeOK, poolVars
<1> QED
  BY <1>1, <1>3, <1>4, PickingKeeps DEF poolVars, blockVars

\* The block is filled with transactions of the map, or the walk runs off the list, or
\* the block is proposed.
LEMMA FillBlockKeeps ==
  ASSUME PoolInv, NEW c \in Caller, FillBlock(c)
  PROVE  PoolInv'
<1> DEFINE n == work.i + Len(work.picked) + 1
           x == sortedList[n]
<1>1. /\ Selecting(c, "fill")
      /\ UNCHANGED <<poolVars, phase, handlerVars, flushing, executed, outdated>>
  BY DEF FillBlock
<1>2. /\ work \in Works /\ work.picked \in Seq(Tx)
      /\ crashed \in {"no", "nil dereference", "map race"}
      /\ sortedList \in Seq(Tx) /\ commands' \subseteq commands
  BY <1>1 DEF PoolInv, TypeOK, Works, poolVars
<1>3. PICK i \in Nat : work.i = i
  BY <1>2 DEF Works
<1>4. PICK m \in Nat : Len(work.picked) = m
  BY <1>2, ElementsAt
<1>5. PICK k \in Nat : Len(sortedList) = k
  BY <1>2, ElementsAt
<1>6. n = i + m + 1
  BY <1>3, <1>4
<1>7. CASE Answer(c, work.picked) /\ UNCHANGED crashed
  <2>1. ToSet(work.picked) \subseteq transactions \/ behavior = "Drop"
    BY DEF PoolInv, RoundInv
  <2>2. work.picked \in Seq(AnyTx)
    BY <1>2, SeqOfAnyTx
  <2> QED
    BY <1>1, <1>2, <1>7, <2>1, <2>2, AnswerKeeps DEF poolVars
<1>8. CASE crashed' = "nil dereference" /\ UNCHANGED <<work, call, round, proposed>>
  BY <1>1, <1>2, <1>8, PickingKeeps DEF poolVars, blockVars
<1>9. CASE /\ n <= Len(sortedList)
           /\ work' = IF x \in transactions THEN [work EXCEPT !.picked = Append(@, x)]
                      ELSE [work EXCEPT !.i = @ + 1]
           /\ UNCHANGED <<crashed, call, round, proposed>>
  <2>1. n \in 1..Len(sortedList)
    <3>1. i + m + 1 <= k
      BY <1>5, <1>6, <1>9
    <3>2. i + m + 1 \in 1..k
      BY <3>1
    <3> QED
      BY <1>5, <1>6, <3>2
  <2> HIDE DEF n
  <2>2. x \in Tx
    BY <1>2, <2>1, ElementsAt
  <2> HIDE DEF x
  <2>3. /\ Append(work.picked, x) \in Seq(Tx)
        /\ ToSet(Append(work.picked, x)) = ToSet(work.picked) \cup {x}
    <3> DEFINE picked == work.picked
    <3>1. picked \in Seq(Tx)
      BY <1>2
    <3> HIDE DEF picked
    <3>2. /\ Append(picked, x) \in Seq(Tx)
          /\ ToSet(Append(picked, x)) = ToSet(picked) \cup {x}
      BY <2>2, <3>1, ElementsOfAppend
    <3> QED
      BY <3>2 DEF picked
  <2>4. CASE x \in transactions
    <3>1. work' = [work EXCEPT !.picked = Append(work.picked, x)]
      BY <1>9, <2>4
    <3>2. work' \in Works /\ work'.picked = Append(work.picked, x)
      BY <1>2, <2>3, <3>1 DEF Works
    <3> QED
      BY <1>1, <1>2, <1>9, <2>3, <2>4, <3>2, PickingKeeps DEF poolVars, blockVars
  <2>5. CASE x \notin transactions
    <3>1. work' = [work EXCEPT !.i = i + 1] /\ i + 1 \in Nat
      BY <1>3, <1>9, <2>5
    <3>2. work' \in Works /\ work'.picked = work.picked
      BY <1>2, <3>1 DEF Works
    <3> QED
      BY <1>1, <1>2, <1>9, <3>2, PickingKeeps DEF poolVars, blockVars
  <2> QED
    BY <2>4, <2>5
<1>10. ~(n > Len(sortedList)) => n <= Len(sortedList)
  <2>1. ~(i + m + 1 > k) => i + m + 1 <= k
    OBVIOUS
  <2> QED
    BY <1>5, <1>6, <2>1
<1>11. \/ Answer(c, work.picked) /\ UNCHANGED crashed
       \/ crashed' = "nil dereference" /\ UNCHANGED <<work, call, round, proposed>>
       \/ /\ ~(n > Len(sortedList))
          /\ work' = IF x \in transactions THEN [work EXCEPT !.picked = Append(@, x)]
                     ELSE [work EXCEPT !.i = @ + 1]
          /\ UNCHANGED <<crashed, call, round, proposed>>
  BY DEF FillBlock
<1> QED
  BY <1>7, <1>8, <1>9, <1>10, <1>11

\* The runtime ends the process.
LEMMA MapRaceKeeps ==
  ASSUME PoolInv, NEW c \in Caller, MapRace(c)
  PROVE  PoolInv'
<1>1. /\ UNCHANGED <<poolVars, phase, call, handlerVars, blockVars, work>>
      /\ crashed' = "map race"
  BY DEF MapRace
<1>2. LoopInv' /\ FreshInv' /\ ListInv' /\ StatusInv'
  BY <1>1, QuietStep DEF poolVars
<1>3. TypeOK'
  BY <1>1 DEF PoolInv, TypeOK, poolVars, handlerVars, blockVars
<1>4. RoundInv'
  BY <1>1 DEF PoolInv, RoundInv, ProposedStaysInPool, poolVars, blockVars
<1> QED
  BY <1>2, <1>3, <1>4 DEF PoolInv

-----------------------------------------------------------------------------
(* The loop keeps the invariant. *)

\* The loop serves one caller, which adds or removes.
LEMMA ServedIs ==
  ASSUME PoolInv, phase # "select"
  PROVE  /\ Served \in Caller /\ call[Served] \in Calls /\ call[Served].at = "loop"
         /\ \A d \in Caller \ {Served} : call[d].at # "loop"
         /\ call[Served].tx \in AnyTx
         /\ call[Served].op = IF phase = "wait" THEN "remove" ELSE "add"
         /\ call[Served].op = "add" => call[Served].tx \in ReachesCaller(Served)
         /\ behavior # "Drop" => phase \notin {"drop", "relist"}
<1>1. \E c \in Caller : call[c].at = "loop"
  BY DEF PoolInv, LoopInv
<1>2. Served \in Caller /\ call[Served].at = "loop"
  BY <1>1 DEF Served
<1> DEFINE s == Served
<1> HIDE DEF s
<1>3. s \in Caller /\ call[s].at = "loop"
  BY <1>2 DEF s
<1>4. call[s] \in Calls
  BY <1>3 DEF PoolInv, TypeOK
<1>5. call[s].op \in {"add", "remove"} /\ call[s].tx \in AnyTx
  BY <1>3, <1>4, CallFields
<1>6. /\ \A d \in Caller \ {s} : call[d].at # "loop"
      /\ call[s].op = IF phase = "wait" THEN "remove" ELSE "add"
      /\ behavior # "Drop" => phase \notin {"drop", "relist"}
  BY <1>3, <1>5 DEF PoolInv, LoopInv
<1>7. call[s].op = "add" => call[s].tx \in ReachesCaller(s)
  BY <1>3 DEF PoolInv, FreshInv
<1> QED
  BY <1>3, <1>4, <1>5, <1>6, <1>7 DEF s

\* What is proposed and what is picked stay while the pool loses nothing.
LEMMA RoundStays ==
  ASSUME PoolInv, NEW c \in Caller, call[c].op \in {"add", "remove"},
         call'[c].op \in {"none", call[c].op},
         \A d \in Caller \ {c} : call'[d] = call[d],
         UNCHANGED <<behavior, round, proposed, work>>,
         behavior # "Drop" => transactions \subseteq transactions' /\ commands \subseteq commands'
  PROVE  RoundInv'
<1>1. /\ call'["transactionHandler"].op \in {"none", "exist", "chain", "add"}
      /\ call'["MsgHandler"].op = "remove" => round' = "flush"
      /\ call'["MsgHandler"].op \in {"size", "get"} => round' = "lead"
      /\ work'.picked # <<>> => call'["MsgHandler"].op = "get"
  BY DEF PoolInv, RoundInv, Caller
<1>2. behavior' # "Drop" => ToSet(work'.picked) \subseteq transactions'
  BY DEF PoolInv, RoundInv
<1>3. ProposedStaysInPool'
  BY DEF PoolInv, RoundInv, ProposedStaysInPool
<1> QED
  BY <1>1, <1>2, <1>3 DEF RoundInv

\* The loop takes a request.
LEMMA LoopTakesKeeps ==
  ASSUME PoolInv, NEW c \in Caller, NEW op \in {"add", "remove"}, Waits(c, {op}),
         Becomes(c, Passed(call[c], "loop")),
         phase' = IF op = "add" THEN "write" ELSE "wait",
         op = "add" => HasRoom(call[c].tx),
         UNCHANGED <<poolVars, handlerVars, blockVars, work, crashed>>
  PROVE  PoolInv'
<1> DEFINE req == Passed(call[c], "loop")
<1>1. phase = "select" /\ call[c] \in Calls /\ call[c].at = "channel" /\ call[c].op = op
  BY DEF Waits, IsAt, PoolInv, TypeOK
<1>2. req \in Calls /\ req.op = op /\ req.at = "loop" /\ req.tx = call[c].tx
  BY <1>1, CallsPassed
<1> HIDE DEF req
<1>3. /\ call' \in [Caller -> Calls] /\ call'[c] = req
      /\ \A d \in Caller \ {c} : call'[d] = call[d]
  BY <1>2, OneBecomes DEF PoolInv, TypeOK, req
<1>4. \A d \in Caller : call[d].at # "loop"
  BY <1>1 DEF PoolInv, LoopInv
<1>5. \A x : HasRoom(x) => HasRoom(x)'
  BY DEF HasRoom, poolVars
<1>6. LoopInv'
  BY <1>2, <1>3, <1>4, <1>5 DEF LoopInv
<1>7. FreshInv'
  BY <1>1, <1>2, <1>3, <1>4 DEF PoolInv, FreshInv, poolVars
<1>8. ListInv'
  BY <1>1 DEF PoolInv, ListInv, Lists, ByAge, poolVars
<1>9. StatusInv'
  BY <1>1 DEF PoolInv, StatusInv, poolVars
<1>10. RoundInv'
  BY <1>1, <1>2, <1>3, RoundStays DEF poolVars, blockVars
<1>11. TypeOK'
  BY <1>3 DEF PoolInv, TypeOK, poolVars, handlerVars, blockVars
<1> QED
  BY <1>6, <1>7, <1>8, <1>9, <1>10, <1>11 DEF PoolInv

\* An addition is taken or refused.
LEMMA BeginAddKeeps ==
  ASSUME PoolInv, NEW c \in Caller, BeginAdd(c)
  PROVE  PoolInv'
<1>1. /\ Waits(c, {"add"}) /\ call[c].at = "channel" /\ call[c].op = "add"
      /\ UNCHANGED <<poolVars, handlerVars, blockVars, work, crashed>>
  BY DEF BeginAdd, Waits
<1>2. CASE /\ HasRoom(call[c].tx)
           /\ Becomes(c, Passed(call[c], "loop")) /\ phase' = "write"
  BY <1>1, <1>2, LoopTakesKeeps
<1>3. CASE Becomes(c, Idle) /\ UNCHANGED phase
  <2>1. /\ LoopInv' /\ FreshInv' /\ ListInv' /\ StatusInv'
        /\ call' \in [Caller -> Calls] /\ call'[c] = Idle
        /\ \A d \in Caller \ {c} : call'[d] = call[d]
    BY <1>1, <1>3, CallsMade, CallerStep DEF poolVars
  <2>2. RoundInv'
    BY <1>1, <2>1, CallsMade, RoundStays DEF poolVars, blockVars
  <2>3. TypeOK'
    BY <1>1, <1>3, <2>1, TypeStays
  <2> QED
    BY <2>1, <2>2, <2>3 DEF PoolInv
<1> QED
  BY <1>2, <1>3 DEF BeginAdd

\* A removal is taken.
LEMMA BeginRemoveKeeps ==
  ASSUME PoolInv, NEW c \in Caller, BeginRemove(c)
  PROVE  PoolInv'
BY LoopTakesKeeps DEF BeginRemove

\* The loop is ready for the next request.
LEMMA LoopDone ==
  ASSUME PoolInv, phase # "select", phase' = "select", Becomes(Served, Idle),
         transactions' \subseteq transactions
  PROVE  /\ LoopInv' /\ FreshInv'
         /\ call' \in [Caller -> Calls] /\ call'[Served].op = "none"
         /\ \A d \in Caller \ {Served} : call'[d] = call[d]
<1> DEFINE s == Served
<1> HIDE DEF s
<1>1. s \in Caller /\ \A d \in Caller \ {s} : call[d].at # "loop"
  BY ServedIs DEF s
<1>2. /\ call' \in [Caller -> Calls] /\ call'[s] = Idle
      /\ \A d \in Caller \ {s} : call'[d] = call[d]
  <2>1. Becomes(s, Idle)
    BY DEF s
  <2> QED
    BY <1>1, <2>1, CallsTyped, CallsMade, OneBecomes
<1>3. call'[s].op = "none" /\ call'[s].at = "self"
  BY <1>2, CallsMade
<1>4. LoopInv'
  BY <1>1, <1>2, <1>3 DEF LoopInv
<1>5. FreshInv'
  BY <1>1, <1>2, <1>3 DEF PoolInv, FreshInv
<1> QED
  BY <1>2, <1>3, <1>4, <1>5 DEF s

\* The maps are finite and no larger than the threshold.
LEMMA Sizes ==
  ASSUME TypeOK
  PROVE  /\ IsFiniteSet(transactions) /\ IsFiniteSet(commands)
         /\ Cardinality(transactions) \in Nat /\ Cardinality(commands) \in Nat
         /\ Threshold \in Nat /\ Threshold # 0
         /\ Cardinality(transactions) <= Threshold /\ Cardinality(commands) <= Threshold
<1>1. IsFiniteSet(transactions) /\ IsFiniteSet(commands)
  BY FS_Subset, TxAssumption DEF TypeOK
<1> QED
  BY <1>1, FS_CardinalityType, BoundAssumption DEF TypeOK

\* A status is sent when there is place for it.
LEMMA Told ==
  ASSUME TypeOK, NEW new \in BOOLEAN, TellIfContinu(new)
  PROVE  status' = new /\ stopChan' \in Seq(BOOLEAN) /\ Len(stopChan') <= StopChanSize
<1>1. /\ stopChan \in Seq(BOOLEAN) /\ Len(stopChan) <= StopChanSize /\ StopChanSize \in Nat
      /\ Len(stopChan) \in Nat
  BY LenProperties, BoundAssumption DEF TypeOK
<1>2. CASE stopChan' = Append(stopChan, new) /\ Len(stopChan) < StopChanSize
  <2>1. Append(stopChan, new) \in Seq(BOOLEAN) /\ Len(Append(stopChan, new)) = Len(stopChan) + 1
    BY <1>1, AppendProperties
  <2>2. Len(stopChan) + 1 <= StopChanSize
    BY <1>1, <1>2
  <2>3. stopChan' \in Seq(BOOLEAN) /\ Len(stopChan') <= StopChanSize
    BY <1>2, <2>1, <2>2
  <2> QED
    BY <2>3 DEF TellIfContinu
<1>3. CASE stopChan' = stopChan
  BY <1>1, <1>3 DEF TellIfContinu
<1> QED
  BY <1>2, <1>3 DEF TellIfContinu

\* The map is written: what is added was not in it, and no other caller adds it.
LEMMA EndWriteKeeps == ASSUME PoolInv, EndWrite PROVE PoolInv'
<1> DEFINE s == Served
           x == call[Served].tx
<1>1. /\ phase = "write"
      /\ UNCHANGED <<sortedList, behavior, status, handlerVars, blockVars, work, crashed>>
  BY DEF EndWrite, IsAt
<1>2. /\ s \in Caller /\ call[s] \in Calls /\ call[s].at = "loop" /\ call[s].op = "add"
      /\ \A d \in Caller \ {s} : call[d].at # "loop"
      /\ x \in AnyTx /\ x \in ReachesCaller(s) /\ HasRoom(x)
      /\ x \notin transactions
  BY <1>1, ServedIs DEF PoolInv, LoopInv, FreshInv
<1>3. /\ IsFiniteSet(transactions) /\ IsFiniteSet(commands)
      /\ Cardinality(transactions) \in Nat /\ Cardinality(commands) \in Nat
      /\ Threshold \in Nat
      /\ Cardinality(transactions) <= Threshold /\ Cardinality(commands) <= Threshold
  BY Sizes DEF PoolInv
<1>4. \/ /\ x \in Command /\ commands' = commands \cup {x}
         /\ phase' = "select" /\ Becomes(s, Idle) /\ UNCHANGED transactions
      \/ /\ x \notin Command /\ transactions' = transactions \cup {x}
         /\ phase' = "insert" /\ UNCHANGED <<commands, call>>
  BY DEF EndWrite
<1> HIDE DEF s, x
<1>5. CASE /\ x \in Command /\ commands' = commands \cup {x}
           /\ phase' = "select" /\ Becomes(s, Idle) /\ UNCHANGED transactions
  <2>1. /\ LoopInv' /\ FreshInv' /\ call' \in [Caller -> Calls] /\ call'[s].op = "none"
        /\ \A d \in Caller \ {s} : call'[d] = call[d]
    BY <1>1, <1>5, LoopDone DEF s
  <2>2. ListInv'
    BY <1>1, <1>5 DEF PoolInv, ListInv, Lists, ByAge
  <2>3. StatusInv'
    BY <1>1, <1>5 DEF PoolInv, StatusInv
  <2>4. RoundInv'
    BY <1>1, <1>2, <1>5, <2>1, RoundStays DEF blockVars
  <2>5. Cardinality(commands') <= Threshold
    <3>1. \/ Cardinality(commands') = Cardinality(commands)
          \/ Cardinality(commands') = Cardinality(commands) + 1
      BY <1>3, <1>5, FS_AddElement
    <3>2. Cardinality(commands) < Threshold
      BY <1>2, <1>5 DEF HasRoom
    <3> QED
      BY <1>3, <3>1, <3>2
  <2>6. TypeOK'
    BY <1>1, <1>5, <2>1, <2>5 DEF PoolInv, TypeOK, handlerVars, blockVars
  <2> QED
    BY <2>1, <2>2, <2>3, <2>4, <2>6 DEF PoolInv
<1>6. CASE /\ x \notin Command /\ transactions' = transactions \cup {x}
           /\ phase' = "insert" /\ UNCHANGED <<commands, call>>
  <2>1. x \in Tx /\ call[s].tx = x
    BY <1>2, <1>6 DEF AnyTx, s, x
  <2>2. Cardinality(transactions') = Cardinality(transactions) + 1
    BY <1>2, <1>3, <1>6, FS_AddElement
  <2>3. Cardinality(transactions) < Threshold
    BY <1>2, <1>6 DEF HasRoom
  <2>4. LoopInv'
    BY <1>1, <1>2, <1>6, <2>1 DEF PoolInv, LoopInv
  <2>5. FreshInv'
    <3>1. \A d \in Caller \ {s} : ReachesCaller(d) \cap ReachesCaller(s) = {}
      BY <1>2, TxAssumption DEF ReachesCaller, Caller
    <3> QED
      BY <1>1, <1>2, <1>6, <3>1 DEF PoolInv, FreshInv
  <2>6. ListInv'
    <3>1. transactions' \ {x} = transactions /\ x \in transactions'
      BY <1>2, <1>6
    <3>2. \A c \in Caller : call'[c].at = "loop" => call'[c].tx = x
      BY <1>2, <1>6, <2>1
    <3>3. Lists(sortedList, transactions)
      BY <1>1 DEF PoolInv, ListInv
    <3>4. Lists(sortedList', transactions' \ {x})
      BY <1>1, <3>1, <3>3
    <3> QED
      BY <1>6, <3>1, <3>2, <3>4 DEF ListInv, Lists, ByAge
  <2>7. StatusInv'
    BY <1>1, <1>3, <1>6, <2>2, <2>3 DEF PoolInv, StatusInv
  <2>8. RoundInv'
    BY <1>1, <1>2, <1>6, RoundStays DEF blockVars
  <2>9. TypeOK'
    <3>1. Cardinality(transactions') <= Threshold
      BY <1>3, <2>2, <2>3
    <3> QED
      BY <1>1, <1>6, <2>1, <3>1 DEF PoolInv, TypeOK, handlerVars, blockVars
  <2> QED
    BY <2>4, <2>5, <2>6, <2>7, <2>8, <2>9 DEF PoolInv
<1> QED
  BY <1>4, <1>5, <1>6

\* The list takes what the map has, and a full pool says so or drops.
LEMMA EndAddKeeps == ASSUME PoolInv, EndAdd PROVE PoolInv'
<1> DEFINE s == Served
           x == call[Served].tx
           full == Cardinality(transactions) = Threshold
<1>1. /\ phase = "insert" /\ sortedList' = Inserted(sortedList, x)
      /\ UNCHANGED <<transactions, commands, behavior, addTx, blockVars, work, crashed>>
  BY DEF EndAdd, IsAt
<1>2. /\ IF behavior = "Ignore" /\ full THEN TellIfContinu(FALSE)
         ELSE UNCHANGED <<status, stopChan>>
      /\ IF behavior = "Drop" /\ full THEN phase' = "drop" /\ UNCHANGED call
         ELSE phase' = "select" /\ Becomes(s, Idle)
  BY DEF EndAdd
<1>3. /\ s \in Caller /\ call[s].at = "loop" /\ call[s].op = "add"
      /\ \A d \in Caller \ {s} : call[d].at # "loop"
      /\ x \in Tx /\ x \in transactions /\ Lists(sortedList, transactions \ {x})
  BY <1>1, ServedIs DEF PoolInv, LoopInv, ListInv
<1>4. /\ Cardinality(transactions) \in Nat /\ Threshold \in Nat /\ Threshold # 0
      /\ Cardinality(transactions) <= Threshold
  BY Sizes DEF PoolInv
<1> HIDE DEF s, x, full
<1>5. sortedList' \in Seq(Tx) /\ Lists(sortedList', transactions)
  <2>1. sortedList \in Seq(Tx)
    BY DEF PoolInv, TypeOK
  <2>2. /\ Inserted(sortedList, x) \in Seq(Tx)
        /\ Lists(Inserted(sortedList, x), (transactions \ {x}) \cup {x})
    BY <1>3, <2>1, InsertedLists
  <2>3. (transactions \ {x}) \cup {x} = transactions
    BY <1>3
  <2> QED
    BY <1>1, <2>2, <2>3
<1>6. ListInv'
  BY <1>1, <1>2, <1>5 DEF ListInv, Lists, ByAge
<1>7. /\ status' \in BOOLEAN /\ stopChan' \in Seq(BOOLEAN) /\ Len(stopChan') <= StopChanSize
      /\ status' = IF behavior = "Ignore" /\ full THEN FALSE ELSE status
  <2>1. CASE behavior = "Ignore" /\ full
    BY <1>2, <2>1, Told DEF PoolInv
  <2>2. CASE ~(behavior = "Ignore" /\ full)
    BY <1>2, <2>2 DEF PoolInv, TypeOK
  <2> QED
    BY <2>1, <2>2
<1>8. StatusInv'
  BY <1>1, <1>2, <1>4, <1>7 DEF PoolInv, StatusInv, full
<1>9. CASE behavior = "Drop" /\ phase' = "drop" /\ UNCHANGED call
  <2>1. LoopInv'
    BY <1>1, <1>3, <1>9 DEF PoolInv, LoopInv
  <2>2. FreshInv'
    BY <1>1, <1>3, <1>9 DEF PoolInv, FreshInv
  <2>3. RoundInv'
    BY <1>1, <1>3, <1>9, RoundStays DEF blockVars
  <2>4. TypeOK'
    BY <1>1, <1>5, <1>7, <1>9 DEF PoolInv, TypeOK, blockVars
  <2> QED
    BY <1>6, <1>8, <2>1, <2>2, <2>3, <2>4 DEF PoolInv
<1>10. CASE phase' = "select" /\ Becomes(s, Idle)
  <2>1. /\ LoopInv' /\ FreshInv' /\ call' \in [Caller -> Calls] /\ call'[s].op = "none"
        /\ \A d \in Caller \ {s} : call'[d] = call[d]
    BY <1>1, <1>10, LoopDone DEF s
  <2>2. RoundInv'
    BY <1>1, <1>3, <2>1, RoundStays DEF blockVars
  <2>3. TypeOK'
    BY <1>1, <1>5, <1>7, <1>10, <2>1 DEF PoolInv, TypeOK, blockVars
  <2> QED
    BY <1>6, <1>8, <2>1, <2>2, <2>3 DEF PoolInv
<1> QED
  BY <1>2, <1>9, <1>10

\* almostClear drops from the map.
LEMMA DropKeeps == ASSUME PoolInv, DropTransactions PROVE PoolInv'
<1>1. /\ phase = "drop" /\ phase' = "relist"
      /\ UNCHANGED <<commands, sortedList, behavior, status, call, handlerVars, blockVars, work,
                     crashed>>
  BY DEF DropTransactions, IsAt
<1>2. transactions' \subseteq transactions
  BY DEF DropTransactions, Kept
<1>3. /\ Served \in Caller /\ call[Served].op = "add" /\ behavior = "Drop"
  BY <1>1, ServedIs
<1>4. LoopInv'
  BY <1>1, <1>3 DEF PoolInv, LoopInv
<1>5. FreshInv'
  BY <1>1, <1>2 DEF PoolInv, FreshInv
<1>6. ListInv' /\ StatusInv'
  BY <1>1, <1>3 DEF ListInv, StatusInv
<1>7. RoundInv'
  BY <1>1, <1>3, RoundStays DEF blockVars
<1>8. TypeOK'
  <2>1. Cardinality(transactions') <= Threshold
    <3>1. /\ Cardinality(transactions') <= Cardinality(transactions)
          /\ Cardinality(transactions') \in Nat
      BY <1>2, Sizes, FS_Subset, FS_CardinalityType DEF PoolInv
    <3> QED
      BY <3>1, Sizes DEF PoolInv
  <2> QED
    BY <1>1, <1>2, <2>1 DEF PoolInv, TypeOK, handlerVars, blockVars
<1> QED
  BY <1>4, <1>5, <1>6, <1>7, <1>8 DEF PoolInv

\* The list is made anew.
LEMMA ReplaceListKeeps == ASSUME PoolInv, ReplaceList PROVE PoolInv'
<1> DEFINE s == Served
<1>1. /\ phase = "relist" /\ phase' = "select" /\ Becomes(s, Idle)
      /\ UNCHANGED <<transactions, commands, behavior, status, handlerVars, blockVars, work,
                     crashed>>
      /\ sortedList' \in SetToSeqs(transactions) /\ ByAge(sortedList')
  BY DEF ReplaceList, IsAt
<1>2. s \in Caller /\ call[s].op = "add" /\ behavior = "Drop"
  BY <1>1, ServedIs
<1> HIDE DEF s
<1>3. sortedList' \in Seq(Tx) /\ Lists(sortedList', transactions)
  BY <1>1, RelistedLists DEF PoolInv, TypeOK
<1>4. ListInv' /\ StatusInv'
  BY <1>1, <1>2, <1>3 DEF ListInv, StatusInv, Lists, ByAge
<1>5. /\ LoopInv' /\ FreshInv' /\ call' \in [Caller -> Calls] /\ call'[s].op = "none"
      /\ \A d \in Caller \ {s} : call'[d] = call[d]
  BY <1>1, LoopDone DEF s
<1>6. RoundInv'
  BY <1>1, <1>2, <1>5, RoundStays DEF blockVars
<1>7. TypeOK'
  BY <1>1, <1>3, <1>5 DEF PoolInv, TypeOK, handlerVars, blockVars
<1> QED
  BY <1>4, <1>5, <1>6, <1>7 DEF PoolInv

\* A removal follows from a flush, when nothing is selected and nothing proposed.
LEMMA EndRemoveKeeps == ASSUME PoolInv, EndRemove PROVE PoolInv'
<1> DEFINE s == Served
           x == call[Served].tx
           resumes == behavior = "Ignore" /\ ~status /\ MayResume(Cardinality(transactions'))
<1>1. /\ phase = "wait" /\ phase' = "select" /\ Becomes(s, Idle)
      /\ UNCHANGED <<behavior, addTx, blockVars, work, crashed>>
  BY DEF EndRemove, IsAt
<1>2. s \in Caller /\ call[s].op = "remove" /\ call[s].tx = x
  BY <1>1, ServedIs
<1>3. \/ /\ commands' = commands \ {x}
         /\ UNCHANGED <<transactions, sortedList, status, stopChan>>
      \/ /\ transactions' = transactions \ {x}
         /\ sortedList' = IF x \in transactions THEN RemovedFrom(sortedList, x) ELSE sortedList
         /\ IF resumes THEN TellIfContinu(TRUE) ELSE UNCHANGED <<status, stopChan>>
         /\ UNCHANGED commands
  BY DEF EndRemove
<1> HIDE DEF s, x, resumes
<1>4. /\ transactions' \subseteq transactions /\ commands' \subseteq commands
  BY <1>3
<1>5. /\ LoopInv' /\ FreshInv' /\ call' \in [Caller -> Calls] /\ call'[s].op = "none"
      /\ \A d \in Caller \ {s} : call'[d] = call[d]
  BY <1>1, <1>4, LoopDone DEF s
<1>6. RoundInv'
  <2>1. s = "MsgHandler" /\ round = "flush" /\ work.picked = <<>>
    BY <1>2 DEF PoolInv, RoundInv, Caller
  <2>2. UNCHANGED <<round, proposed, work>>
    BY <1>1 DEF blockVars
  <2>3. call'["transactionHandler"] = call["transactionHandler"]
    BY <1>5, <2>1 DEF Caller
  <2>4. ProposedStaysInPool'
    BY <2>1, <2>2 DEF ProposedStaysInPool
  <2> QED
    BY <1>5, <2>1, <2>2, <2>3, <2>4, NewWork DEF PoolInv, RoundInv
<1>7. /\ Lists(sortedList, transactions) /\ sortedList \in Seq(Tx)
      /\ (behavior = "Ignore" => IF status THEN Cardinality(transactions) < Threshold
                                 ELSE 4 * Cardinality(transactions) > 3 * Threshold)
  BY <1>1 DEF PoolInv, TypeOK, ListInv, StatusInv
<1>8. /\ Cardinality(transactions) \in Nat /\ Threshold \in Nat /\ Threshold # 0
      /\ Cardinality(transactions) <= Threshold
      /\ Cardinality(transactions') \in Nat /\ Cardinality(transactions') <= Cardinality(transactions)
      /\ Cardinality(commands') <= Threshold
  BY <1>4, Sizes, FS_Subset, FS_CardinalityType, FewerCommands DEF PoolInv
<1>9. /\ sortedList' \in Seq(Tx) /\ Lists(sortedList', transactions')
  <2>1. CASE UNCHANGED <<transactions, sortedList>>
    BY <1>7, <2>1
  <2>2. CASE /\ transactions' = transactions \ {x}
             /\ sortedList' = IF x \in transactions THEN RemovedFrom(sortedList, x)
                              ELSE sortedList
    <3>1. CASE x \in transactions
      BY <1>7, <2>2, <3>1, RemovedLists
    <3>2. CASE x \notin transactions
      <4>1. transactions' = transactions /\ sortedList' = sortedList
        BY <2>2, <3>2
      <4> QED
        BY <1>7, <4>1
    <3> QED
      BY <3>1, <3>2
  <2> QED
    BY <1>3, <2>1, <2>2
<1>10. ListInv'
  BY <1>1, <1>9 DEF ListInv, Lists, ByAge
<1>11. \/ status' = TRUE /\ resumes
       \/ status' = status /\ (~resumes \/ UNCHANGED transactions)
  BY <1>3 DEF TellIfContinu
<1>12. StatusInv'
  <2>1. \A n \in Nat : MayResume(n) <=> 4 * n <= 3 * Threshold
    BY <1>8 DEF MayResume
  <2> QED
    BY <1>1, <1>7, <1>8, <1>11, <2>1 DEF StatusInv, resumes
<1>13. status' \in BOOLEAN /\ stopChan' \in Seq(BOOLEAN) /\ Len(stopChan') <= StopChanSize
  <2>1. CASE TellIfContinu(TRUE)
    BY <2>1, Told DEF PoolInv
  <2>2. CASE UNCHANGED <<status, stopChan>>
    BY <2>2 DEF PoolInv, TypeOK
  <2> QED
    BY <1>3, <2>1, <2>2
<1>14. TypeOK'
  <2>1. Cardinality(transactions') <= Threshold
    BY <1>8
  <2>2. transactions' \subseteq Tx /\ commands' \subseteq Command
    BY <1>4 DEF PoolInv, TypeOK
  <2> QED
    BY <1>1, <1>5, <1>8, <1>9, <1>13, <2>1, <2>2 DEF PoolInv, TypeOK, blockVars
<1> QED
  BY <1>5, <1>6, <1>10, <1>12, <1>14 DEF PoolInv

-----------------------------------------------------------------------------
(* The theorems. *)

\* At the start the pool is empty.
LEMMA InitPool == Init => PoolInv
<1> SUFFICES ASSUME Init PROVE PoolInv
  OBVIOUS
<1>1. call \in [Caller -> Calls] /\ \A c \in Caller : call[c].op = "none" /\ call[c].at = "self"
  BY CallsMade DEF Init
<1>2. Cardinality({}) = 0 /\ Threshold \in Nat /\ Threshold # 0 /\ StopChanSize \in Nat
  BY FS_EmptySet, BoundAssumption
<1>3. work \in Works /\ work.picked = <<>> /\ ToSet(<<>>) = {}
  BY NewWork DEF Init
<1>4. /\ <<>> \in Seq(Tx) /\ <<>> \in Seq(AnyTx) /\ <<>> \in Seq(BOOLEAN)
      /\ Len(<<>>) = 0 /\ DOMAIN <<>> = {}
  BY EmptySeq
<1>5. TypeOK
  <2>1. sortedList \in Seq(Tx) /\ stopChan \in Seq(BOOLEAN) /\ Len(stopChan) <= StopChanSize
    BY <1>2, <1>4 DEF Init
  <2>2. proposed \in Seq(AnyTx) /\ flushing \in Seq(AnyTx)
    BY <1>4 DEF Init
  <2> QED
    BY <1>1, <1>2, <1>3, <2>1, <2>2 DEF Init, TypeOK, Works
<1>6. LoopInv /\ FreshInv
  BY <1>1 DEF Init, LoopInv, FreshInv
<1>7. ListInv
  BY <1>3, <1>4 DEF Init, ListInv, Lists, IsInjective, ByAge
<1>8. StatusInv
  BY <1>2 DEF Init, StatusInv
<1>9. RoundInv
  BY <1>1, <1>3 DEF Init, RoundInv, ProposedStaysInPool, Caller
<1> QED
  BY <1>5, <1>6, <1>7, <1>8, <1>9 DEF PoolInv

\* Every step keeps the invariant.
LEMMA NextPool == PoolInv /\ [Next]_vars => PoolInv'
<1> SUFFICES ASSUME PoolInv, [Next]_vars PROVE PoolInv'
  OBVIOUS
<1>1. CASE \E c \in Caller, x \in AnyTx : ReceiveTransaction(c, x)
  BY <1>1, ReceiveKeeps
<1>2. CASE ReadStatus
  BY <1>2, ReadStatusKeeps
<1>3. CASE \E c \in Caller : CheckChain(c)
  BY <1>3, CheckChainKeeps
<1>4. CASE StartProposal
  BY <1>4, StartProposalKeeps
<1>5. CASE FinalizeBlock \/ FlushNext \/ EndFlush
  BY <1>5, FinalizeKeeps, FlushNextKeeps, EndFlushKeeps
<1>6. CASE \E c \in Caller : LoopTakes(c)
  BY <1>6, StartHelperKeeps, BeginAddKeeps, BeginRemoveKeeps DEF LoopTakes
<1>7. CASE LoopGoesOn
  BY <1>7, EndWriteKeeps, EndAddKeeps, DropKeeps, ReplaceListKeeps, EndRemoveKeeps
  DEF LoopGoesOn
<1>8. CASE \E c \in Caller : HelperGoesOn(c)
  BY <1>8, AnswerExistKeeps, AnswerSizeKeeps, SelectCommandKeeps, ListOldestKeeps,
     CheckPotentialKeeps, FillBlockKeeps
  DEF HelperGoesOn
<1>9. CASE \E c \in Caller : MapRace(c)
  BY <1>9, MapRaceKeeps
<1>10. CASE UNCHANGED vars
  <2>1. LoopInv' /\ FreshInv' /\ ListInv' /\ StatusInv'
    BY <1>10, QuietStep DEF vars, poolVars
  <2>2. TypeOK'
    <3>1. UNCHANGED <<poolVars, phase, call, handlerVars, blockVars, work, crashed>>
      BY <1>10 DEF vars
    <3> QED
      BY <3>1, CallsTyped, TypeStays
  <2>3. RoundInv'
    BY <1>10 DEF PoolInv, RoundInv, ProposedStaysInPool, vars, poolVars, blockVars
  <2> QED
    BY <2>1, <2>2, <2>3 DEF PoolInv
<1> QED
  BY <1>1, <1>2, <1>3, <1>4, <1>5, <1>6, <1>7, <1>8, <1>9, <1>10 DEF Next

\* The invariant holds.
LEMMA PoolInvariant == Spec => []PoolInv
BY InitPool, NextPool, PTL DEF Spec

\* Between two changes that the loop makes beside its helpers, the list and the map of
\* the pool have the same transactions, each once and the oldest first; and what this
\* node proposed is in the pool until its block is finalized, unless a full pool drops
\* (loopTransactionPool, sortedLinkedList, getTxForBloc).
THEOREM PoolCorrect == Spec => []PoolSound
<1>1. PoolInv => PoolSound
  BY DEF PoolInv, ListInv, Lists, RoundInv, PoolSound, ListMatchesMap, Between
<1> QED
  BY <1>1, PoolInvariant, PTL

\* With Ignore the status that the pool keeps follows its size, with hysteresis between
\* three quarters and the threshold (afterTxAdd, afterTxRemove).
THEOREM StatusFollows == Spec => []StatusFollowsSize
<1>1. PoolInv => StatusFollowsSize
  BY DEF PoolInv, StatusInv, StatusFollowsSize, Between
<1> QED
  BY <1>1, PoolInvariant, PTL
=============================================================================
