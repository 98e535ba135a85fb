------------------------- MODULE ExternalSortProofs -------------------------
(***************************************************************************)
(* Proofs about the external sort: when it sorts, that it merges in order, *)
(* and that it loses nothing on the way, for every input, memory and set   *)
(* of failing calls in which no fwrite fails after it has returned.        *)
(*                                                                         *)
(* Sequences are compared by counting: two of them have the same values    *)
(* when they have as many up to every number.  What is in the chunks is    *)
(* counted by pairs <<chunk, place>>, which are taken, one at a time, when *)
(* a value leaves the queue.                                               *)
(***************************************************************************)
EXTENDS ExternalSort, DataLemmas

-----------------------------------------------------------------------------
(***************************************************************************)
(* Sequences as collections: how many of their values are in a set.  It is *)
(* enough to count the values up to any number, and all of them.           *)
(***************************************************************************)
Count(s, P) == Cardinality({j \in DOMAIN s : s[j] \in P})

Cuts == {0..v : v \in Nat} \cup {Nat}

Ascends(s) == \A i, j \in DOMAIN s : i <= j => s[i] <= s[j]

LEMMA NumbersAre ==
  ASSUME NEW s \in Seq(Values)
  PROVE  /\ Len(s) \in Nat /\ DOMAIN s = 1..Len(s)
         /\ \A k \in 1..Len(s) : s[k] \in Values /\ s[k] \in Nat
<1>1. Len(s) \in Nat /\ DOMAIN s = 1..Len(s) /\ \A k \in 1..Len(s) : s[k] \in Values
  OBVIOUS
<1> QED
  BY <1>1, SortAssumption

LEMMA IntervalCard ==
  ASSUME NEW n \in Nat
  PROVE  IsFiniteSet(1..n) /\ Cardinality(1..n) = n
BY FS_Interval

LEMMA CountType ==
  ASSUME NEW s \in Seq(Values), NEW P
  PROVE  /\ IsFiniteSet({j \in DOMAIN s : s[j] \in P})
         /\ Count(s, P) \in 0..Len(s)
<1>1. Len(s) \in Nat /\ DOMAIN s = 1..Len(s)
  BY NumbersAre
<1>2. IsFiniteSet(1..Len(s)) /\ Cardinality(1..Len(s)) = Len(s)
  BY <1>1, FS_Interval
<1>3. {j \in DOMAIN s : s[j] \in P} \subseteq 1..Len(s)
  BY <1>1
<1> QED
  BY <1>1, <1>2, <1>3, FS_Subset, FS_CardinalityType DEF Count

LEMMA CountIsNat ==
  ASSUME NEW s \in Seq(Values), NEW P
  PROVE  Count(s, P) \in Nat
<1>1. Count(s, P) \in 0..Len(s) /\ Len(s) \in Nat
  BY CountType, NumbersAre
<1> QED
  BY <1>1

LEMMA CountAll ==
  ASSUME NEW s \in Seq(Values)
  PROVE  Count(s, Nat) = Len(s)
<1>1. Len(s) \in Nat /\ DOMAIN s = 1..Len(s) /\ \A k \in 1..Len(s) : s[k] \in Nat
  BY NumbersAre
<1>2. {j \in DOMAIN s : s[j] \in Nat} = 1..Len(s)
  BY <1>1
<1>3. Count(s, Nat) = Cardinality(1..Len(s))
  BY <1>2 DEF Count
<1> QED
  BY <1>1, <1>3, IntervalCard

\* A set of positions that has with each the ones before it.
LEMMA InitialSegment ==
  ASSUME NEW n \in Nat, NEW D \in SUBSET (1..n), \A k \in D : \A j \in 1..k : j \in D
  PROVE  D = 1..Cardinality(D) /\ Cardinality(D) \in 0..n
<1> DEFINE Out == {k \in 1..(n + 1) : k \notin D}
<1>1. n + 1 \in Out
  OBVIOUS
<1>2. PICK m \in Out : \A k \in Out : m <= k
  <2>1. Out \in SUBSET (1..(n + 1)) /\ n + 1 \in Nat /\ Out # {}
    BY <1>1
  <2> HIDE DEF Out
  <2> QED
    BY <2>1, LeastIndex
<1>3. m \in 1..(n + 1) /\ m \notin D
  OBVIOUS
<1>4. \A k \in 1..(m - 1) : k \in D
  <2> TAKE k \in 1..(m - 1)
  <2>1. k \in 1..(n + 1) /\ ~(m <= k)
    BY <1>3
  <2> QED
    BY <1>2, <2>1
<1> HIDE DEF Out
<1>5. \A k \in D : k \in 1..(m - 1)
  <2> TAKE k \in D
  <2>1. k \in 1..n
    OBVIOUS
  <2>2. ~(m <= k)
    BY <1>3, <2>1
  <2> QED
    BY <1>3, <2>1, <2>2
<1>6. D = 1..(m - 1)
  BY <1>4, <1>5
<1>7. Cardinality(D) = m - 1
  <2>1. m - 1 \in Nat
    BY <1>3
  <2>2. PICK l : l = m - 1
    OBVIOUS
  <2>3. Cardinality(1..l) = l
    BY <2>1, <2>2, FS_Interval
  <2> QED
    BY <1>6, <2>2, <2>3
<1> QED
  BY <1>3, <1>6, <1>7

\* In ascending order the values that are counted come first.
LEMMA AscendingCount ==
  ASSUME NEW s \in Seq(Values), Ascends(s), NEW P \in Cuts
  PROVE  {j \in DOMAIN s : s[j] \in P} = 1..Count(s, P)
<1> DEFINE D == {j \in DOMAIN s : s[j] \in P}
<1>1. /\ Len(s) \in Nat /\ DOMAIN s = 1..Len(s)
      /\ \A k \in 1..Len(s) : s[k] \in Nat
  BY NumbersAre
<1>2. ASSUME NEW k \in D, NEW j \in 1..k PROVE j \in D
  <2>1. j \in 1..Len(s) /\ k \in 1..Len(s) /\ s[j] <= s[k] /\ s[k] \in P
    BY <1>1, <1>2 DEF Ascends
  <2>2. s[j] \in P
    BY <1>1, <2>1 DEF Cuts
  <2> QED
    BY <1>1, <2>1, <2>2
<1>3. D \in SUBSET (1..Len(s))
  BY <1>1
<1> HIDE DEF D
<1>4. D = 1..Cardinality(D)
  BY <1>1, <1>2, <1>3, InitialSegment
<1> QED
  BY <1>4 DEF D, Count

LEMMA LeastOf ==
  ASSUME NEW S \in SUBSET Nat, S # {}
  PROVE  Min(S) \in S /\ \A y \in S : Min(S) <= y
<1>1. PICK x \in S : TRUE
  OBVIOUS
<1> DEFINE T == {y \in S : y <= x}
<1>2. x \in Nat /\ T \in SUBSET (0..x) /\ x \in T
  <2>1. \A y \in S : y \in Nat
    OBVIOUS
  <2>2. x \in Nat
    BY <1>1, <2>1
  <2>3. \A y \in T : y \in 0..x
    <3> TAKE y \in T
    <3>1. y \in Nat /\ y <= x
      BY <2>1
    <3> QED
      BY <2>2, <3>1
  <2>4. x \in T
    BY <1>1, <2>2
  <2> HIDE DEF T
  <2> QED
    BY <2>2, <2>3, <2>4
<1> HIDE DEF T
<1>3. Min(T) \in T /\ \A y \in T : Min(T) <= y
  BY <1>2, MinIs
<1> USE DEF T
<1>4. PICK m \in S : \A y \in S : m <= y
  <2>1. Min(T) \in S /\ Min(T) \in Nat /\ Min(T) <= x
    BY <1>3
  <2>2. \A y \in S : Min(T) <= y
    <3> TAKE y \in S
    <3>1. y \in Nat
      OBVIOUS
    <3>2. CASE y <= x
      BY <1>3, <3>2
    <3>3. CASE ~(y <= x)
      BY <1>2, <2>1, <3>1, <3>3
    <3> QED
      BY <3>2, <3>3
  <2> QED
    BY <2>1, <2>2
<1> QED
  BY <1>4 DEF Min

\* std::sort
LEMMA SortedCuts ==
  ASSUME NEW s \in Seq(Values)
  PROVE  /\ Sorted(s) \in Seq(Values)
         /\ Len(Sorted(s)) = Len(s)
         /\ \A k \in 1..Len(s), P \in Cuts : Sorted(s)[k] \in P <=> k <= Count(s, P)
<1> DEFINE n == Len(s)
           Below(v) == {j \in DOMAIN s : s[j] <= v}
           C(v) == Cardinality(Below(v))
<1>1. /\ n \in Nat /\ DOMAIN s = 1..n
      /\ \A k \in 1..n : s[k] \in Values /\ s[k] \in Nat
  BY NumbersAre
<1>2. IsFiniteSet(1..n) /\ Cardinality(1..n) = n
  BY <1>1, IntervalCard
<1>3. \A v : IsFiniteSet(Below(v)) /\ C(v) \in Nat
  <2> TAKE v
  <2>1. Below(v) \subseteq 1..n
    BY <1>1
  <2> HIDE DEF Below
  <2> QED
    BY <1>2, <2>1, FS_Subset, FS_CardinalityType
<1>4. \A v, w \in Nat : v <= w => C(v) <= C(w)
  <2> TAKE v, w \in Nat
  <2> HAVE v <= w
  <2>1. Below(v) \subseteq Below(w)
    BY <1>1
  <2> HIDE DEF Below
  <2> QED
    BY <1>3, <2>1, FS_Subset
<1>5. \A v \in Nat : C(v) = Count(s, 0..v)
  <2> TAKE v \in Nat
  <2>1. Below(v) = {j \in DOMAIN s : s[j] \in 0..v}
    BY <1>1
  <2> QED
    BY <2>1 DEF Count
\* All the values are below some number.
<1>6. PICK b \in Nat : \A j \in 1..n : s[j] <= b
  <2> DEFINE G == {T \in SUBSET (1..n) : \E b \in Nat : \A j \in T : s[j] <= b}
  <2>1. ASSUME NEW T \in SUBSET (1..n), \A x \in T : T \ {x} \in G
        PROVE  T \in G
    <3>1. CASE T = {}
      <4>1. \A j \in T : s[j] <= 0
        BY <3>1
      <4> QED
        BY <4>1
    <3>2. CASE T # {}
      <4>1. PICK x \in T : TRUE
        BY <3>2
      <4>2. PICK c \in Nat : \A j \in T \ {x} : s[j] <= c
        BY <2>1, <4>1
      <4>3. s[x] \in Nat
        BY <1>1, <4>1
      <4>4. PICK d \in Nat : d >= c /\ d >= s[x]
        BY <4>3
      <4>5. \A j \in T : s[j] <= d
        <5> TAKE j \in T
        <5>1. s[j] \in Nat
          BY <1>1
        <5>2. CASE j = x
          BY <4>4, <5>2
        <5>3. CASE j # x
          BY <4>2, <4>4, <5>1, <5>3
        <5> QED
          BY <5>2, <5>3
      <4> QED
        BY <4>5
    <3> QED
      BY <3>1, <3>2
  <2> HIDE DEF G
  <2>2. \A T \in SUBSET (1..n) : T \in G
    BY <1>2, <2>1, SubsetInduction
  <2>3. 1..n \in G
    BY <2>2
  <2> QED
    BY <2>3 DEF G
<1>7. C(b) = n
  <2>1. Below(b) = 1..n
    BY <1>1, <1>6
  <2> HIDE DEF Below
  <2> QED
    BY <1>2, <2>1
\* The least number that has k below it is a value.
<1>8. ASSUME NEW k \in 1..n
      PROVE  \E m \in Values : /\ C(m) >= k
                               /\ \A v \in Nat : C(v) >= k => m <= v
  <2> DEFINE S == {v \in Nat : C(v) >= k}
  <2>1. b \in S
    <3> HIDE DEF C, n
    <3> QED
      BY <1>1, <1>7
  <2>2. S \subseteq Nat /\ S # {}
    BY <2>1
  <2>3. Min(S) \in S /\ \A v \in S : Min(S) <= v
    <3> HIDE DEF S
    <3> QED
      BY <2>2, LeastOf
  <2>4. PICK m \in Nat : C(m) >= k /\ \A v \in Nat : C(v) >= k => m <= v
    BY <2>3
  <2> HIDE DEF S
  <2>5. \E j \in 1..n : s[j] = m
    <3> SUFFICES ASSUME \A j \in 1..n : s[j] # m
                 PROVE  FALSE
      OBVIOUS
    <3>1. CASE m = 0
      <4>1. Below(m) = {}
        BY <1>1, <3>1
      <4>2. C(m) = 0
        <5> HIDE DEF Below
        <5> QED
          BY <4>1, FS_EmptySet
      <4> QED
        BY <2>4, <4>2
    <3>2. CASE m # 0
      <4>1. m - 1 \in Nat
        BY <3>2
      <4>2. Below(m) = Below(m - 1)
        BY <1>1, <3>2
      <4>3. C(m) = C(m - 1)
        <5> HIDE DEF Below
        <5> QED
          BY <4>2
      <4> HIDE DEF C
      <4> QED
        BY <2>4, <4>1, <4>3
    <3> QED
      BY <3>1, <3>2
  <2> QED
    BY <1>1, <2>4, <2>5
<1> DEFINE r == Sorted(s)
<1>9. ASSUME NEW k \in 1..n
      PROVE  /\ r[k] \in Values /\ C(r[k]) >= k
             /\ \A v \in Nat : C(v) >= k => r[k] <= v
  <2> DEFINE S == {v \in Values : C(v) >= k}
  <2>1. r[k] = Min(S)
    BY <1>1 DEF Sorted
  <2>2. PICK m \in Values : /\ C(m) >= k
                            /\ \A v \in Nat : C(v) >= k => m <= v
    BY <1>8
  <2>3. S \subseteq Nat /\ m \in S /\ m \in Nat
    BY <2>2, SortAssumption
  <2>4. Min(S) \in S /\ \A v \in S : Min(S) <= v
    <3> HIDE DEF S
    <3> QED
      BY <2>3, LeastOf
  <2>5. Min(S) \in Nat /\ Min(S) \in Values /\ C(Min(S)) >= k /\ Min(S) <= m
    BY <2>3, <2>4
  <2> HIDE DEF S, C, r
  <2> QED
    BY <2>1, <2>2, <2>3, <2>5
<1>10. r \in [1..n -> Values]
  <2>1. r = [k \in 1..n |-> Min({v \in Values : C(v) >= k})]
    BY <1>1 DEF Sorted
  <2>2. r = [k \in 1..n |-> r[k]]
    BY <2>1
  <2> HIDE DEF r
  <2> QED
    BY <1>9, <2>2
<1>11. r \in Seq(Values) /\ Len(r) = n
  <2> HIDE DEF r
  <2> QED
    BY <1>1, <1>10
<1>12. ASSUME NEW k \in 1..n, NEW P \in Cuts
       PROVE  r[k] \in P <=> k <= Count(s, P)
  <2>0. r[k] \in Nat
    BY <1>9, SortAssumption
  <2>1. CASE P = Nat
    BY <2>0, <2>1, CountAll
  <2>2. ASSUME NEW v \in Nat, P = 0..v
        PROVE  r[k] \in P <=> k <= Count(s, P)
    <3>1. Count(s, P) = C(v) /\ C(v) \in Nat
      BY <1>3, <1>5, <2>2
    <3>2. r[k] <= v => C(r[k]) <= C(v)
      BY <1>4, <2>0
    <3>3. C(r[k]) \in Nat /\ C(r[k]) >= k
      BY <1>3, <1>9
    <3>4. C(v) >= k => r[k] <= v
      BY <1>9
    <3> HIDE DEF r, C
    <3> QED
      BY <2>0, <2>2, <3>1, <3>2, <3>3, <3>4
  <2> QED
    BY <2>1, <2>2 DEF Cuts
<1> QED
  BY <1>11, <1>12

\* Faced with its own counts a sorted sequence is in order ...
LEMMA SortedAscends ==
  ASSUME NEW s \in Seq(Values)
  PROVE  Ascends(Sorted(s))
<1> DEFINE r == Sorted(s)
<1>1. r \in Seq(Values) /\ Len(r) = Len(s)
  BY SortedCuts
<1>2. \A k \in 1..Len(s), P \in Cuts : r[k] \in P <=> k <= Count(s, P)
  BY SortedCuts
<1> HIDE DEF r
<1>3. Len(s) \in Nat /\ DOMAIN r = 1..Len(s) /\ \A k \in 1..Len(s) : r[k] \in Nat
  BY <1>1, NumbersAre
<1>4. ASSUME NEW i \in 1..Len(s), NEW j \in 1..Len(s), i <= j
      PROVE  r[i] <= r[j]
  <2>1. r[j] \in Nat /\ r[i] \in Nat
    BY <1>3
  <2>2. 0..r[j] \in Cuts
    BY <2>1 DEF Cuts
  <2> DEFINE c == Count(s, 0..r[j])
  <2>3. c \in Nat
    <3>1. c \in 0..Len(s)
      BY CountType
    <3> HIDE DEF c
    <3> QED
      BY <1>3, <3>1
  <2>4. i <= c
    <3>1. j <= c
      BY <1>2, <2>1, <2>2
    <3> HIDE DEF c
    <3> QED
      BY <1>4, <2>3, <3>1
  <2>5. r[i] \in 0..r[j]
    BY <1>2, <2>2, <2>4
  <2> QED
    BY <2>1, <2>5
<1> QED
  BY <1>3, <1>4 DEF Ascends, r

\* ... and has what was sorted.
LEMMA SortedCount ==
  ASSUME NEW s \in Seq(Values), NEW P \in Cuts
  PROVE  Count(Sorted(s), P) = Count(s, P)
<1> DEFINE r == Sorted(s)
<1>1. r \in Seq(Values) /\ Len(r) = Len(s)
  BY SortedCuts
<1>2. \A k \in 1..Len(s) : r[k] \in P <=> k <= Count(s, P)
  BY SortedCuts
<1> HIDE DEF r
<1>3. DOMAIN r = 1..Len(s) /\ Count(s, P) \in 0..Len(s) /\ Len(s) \in Nat
  BY <1>1, NumbersAre, CountType
<1>4. {j \in DOMAIN r : r[j] \in P} = 1..Count(s, P)
  BY <1>2, <1>3
<1>5. Cardinality(1..Count(s, P)) = Count(s, P)
  BY <1>3, IntervalCard
<1> QED
  BY <1>4, <1>5 DEF r, Count

LEMMA WholeSequence ==
  ASSUME NEW s \in Seq(Values)
  PROVE  SubSeq(s, 1, Len(s)) = s
OBVIOUS

(***************************************************************************)
(* A sequence in order is how the sorted one begins when the values that   *)
(* it does not have (left[P] of them are in P) are not below its own.      *)
(***************************************************************************)
LEMMA SortedBegins ==
  ASSUME NEW s \in Seq(Values), NEW m \in Seq(Values), Ascends(m),
         NEW left, \A P \in Cuts : left[P] \in Nat /\ Count(s, P) = Count(m, P) + left[P],
         \A k \in 1..Len(m), v \in Nat : v < m[k] => left[0..v] = 0
  PROVE  m = SubSeq(Sorted(s), 1, Len(m))
<1> DEFINE r == Sorted(s)
<1>1. /\ r \in Seq(Values) /\ Len(r) = Len(s)
      /\ \A k \in 1..Len(s), P \in Cuts : r[k] \in P <=> k <= Count(s, P)
  BY SortedCuts
<1> HIDE DEF r
<1>2. /\ Len(s) \in Nat /\ Len(m) \in Nat /\ DOMAIN m = 1..Len(m)
      /\ \A k \in 1..Len(s) : r[k] \in Nat
      /\ \A k \in 1..Len(m) : m[k] \in Nat
  BY <1>1, NumbersAre
<1>3. Len(m) <= Len(s)
  <2>1. Nat \in Cuts
    BY DEF Cuts
  <2>2. Count(s, Nat) = Len(s) /\ Count(m, Nat) = Len(m) /\ left[Nat] \in Nat
    BY <2>1, CountAll
  <2> QED
    BY <1>2, <2>1, <2>2
<1>4. ASSUME NEW k \in 1..Len(m)
      PROVE  m[k] = r[k]
  <2>1. k \in 1..Len(s) /\ m[k] \in Nat /\ r[k] \in Nat
    BY <1>2, <1>3
  <2>2. ASSUME NEW v \in Nat
        PROVE  m[k] \in 0..v <=> r[k] \in 0..v
    <3> DEFINE P == 0..v
    <3>1. P \in Cuts
      BY DEF Cuts
    <3> HIDE DEF P
    <3>2. m[k] \in P <=> k \in 1..Count(m, P)
      <4>1. {j \in DOMAIN m : m[j] \in P} = 1..Count(m, P)
        BY <3>1, AscendingCount
      <4>2. k \in DOMAIN m
        BY <1>2
      <4> QED
        BY <4>1, <4>2
    <3>3. r[k] \in P <=> k <= Count(s, P)
      BY <1>1, <2>1, <3>1
    <3>4. Count(m, P) \in Nat /\ Count(s, P) = Count(m, P) + left[P] /\ left[P] \in Nat
      BY <1>2, <3>1, CountIsNat
    <3>5. m[k] \in P => r[k] \in P
      BY <2>1, <3>2, <3>3, <3>4
    <3>6. m[k] \notin P => left[P] = 0
      <4>1. m[k] \notin P => v < m[k]
        BY <2>1 DEF P
      <4> QED
        BY <4>1 DEF P
    <3>7. m[k] \notin P => r[k] \notin P
      BY <2>1, <3>2, <3>3, <3>4, <3>6
    <3> QED
      BY <3>5, <3>7 DEF P
  <2>3. m[k] <= r[k] /\ r[k] <= m[k]
    <3>1. m[k] \in 0..m[k] /\ r[k] \in 0..r[k]
      BY <2>1
    <3>2. r[k] \in 0..m[k] /\ m[k] \in 0..r[k]
      BY <2>1, <2>2, <3>1
    <3> QED
      BY <2>1, <3>2
  <2> QED
    BY <2>1, <2>3
<1> DEFINE b == SubSeq(r, 1, Len(m))
<1>5. b \in Seq(Values) /\ Len(b) = Len(m) /\ \A k \in 1..Len(m) : b[k] = r[k]
  <2>1. \A k \in 1..Len(m) : r[k] \in Values
    BY <1>1, <1>2, <1>3
  <2>2. PICK n : n = Len(m)
    OBVIOUS
  <2>3. /\ SubSeq(r, 1, n) \in Seq(Values)
        /\ Len(SubSeq(r, 1, n)) = IF 1 <= n THEN n - 1 + 1 ELSE 0
        /\ \A i \in 1..(n - 1 + 1) : SubSeq(r, 1, n)[i] = r[1 + i - 1]
    BY <1>2, <2>1, <2>2, SubSeqProperties
  <2>4. n \in Nat /\ n - 1 + 1 = n /\ \A i \in 1..n : 1 + i - 1 = i
    BY <1>2, <2>2
  <2> QED
    BY <2>2, <2>3, <2>4
<1> HIDE DEF b
<1>6. b = m
  <2>1. b = [k \in 1..Len(m) |-> b[k]] /\ m = [k \in 1..Len(m) |-> m[k]]
    BY <1>2, <1>5
  <2>2. [k \in 1..Len(m) |-> b[k]] = [k \in 1..Len(m) |-> m[k]]
    BY <1>4, <1>5
  <2> QED
    BY ONLY <2>1, <2>2
<1> QED
  BY <1>6 DEF b, r

\* Sequences of the same values are sorted to the same.
LEMMA SortedSame ==
  ASSUME NEW s \in Seq(Values), NEW t \in Seq(Values),
         \A P \in Cuts : Count(s, P) = Count(t, P)
  PROVE  Sorted(s) = Sorted(t)
<1> DEFINE m == Sorted(s)
           left == [P \in Cuts |-> 0]
<1>1. m \in Seq(Values) /\ Ascends(m) /\ Len(m) = Len(s)
  BY SortedCuts, SortedAscends
<1>2. \A P \in Cuts : left[P] \in Nat /\ Count(t, P) = Count(m, P) + left[P]
  <2> TAKE P \in Cuts
  <2>1. Count(m, P) = Count(t, P) /\ Count(t, P) \in Nat /\ left[P] = 0
    BY SortedCount, CountIsNat
  <2> HIDE DEF left, m
  <2> QED
    BY <2>1
<1>3. \A k \in 1..Len(m), v \in Nat : v < m[k] => left[0..v] = 0
  BY DEF Cuts
<1> HIDE DEF left, m
<1>4. m = SubSeq(Sorted(t), 1, Len(m))
  BY <1>1, <1>2, <1>3, SortedBegins
<1>5. Len(Sorted(t)) = Len(m) /\ Sorted(t) \in Seq(Values)
  <2>1. Nat \in Cuts
    BY DEF Cuts
  <2>2. Len(s) = Len(t)
    BY <2>1, CountAll
  <2> QED
    BY <1>1, <2>2, SortedCuts
<1>6. SubSeq(Sorted(t), 1, Len(m)) = Sorted(t)
  BY <1>5, WholeSequence
<1> QED
  BY <1>4, <1>6 DEF m

-----------------------------------------------------------------------------
(***************************************************************************)
(* The sizes.                                                              *)
(***************************************************************************)
Chunks == 0..(numChunks - 1)

Sizes == input \in Seq(Values) /\ size > 0 /\ memory \in Nat /\ memory > 0

LEMMA Monotone ==
  ASSUME NEW a \in Nat, NEW b \in Nat, NEW c \in Nat, a < b
  PROVE  a * c + c <= b * c
<1>1. PICK d \in Nat : b = a + 1 + d
  OBVIOUS
<1>2. b * c = a * c + c + d * c
  BY <1>1
<1>3. d * c \in Nat /\ a * c \in Nat
  OBVIOUS
<1> QED
  BY <1>2, <1>3

LEMMA Quotient ==
  ASSUME NEW a \in Nat, NEW c \in Nat, c > 0
  PROVE  /\ a \div c \in Nat
         /\ (a \div c) * c <= a
         /\ a < (a \div c) * c + c
OBVIOUS

LEMMA ChunkSizes ==
  ASSUME Sizes
  PROVE  /\ size \in Nat /\ chunkSize \in Nat /\ chunkSize > 0 /\ chunkSize <= size
         /\ numChunks \in Nat /\ numChunks > 0
         /\ size <= numChunks * chunkSize
         /\ (numChunks - 1) * chunkSize < size
         /\ bufSize \in Nat
         /\ numChunks * bufSize + bufSize <= chunkSize
<1> DEFINE n == size
           c == chunkSize
<1>1. n \in Nat /\ n > 0 /\ memory \in Nat /\ memory > 0
  BY DEF Sizes, size
<1>2. c \in Nat /\ c > 0 /\ c <= n
  BY <1>1 DEF chunkSize
<1> DEFINE m == numChunks
<1>3. m = (n + c - 1) \div c
  BY <1>2 DEF numChunks
<1> HIDE DEF n, c, m
<1>4. m \in Nat /\ m * c <= n + c - 1 /\ n + c - 1 < m * c + c
  <2>1. PICK a \in Nat : a = n + c - 1
    BY <1>1, <1>2
  <2> QED
    BY <1>2, <1>3, <2>1, Quotient
<1>5. m > 0 /\ (m - 1) * c = m * c - c
  BY <1>1, <1>2, <1>4
<1>6. m * c \in Nat
  BY <1>2, <1>4
<1>7. n <= m * c /\ m * c - c < n
  BY <1>1, <1>2, <1>4, <1>6
<1> DEFINE b == bufSize
<1>8. b = c \div (m + 1)
  BY DEF b, bufSize, c, m
<1> HIDE DEF b
<1>9. b \in Nat /\ b * (m + 1) <= c
  <2>1. PICK k \in Nat : k = m + 1 /\ k > 0
    BY <1>4
  <2> QED
    BY <1>2, <1>8, <2>1, Quotient
<1>10. b * (m + 1) = m * b + b
  BY <1>4, <1>9
<1> QED
  BY <1>1, <1>2, <1>4, <1>5, <1>7, <1>9, <1>10 DEF n, c, m, b

\* The chunks, before they are sorted: one after the other they are the input.
First(i) == i * chunkSize

LEMMA ChunkBounds ==
  ASSUME Sizes, NEW i \in Chunks
  PROVE  /\ First(i) \in Nat /\ First(i) < size
         /\ ChunkEnd(i) \in Nat /\ First(i) < ChunkEnd(i) /\ ChunkEnd(i) <= size
         /\ ChunkEnd(i) - First(i) <= chunkSize
         /\ ChunkEnd(i) < size => ChunkEnd(i) = First(i) + chunkSize
<1> DEFINE n == size
           c == chunkSize
           m == numChunks
           f == First(i)
           e == ChunkEnd(i)
<1>1. /\ n \in Nat /\ c \in Nat /\ c > 0 /\ m \in Nat /\ m > 0
      /\ (m - 1) * c < n
  BY ChunkSizes
<1>2. f = i * c
  BY DEF First
<1>3. e = IF (i + 1) * c < n THEN (i + 1) * c ELSE n
  BY DEF ChunkEnd
<1>4. i \in 0..(m - 1)
  BY DEF Chunks
<1> HIDE DEF n, c, m, f, e
<1>5. i \in Nat /\ m - 1 \in Nat /\ i <= m - 1
  BY <1>1, <1>4
<1>6. i * c <= (m - 1) * c
  <2>1. PICK k \in Nat : k = m - 1
    BY <1>5
  <2>2. CASE i = k
    BY <1>1, <2>1, <2>2
  <2>3. CASE i # k
    <3>1. i < k
      BY <1>5, <2>1, <2>3
    <3>2. i * c + c <= k * c
      BY <1>1, <1>5, <2>1, <3>1, Monotone
    <3>3. i * c \in Nat /\ k * c \in Nat
      BY <1>1, <1>5, <2>1
    <3> QED
      BY <1>1, <2>1, <3>2, <3>3
  <2> QED
    BY <2>2, <2>3
<1>7. i * c \in Nat /\ (m - 1) * c \in Nat /\ (i + 1) * c = i * c + c
  BY <1>1, <1>5
<1>8. f \in Nat /\ f < n /\ e = IF f + c < n THEN f + c ELSE n
  BY <1>1, <1>2, <1>3, <1>6, <1>7
<1> QED
  BY <1>1, <1>8 DEF n, c, f, e

LEMMA InOneChunk ==
  ASSUME Sizes, NEW j \in 1..size
  PROVE  \E i \in Chunks : /\ j \in (First(i) + 1)..ChunkEnd(i)
                           /\ \A h \in Chunks : j \in (First(h) + 1)..ChunkEnd(h) => h = i
<1> DEFINE n == size
           c == chunkSize
           m == numChunks
<1>1. /\ n \in Nat /\ c \in Nat /\ c > 0 /\ m \in Nat /\ m > 0
      /\ n <= m * c
  BY ChunkSizes
<1>2. /\ \A i : First(i) = i * c
      /\ \A i : ChunkEnd(i) = IF (i + 1) * c < n THEN (i + 1) * c ELSE n
  BY DEF First, ChunkEnd
<1>3. Chunks = 0..(m - 1) /\ j \in 1..n
  BY DEF Chunks
<1> HIDE DEF n, c, m
<1>4. PICK i \in Nat : i * c <= j - 1 /\ j - 1 < i * c + c
  <2>1. PICK a \in Nat : a = j - 1
    BY <1>1, <1>3
  <2> QED
    BY <1>1, <2>1, Quotient
<1>5. i < m
  <2> SUFFICES ASSUME m <= i
               PROVE  FALSE
    BY <1>1
  <2>1. m * c <= i * c
    <3>1. CASE m = i
      BY <1>1, <3>1
    <3>2. CASE m < i
      <4>1. m * c + c <= i * c /\ m * c \in Nat /\ i * c \in Nat
        BY <1>1, <3>2, Monotone
      <4> QED
        BY <1>1, <4>1
    <3> QED
      BY <1>1, <3>1, <3>2
  <2>2. m * c \in Nat /\ i * c \in Nat
    BY <1>1
  <2> QED
    BY <1>1, <1>3, <1>4, <2>1, <2>2
<1>6. i \in Chunks
  BY <1>1, <1>3, <1>5
<1>7. j \in (First(i) + 1)..ChunkEnd(i)
  <2>1. (i + 1) * c = i * c + c /\ i * c \in Nat
    BY <1>1
  <2> QED
    BY <1>1, <1>2, <1>3, <1>4, <2>1
<1>8. ASSUME NEW h \in Chunks, j \in (First(h) + 1)..ChunkEnd(h)
      PROVE  h = i
  <2>1. h \in Nat
    BY <1>1, <1>3
  <2>2. (h + 1) * c = h * c + c /\ h * c \in Nat /\ i * c \in Nat
    BY <1>1, <2>1
  <2>3. j <= h * c + c /\ h * c + 1 <= j
    BY <1>1, <1>2, <1>3, <1>8, <2>2
  <2>4. h < i => h * c + c <= i * c
    BY <1>1, <2>1, Monotone
  <2>5. i < h => i * c + c <= h * c
    BY <1>1, <2>1, Monotone
  <2> QED
    BY <1>1, <1>3, <1>4, <2>1, <2>2, <2>3, <2>4, <2>5
<1> QED
  BY <1>6, <1>7, <1>8

LEMMA SameNumber ==
  ASSUME NEW S, NEW T, IsFiniteSet(S), NEW f \in [S -> T],
         \A a, b \in S : f[a] = f[b] => a = b,
         \A t \in T : \E s \in S : f[s] = t
  PROVE  IsFiniteSet(T) /\ Cardinality(T) = Cardinality(S)
<1>1. f \in Bijection(S, T)
  BY DEF Bijection, Injection, Surjection, IsInjective
<1>2. ExistsBijection(S, T)
  BY <1>1 DEF ExistsBijection
<1> QED
  BY <1>2, FS_Bijection

\* What ReadChunk writes.
LEMMA ChunkIs ==
  ASSUME Sizes, NEW i \in Chunks
  PROVE  /\ Chunk(i) \in Seq(Values) /\ Ascends(Chunk(i))
         /\ Len(Chunk(i)) = ChunkEnd(i) - First(i)
         /\ Len(Chunk(i)) \in 1..chunkSize
         /\ DOMAIN Chunk(i) = 1..Len(Chunk(i))
         /\ \A P \in Cuts : \E b \in [1..Len(Chunk(i)) -> 1..Len(Chunk(i))] :
               LET hits == {k \in 1..Len(Chunk(i)) : Chunk(i)[k] \in P}
                   at   == {k \in 1..Len(Chunk(i)) : input[First(i) + k] \in P}
               IN  /\ \A k \in hits : b[k] \in at
                   /\ \A k, l \in hits : b[k] = b[l] => k = l
                   /\ \A p \in at : \E k \in hits : b[k] = p
<1> DEFINE f == First(i)
           e == ChunkEnd(i)
           p == SubSeq(input, f + 1, e)
           c == chunkSize
           n == e - f
<1>1. /\ f \in Nat /\ e \in Nat /\ f < e /\ e <= Len(input) /\ e - f <= c
  BY ChunkBounds DEF size
<1>2. c \in Nat /\ Len(input) \in Nat
  BY ChunkSizes DEF size
<1>3. Chunk(i) = Sorted(p)
  BY DEF Chunk, First
<1>4. /\ input \in Seq(Values) /\ \A k \in 1..Len(input) : input[k] \in Values
  BY NumbersAre DEF Sizes
<1> HIDE DEF f, e, c
<1>5. n \in Nat /\ n \in 1..c
  BY <1>1, <1>2
<1>6. p \in Seq(Values) /\ Len(p) = n /\ \A k \in 1..n : p[k] = input[f + k]
  <2>1. \A k \in (f + 1)..e : input[k] \in Values
    BY <1>1, <1>2, <1>4
  <2>2. PICK g \in Nat : g = f + 1
    BY <1>1
  <2>3. /\ SubSeq(input, g, e) \in Seq(Values)
        /\ Len(SubSeq(input, g, e)) = IF g <= e THEN e - g + 1 ELSE 0
        /\ \A k \in 1..(e - g + 1) : SubSeq(input, g, e)[k] = input[g + k - 1]
    BY <1>1, <2>1, <2>2, SubSeqProperties
  <2>4. e - g + 1 = n /\ g <= e /\ \A k \in 1..n : g + k - 1 = f + k
    BY <1>1, <2>2
  <2> HIDE DEF n
  <2> QED
    BY <2>2, <2>3, <2>4
<1> HIDE DEF p, n
<1> DEFINE r == Sorted(p)
<1>7. r \in Seq(Values) /\ Len(r) = n /\ Ascends(r)
  BY <1>6, SortedCuts, SortedAscends
<1>8. \A k \in 1..n, P \in Cuts : r[k] \in P <=> k <= Count(p, P)
  BY <1>6, SortedCuts
<1> HIDE DEF r
<1>9. ASSUME NEW P \in Cuts
      PROVE  \E b \in [1..n -> 1..n] :
               LET hits == {k \in 1..n : r[k] \in P}
                   at   == {k \in 1..n : input[f + k] \in P}
               IN  /\ \A k \in hits : b[k] \in at
                   /\ \A k, l \in hits : b[k] = b[l] => k = l
                   /\ \A q \in at : \E k \in hits : b[k] = q
  <2> DEFINE at == {k \in 1..n : input[f + k] \in P}
             hits == {k \in 1..n : r[k] \in P}
             m == Count(p, P)
  <2>1. at = {k \in DOMAIN p : p[k] \in P}
    <3>1. DOMAIN p = 1..n
      BY <1>6
    <3> QED
      BY <1>6, <3>1
  <2>2. IsFiniteSet(at) /\ m = Cardinality(at) /\ m \in 0..n
    BY <1>6, <2>1, CountType DEF Count
  <2>3. hits = 1..m
    <3> HIDE DEF m
    <3>1. \A k \in 1..n : r[k] \in P <=> k <= m
      BY <1>8 DEF m
    <3> QED
      BY <1>5, <2>2, <3>1
  <2> HIDE DEF at, hits, m
  <2>4. ExistsBijection(1..m, at)
    BY <2>2, FS_CardinalityType
  <2>5. PICK h \in Bijection(1..m, at) : TRUE
    BY <2>4 DEF ExistsBijection
  <2>6. h \in [hits -> at] /\ (\A k, l \in hits : h[k] = h[l] => k = l)
        /\ \A q \in at : \E k \in hits : h[k] = q
    BY <2>3, <2>5 DEF Bijection, Injection, Surjection, IsInjective
  <2> DEFINE b == [k \in 1..n |-> IF k \in hits THEN h[k] ELSE 1]
  <2>7. b \in [1..n -> 1..n]
    <3>1. at \subseteq 1..n
      BY DEF at
    <3>2. 1 \in 1..n
      BY <1>5
    <3> QED
      BY <2>6, <3>1, <3>2
  <2>8. \A k \in hits : b[k] = h[k]
    BY DEF hits
  <2> HIDE DEF b
  <2>9. /\ \A k \in hits : b[k] \in at
        /\ \A k, l \in hits : b[k] = b[l] => k = l
        /\ \A q \in at : \E k \in hits : b[k] = q
    BY <2>6, <2>8
  <2> QED
    BY <2>7, <2>9 DEF at, hits
<1>10. Chunk(i) = r /\ DOMAIN r = 1..n
  BY <1>3, <1>7 DEF r
<1> QED
  BY <1>5, <1>7, <1>9, <1>10 DEF f, e, c, n

(***************************************************************************)
(* The values of the chunks, each at its place, <<chunk, position>>: as    *)
(* many as in the input.                                                   *)
(***************************************************************************)
Tokens(P) == {t \in Chunks \X (1..chunkSize) :
                 t[2] <= Len(Chunk(t[1])) /\ Chunk(t[1])[t[2]] \in P}

LEMMA TokensFinite ==
  ASSUME Sizes, NEW P
  PROVE  IsFiniteSet(Tokens(P))
<1>1. IsFiniteSet(Chunks) /\ IsFiniteSet(1..chunkSize)
  BY ChunkSizes, FS_Interval DEF Chunks
<1>2. IsFiniteSet(Chunks \X (1..chunkSize))
  BY <1>1, FS_Product
<1> QED
  BY <1>2, FS_Subset DEF Tokens

LEMMA InputTokens ==
  ASSUME Sizes, NEW P \in Cuts
  PROVE  Cardinality(Tokens(P)) = Count(input, P)
<1> DEFINE L(i) == Len(Chunk(i))
           Good(i, b) == LET hits == {k \in 1..L(i) : Chunk(i)[k] \in P}
                             at   == {k \in 1..L(i) : input[First(i) + k] \in P}
                         IN  /\ b \in [1..L(i) -> 1..L(i)]
                             /\ \A k \in hits : b[k] \in at
                             /\ \A k, l \in hits : b[k] = b[l] => k = l
                             /\ \A p \in at : \E k \in hits : b[k] = p
           g == [i \in Chunks |-> CHOOSE b : Good(i, b)]
           to == [t \in Tokens(P) |-> First(t[1]) + g[t[1]][t[2]]]
           At == {j \in DOMAIN input : input[j] \in P}
<1>1. ASSUME NEW i \in Chunks
      PROVE  Good(i, g[i])
  <2>1. \E b : Good(i, b)
    BY ChunkIs
  <2>2. g[i] = CHOOSE b : Good(i, b)
    OBVIOUS
  <2> HIDE DEF Good, g
  <2> QED
    BY <2>1, <2>2
<1>2. /\ \A i \in Chunks : /\ L(i) = ChunkEnd(i) - First(i) /\ L(i) \in 1..chunkSize
                           /\ First(i) \in Nat /\ ChunkEnd(i) \in Nat /\ ChunkEnd(i) <= size
      /\ size \in Nat /\ chunkSize \in Nat
      /\ DOMAIN input = 1..size
  BY ChunkIs, ChunkBounds, ChunkSizes, NumbersAre DEF size, Sizes
<1> HIDE DEF g, L
<1>3. ASSUME NEW i \in Chunks, NEW k \in 1..L(i), Chunk(i)[k] \in P
      PROVE  /\ g[i][k] \in 1..L(i)
             /\ input[First(i) + g[i][k]] \in P
             /\ First(i) + g[i][k] \in (First(i) + 1)..ChunkEnd(i)
             /\ First(i) + g[i][k] \in At
  <2>1. g[i][k] \in 1..L(i) /\ input[First(i) + g[i][k]] \in P
    BY <1>1, <1>3
  <2> HIDE DEF Good
  <2>2. PICK x \in 1..L(i) : x = g[i][k]
    BY <2>1
  <2>3. First(i) + x \in (First(i) + 1)..ChunkEnd(i) /\ First(i) + x \in 1..size
    BY <1>2, <2>2
  <2> QED
    BY <1>2, <2>1, <2>2, <2>3
<1>4. ASSUME NEW t \in Tokens(P)
      PROVE  /\ t[1] \in Chunks /\ t[2] \in 1..L(t[1]) /\ Chunk(t[1])[t[2]] \in P
             /\ t = <<t[1], t[2]>>
             /\ to[t] = First(t[1]) + g[t[1]][t[2]]
  BY <1>2 DEF Tokens, L
<1>5. ASSUME NEW i \in Chunks, NEW k \in 1..L(i), Chunk(i)[k] \in P
      PROVE  <<i, k>> \in Tokens(P) /\ to[<<i, k>>] = First(i) + g[i][k]
  <2>1. k \in 1..chunkSize /\ k <= L(i)
    BY <1>2
  <2>2. <<i, k>> \in Tokens(P)
    BY <1>5, <2>1 DEF Tokens, L
  <2> QED
    BY <2>2
<1> HIDE DEF to, Good
<1>6. to \in [Tokens(P) -> At]
  <2>1. \A t \in Tokens(P) : to[t] \in At
    BY <1>3, <1>4
  <2>2. DOMAIN to = Tokens(P) /\ to = [t \in Tokens(P) |-> to[t]]
    BY DEF to
  <2> QED
    BY <2>1, <2>2
<1>7. ASSUME NEW t \in Tokens(P), NEW u \in Tokens(P), to[t] = to[u]
      PROVE  t = u
  <2> DEFINE i == t[1]
             h == u[1]
  <2>1. /\ i \in Chunks /\ t[2] \in 1..L(i) /\ Chunk(i)[t[2]] \in P
        /\ t = <<i, t[2]>> /\ to[t] = First(i) + g[i][t[2]]
        /\ h \in Chunks /\ u[2] \in 1..L(h) /\ Chunk(h)[u[2]] \in P
        /\ u = <<h, u[2]>> /\ to[u] = First(h) + g[h][u[2]]
    BY <1>4
  <2> HIDE DEF i, h
  <2>2. /\ to[t] \in (First(i) + 1)..ChunkEnd(i) /\ to[u] \in (First(h) + 1)..ChunkEnd(h)
        /\ to[t] \in At
        /\ g[i][t[2]] \in 1..L(i) /\ g[h][u[2]] \in 1..L(h)
    BY <1>3, <2>1
  <2>3. i = h
    <3>1. to[t] \in 1..size
      BY <1>2, <2>2
    <3> QED
      BY <1>7, <2>1, <2>2, <3>1, InOneChunk
  <2>4. g[i][t[2]] = g[i][u[2]]
    <3>1. First(i) \in Nat /\ g[i][t[2]] \in Int /\ g[i][u[2]] \in Int
      BY <1>2, <2>1, <2>2, <2>3
    <3>2. First(i) + g[i][t[2]] = First(i) + g[i][u[2]]
      BY <1>7, <2>1, <2>3
    <3> QED
      BY ONLY <3>1, <3>2
  <2>5. t[2] = u[2]
    BY <1>1, <2>1, <2>3, <2>4 DEF Good
  <2> QED
    BY <2>1, <2>3, <2>5
<1>8. ASSUME NEW j \in At
      PROVE  \E t \in Tokens(P) : to[t] = j
  <2>1. j \in 1..size /\ input[j] \in P
    BY <1>2
  <2>2. PICK i \in Chunks : j \in (First(i) + 1)..ChunkEnd(i)
    BY <2>1, InOneChunk
  <2>3. PICK q \in 1..L(i) : j = First(i) + q
    <3>1. j - First(i) \in 1..L(i) /\ j = First(i) + (j - First(i))
      BY <1>2, <2>1, <2>2
    <3> QED
      BY <3>1
  <2>4. PICK k \in 1..L(i) : Chunk(i)[k] \in P /\ g[i][k] = q
    BY <1>1, <2>1, <2>3 DEF Good
  <2> QED
    BY <1>5, <2>3, <2>4
<1>9. Cardinality(At) = Cardinality(Tokens(P))
  <2> HIDE DEF At
  <2> QED
    BY <1>6, <1>7, <1>8, TokensFinite, SameNumber
<1> QED
  BY <1>9 DEF Count

-----------------------------------------------------------------------------
(***************************************************************************)
(* A chunk file f and its input buffer b of n values: what has been read   *)
(* of chunk ch, and when the file is closed.                               *)
(***************************************************************************)
LastRead(ch, b, n) ==
    \E q \in Nat, r \in 0..(n - 1) : Len(ch) = q * n + r /\ (b.length = 0 <=> r = 0)

BufferOf(ch, f, b, n) ==
    /\ f \in [data : {ch}, pos : 0..Len(ch), open : BOOLEAN]
    /\ b \in [length : 0..n, index : 0..n]
    /\ b.length + b.index <= n /\ b.length <= f.pos
    /\ f.open => /\ \E q \in Nat : f.pos = q * n
                 /\ n >= 2 => b.length > 0
    /\ ~f.open => f.pos = Len(ch) /\ LastRead(ch, b, n)
    /\ n = 1 => f.open /\ b.length = 0

LEMMA Remainder ==
  ASSUME NEW q \in Nat, NEW n \in Nat, NEW r \in 0..(n - 1)
  PROVE  (q * n + r) % n = r
OBVIOUS

LEMMA FirstBuffer ==
  ASSUME NEW ch \in Seq(Values), NEW n \in Nat, n > 0, n <= Len(ch)
  PROVE  BufferOf(ch, [data |-> ch, pos |-> n, open |-> TRUE],
                  [length |-> n - 1, index |-> 1], n)
<1>1. Len(ch) \in Nat
  BY NumbersAre
<1>2. n = 1 * n
  OBVIOUS
<1> DEFINE f == [data |-> ch, pos |-> n, open |-> TRUE]
           b == [length |-> n - 1, index |-> 1]
<1>3. /\ f \in [data : {ch}, pos : 0..Len(ch), open : BOOLEAN] /\ f.pos = n /\ f.open
      /\ b \in [length : 0..n, index : 0..n] /\ b.length = n - 1 /\ b.index = 1
  BY <1>1
<1> HIDE DEF f, b
<1>4. \E q \in Nat : f.pos = q * n
  BY <1>2, <1>3
<1>5. BufferOf(ch, f, b, n)
  BY <1>1, <1>3, <1>4 DEF BufferOf
<1> QED
  BY <1>5 DEF f, b

LEMMA BufferUsed ==
  ASSUME NEW ch \in Seq(Values), NEW n \in Nat, NEW f, NEW b, BufferOf(ch, f, b, n),
         b.length > 1
  PROVE  BufferOf(ch, f, [length |-> b.length - 1, index |-> b.index + 1], n)
<1> DEFINE c == [length |-> b.length - 1, index |-> b.index + 1]
<1>1. /\ b.length \in Nat /\ b.index \in Nat /\ b.length + b.index <= n /\ b.length <= f.pos
      /\ f.pos \in Nat
  BY NumbersAre DEF BufferOf
<1>2. /\ c \in [length : 0..n, index : 0..n] /\ c.length = b.length - 1
      /\ c.length + c.index <= n /\ c.length <= f.pos /\ c.length > 0
  BY <1>1
<1> HIDE DEF c
<1>3. /\ f \in [data : {ch}, pos : 0..Len(ch), open : BOOLEAN]
      /\ f.open => \E q \in Nat : f.pos = q * n
      /\ ~f.open => f.pos = Len(ch) /\ LastRead(ch, b, n)
      /\ n = 1 => b.length = 0
  BY DEF BufferOf
<1>4. b.length # 0 /\ c.length # 0
  BY <1>1, <1>2
<1>5. LastRead(ch, b, n) => LastRead(ch, c, n)
  BY <1>4 DEF LastRead
<1>6. BufferOf(ch, f, c, n)
  BY <1>2, <1>3, <1>4, <1>5 DEF BufferOf
<1> QED
  BY <1>6 DEF c

LEMMA BufferRefilled ==
  ASSUME NEW ch \in Seq(Values), NEW n \in Nat, n > 0, NEW f, NEW b, BufferOf(ch, f, b, n),
         b.length = 1, f.open,
         NEW l, l = MinLen(f.pos + n, Len(ch)) - f.pos
  PROVE  /\ l \in 0..n
         /\ BufferOf(ch, [data |-> ch, pos |-> f.pos + l, open |-> l = n],
                     [length |-> l, index |-> 0], n)
<1> DEFINE g == [data |-> ch, pos |-> f.pos + l, open |-> l = n]
           c == [length |-> l, index |-> 0]
<1>1. Len(ch) \in Nat /\ f.pos \in 0..Len(ch) /\ n >= 2
  BY NumbersAre DEF BufferOf
<1>2. PICK q \in Nat : f.pos = q * n
  BY DEF BufferOf
<1>3. /\ l \in 0..n /\ f.pos + l \in 0..Len(ch)
      /\ l < n => f.pos + l = Len(ch)
  BY <1>1 DEF MinLen
<1>4. /\ g \in [data : {ch}, pos : 0..Len(ch), open : BOOLEAN] /\ g.pos = f.pos + l
      /\ g.open <=> l = n
      /\ c \in [length : 0..n, index : 0..n] /\ c.length = l /\ c.index = 0
  <2>1. g \in [data : {ch}, pos : 0..Len(ch), open : BOOLEAN] /\ g.pos = f.pos + l
    BY <1>1, <1>3
  <2>2. g.open = (l = n)
    OBVIOUS
  <2>3. c \in [length : 0..n, index : 0..n] /\ c.length = l /\ c.index = 0
    BY <1>1, <1>3
  <2> QED
    BY <2>1, <2>2, <2>3
<1> HIDE DEF g, c
<1>5. g.open => \E p \in Nat : g.pos = p * n
  <2>1. (q + 1) * n = q * n + n
    OBVIOUS
  <2>2. g.open => g.pos = (q + 1) * n
    BY <1>2, <1>4, <2>1
  <2>3. q + 1 \in Nat
    OBVIOUS
  <2> QED
    BY <2>2, <2>3
<1>6. ~g.open => g.pos = Len(ch) /\ LastRead(ch, c, n)
  <2> SUFFICES ASSUME ~g.open
               PROVE  g.pos = Len(ch) /\ LastRead(ch, c, n)
    OBVIOUS
  <2>1. l # n
    BY <1>4
  <2>2. l \in 0..(n - 1) /\ g.pos = Len(ch) /\ Len(ch) = q * n + l
    BY <1>1, <1>2, <1>3, <1>4, <2>1
  <2>3. c.length = 0 <=> l = 0
    BY <1>4
  <2> QED
    BY <2>2, <2>3 DEF LastRead
<1>7. c.length + c.index <= n /\ c.length <= g.pos
  BY <1>1, <1>3, <1>4
<1>8. g.open => c.length > 0
  BY <1>4
<1>9. n # 1
  BY <1>1
<1>10. BufferOf(ch, g, c, n)
  BY <1>4, <1>5, <1>6, <1>7, <1>8, <1>9 DEF BufferOf
<1> QED
  BY <1>3, <1>10 DEF g, c

\* When the chunk fills its buffer a whole number of times, the file is closed
\* when all its values have been used.
LEMMA ClosedIsUsed ==
  ASSUME NEW ch \in Seq(Values), NEW n \in Nat, n > 0, NEW f, NEW b, BufferOf(ch, f, b, n),
         Len(ch) % n = 0, ~f.open
  PROVE  b.length = 0 /\ f.pos = Len(ch)
<1>0. LastRead(ch, b, n)
  BY DEF BufferOf
<1>1. PICK q \in Nat, r \in 0..(n - 1) : Len(ch) = q * n + r /\ (b.length = 0 <=> r = 0)
  BY <1>0 DEF LastRead
<1>2. Len(ch) % n = r
  BY <1>1, Remainder
<1> QED
  BY <1>1, <1>2 DEF BufferOf

\* And the other way round.
LEMMA UsedUpFits ==
  ASSUME NEW ch \in Seq(Values), NEW n \in Nat, n > 0, NEW f, NEW b, BufferOf(ch, f, b, n),
         ~f.open, b.length = 0
  PROVE  Len(ch) % n = 0 /\ n >= 2
<1>0. LastRead(ch, b, n)
  BY DEF BufferOf
<1>1. PICK q \in Nat, r \in 0..(n - 1) : Len(ch) = q * n + r /\ (b.length = 0 <=> r = 0)
  BY <1>0 DEF LastRead
<1>2. Len(ch) % n = 0
  BY <1>1, Remainder
<1> QED
  BY <1>2 DEF BufferOf

LEMMA NextIs ==
  ASSUME NEW f, f.data \in Seq(Values), f.pos \in 0..Len(f.data), bufSize \in Nat
  PROVE  /\ NextOf(f) \in Seq(Values)
         /\ Len(NextOf(f)) = MinLen(f.pos + bufSize, Len(f.data)) - f.pos
         /\ \A k \in 1..Len(NextOf(f)) : NextOf(f)[k] = f.data[f.pos + k]
<1> DEFINE d == f.data
           p == f.pos
           e == MinLen(p + bufSize, Len(d))
<1>1. Len(d) \in Nat /\ p \in 0..Len(d) /\ \A k \in 1..Len(d) : d[k] \in Values
  BY NumbersAre
<1>2. e \in p..Len(d)
  BY <1>1 DEF MinLen
<1>3. NextOf(f) = SubSeq(d, p + 1, e)
  BY DEF NextOf
<1> HIDE DEF d, p, e
<1>4. PICK g \in Nat : g = p + 1
  BY <1>1
<1>5. \A k \in g..e : d[k] \in Values
  BY <1>1, <1>2, <1>4
<1>6. /\ SubSeq(d, g, e) \in Seq(Values)
      /\ Len(SubSeq(d, g, e)) = IF g <= e THEN e - g + 1 ELSE 0
      /\ \A k \in 1..(e - g + 1) : SubSeq(d, g, e)[k] = d[g + k - 1]
  <2>1. e \in Int /\ g \in Int
    BY <1>1, <1>2
  <2> QED
    BY <1>5, <2>1, SubSeqProperties
<1>7. Len(SubSeq(d, g, e)) = e - p /\ e - g + 1 = e - p
  BY <1>1, <1>2, <1>4, <1>6
<1>8. \A k \in 1..(e - p) : g + k - 1 = p + k
  BY <1>1, <1>2, <1>4
<1> QED
  BY <1>3, <1>4, <1>6, <1>7, <1>8 DEF d, p, e

(***************************************************************************)
(* Filled, the buffers, and the places they leave alone.                   *)
(***************************************************************************)
LEMMA BuffersApart ==
  ASSUME bufSize \in Nat, NEW i \in Nat, NEW j \in Nat, i # j,
         NEW k \in 0..(bufSize - 1), NEW l \in 0..(bufSize - 1)
  PROVE  Buffer(i) + k # Buffer(j) + l
<1> DEFINE n == bufSize
<1>1. Buffer(i) = i * n /\ Buffer(j) = j * n
  BY DEF Buffer
<1> HIDE DEF n
<1>2. n \in Nat /\ k \in 0..(n - 1) /\ l \in 0..(n - 1)
  BY DEF n
<1>3. i * n \in Nat /\ j * n \in Nat
  BY <1>2
<1>4. i < j => i * n + n <= j * n
  BY <1>2, Monotone
<1>5. j < i => j * n + n <= i * n
  BY <1>2, Monotone
<1> QED
  BY <1>1, <1>2, <1>3, <1>4, <1>5

LEMMA BuffersInMemory ==
  ASSUME Sizes, NEW i \in 0..numChunks, NEW k \in 0..(bufSize - 1)
  PROVE  Buffer(i) + k \in Places /\ Buffer(i) \in Nat
<1> DEFINE n == bufSize
           m == numChunks
           c == chunkSize
<1>1. n \in Nat /\ m \in Nat /\ c \in Nat /\ m * n + n <= c
  BY ChunkSizes
<1>2. Buffer(i) = i * n /\ Places = 0..(c - 1)
  BY DEF Buffer, Places
<1>3. i \in 0..m /\ k \in 0..(n - 1)
  OBVIOUS
<1> HIDE DEF n, m, c
<1>4. i * n \in Nat /\ m * n \in Nat
  BY <1>1, <1>3
<1>5. i < m => i * n + n <= m * n
  BY <1>1, <1>3, Monotone
<1>6. i = m => i * n = m * n
  OBVIOUS
<1> QED
  BY <1>1, <1>2, <1>3, <1>4, <1>5, <1>6

LEMMA FilledIs ==
  ASSUME NEW p \in Nat, NEW s \in Seq(Values)
  PROVE  /\ DOMAIN Filled(p, s) = DOMAIN memBuf
         /\ \A k \in 1..Len(s) : p + k - 1 \in DOMAIN memBuf => Filled(p, s)[p + k - 1] = s[k]
         /\ \A a \in DOMAIN memBuf : a \notin p..(p + Len(s) - 1) => Filled(p, s)[a] = memBuf[a]
<1>1. Len(s) \in Nat
  BY NumbersAre
<1>2. \A k \in 1..Len(s) : p + k - 1 \in p..(p + Len(s) - 1) /\ (p + k - 1) - p + 1 = k
  BY <1>1
<1> QED
  BY <1>2 DEF Filled

-----------------------------------------------------------------------------
(***************************************************************************)
(* What has been merged: m, when pop[i] values of chunk i have been taken  *)
(* from the queue.                                                         *)
(***************************************************************************)
Taken(pop, P) == {t \in Tokens(P) : t[2] <= pop[t[1]]}

Merges(m, pop) ==
    /\ m \in Seq(Values) /\ Ascends(m)
    /\ \A P \in Cuts : Count(m, P) = Cardinality(Taken(pop, P))
    /\ \A i \in Chunks : \A k \in (pop[i] + 1)..Len(Chunk(i)) :
          \A j \in 1..Len(m) : m[j] <= Chunk(i)[k]

LEMMA CountAppend ==
  ASSUME NEW m \in Seq(Values), NEW v \in Values, NEW P
  PROVE  Count(Append(m, v), P) = IF v \in P THEN Count(m, P) + 1 ELSE Count(m, P)
<1> DEFINE a == Append(m, v)
           n == Len(m)
           D == {j \in DOMAIN m : m[j] \in P}
           E == {j \in DOMAIN a : a[j] \in P}
<1>1. /\ n \in Nat /\ DOMAIN m = 1..n /\ DOMAIN a = 1..(n + 1)
      /\ a[n + 1] = v /\ \A j \in 1..n : a[j] = m[j]
  <2>1. n \in Nat /\ DOMAIN m = 1..n
    BY NumbersAre
  <2>2. a \in Seq(Values) /\ Len(a) = n + 1 /\ a[n + 1] = v /\ \A j \in 1..n : a[j] = m[j]
    BY AppendProperties
  <2> HIDE DEF a
  <2> QED
    BY <2>1, <2>2
<1> HIDE DEF a, n
<1>2. E = IF v \in P THEN D \cup {n + 1} ELSE D
  <2>1. \A j \in 1..(n + 1) : j \in 1..n \/ j = n + 1
    BY <1>1
  <2> QED
    BY <1>1, <2>1
<1>3. IsFiniteSet(D) /\ n + 1 \notin D /\ Cardinality(D) = Count(m, P) /\ Count(m, P) \in Nat
  <2>1. IsFiniteSet(D)
    BY CountType
  <2>2. D \subseteq 1..n /\ n + 1 \notin 1..n
    BY <1>1
  <2>3. Cardinality(D) = Count(m, P)
    BY DEF Count
  <2> HIDE DEF D
  <2> QED
    BY <2>1, <2>2, <2>3, CountIsNat
<1> HIDE DEF D, E
<1>4. Cardinality(E) = IF v \in P THEN Cardinality(D) + 1 ELSE Cardinality(D)
  BY <1>2, <1>3, FS_AddElement
<1> QED
  BY <1>3, <1>4 DEF E, Count, a

LEMMA NothingMerged ==
  ASSUME Sizes
  PROVE  Merges(<< >>, [i \in Chunks |-> 0])
<1> DEFINE pop == [i \in Chunks |-> 0]
           m == << >>
<1>1. m \in Seq(Values) /\ Len(m) = 0 /\ DOMAIN m = {} /\ 1..Len(m) = {}
  OBVIOUS
<1>2. ASSUME NEW P \in Cuts
      PROVE  Count(m, P) = Cardinality(Taken(pop, P))
  <2>1. Taken(pop, P) = {}
    <3> SUFFICES ASSUME NEW t \in Taken(pop, P)
                 PROVE  FALSE
      OBVIOUS
    <3>1. t[1] \in Chunks /\ t[2] \in 1..chunkSize /\ t[2] <= pop[t[1]]
      BY DEF Taken, Tokens
    <3> QED
      BY <3>1, ChunkSizes
  <2>2. {j \in DOMAIN m : m[j] \in P} = {}
    BY <1>1
  <2> HIDE DEF m, pop
  <2> QED
    BY <2>1, <2>2 DEF Count
<1>3. Ascends(m)
  BY <1>1 DEF Ascends
<1> HIDE DEF m, pop
<1> QED
  BY <1>1, <1>2, <1>3 DEF Merges, m, pop

\* The least of the values that are left is merged.
LEMMA OneMerged ==
  ASSUME Sizes, NEW m, NEW pop \in [Chunks -> Nat], Merges(m, pop),
         NEW i \in Chunks, pop[i] < Len(Chunk(i)),
         NEW v, v = Chunk(i)[pop[i] + 1],
         \A j \in Chunks : \A k \in (pop[j] + 1)..Len(Chunk(j)) : v <= Chunk(j)[k]
  PROVE  Merges(Append(m, v), [pop EXCEPT ![i] = @ + 1])
<1> DEFINE a == Append(m, v)
           new == [pop EXCEPT ![i] = @ + 1]
           p == pop[i] + 1
<1>1. /\ m \in Seq(Values) /\ Ascends(m)
      /\ \A P \in Cuts : Count(m, P) = Cardinality(Taken(pop, P))
      /\ \A j \in Chunks : \A k \in (pop[j] + 1)..Len(Chunk(j)) :
            \A l \in 1..Len(m) : m[l] <= Chunk(j)[k]
  BY DEF Merges
<1>2. /\ p \in Nat /\ p \in 1..Len(Chunk(i)) /\ p \in 1..chunkSize /\ v \in Values /\ v \in Nat
  <2>1. Chunk(i) \in Seq(Values) /\ Len(Chunk(i)) \in 1..chunkSize /\ chunkSize \in Nat
    BY ChunkIs, ChunkSizes
  <2>2. p \in Nat /\ p \in 1..Len(Chunk(i)) /\ p \in 1..chunkSize
    BY <2>1
  <2> QED
    BY <2>1, <2>2, NumbersAre
<1>3. /\ a \in Seq(Values) /\ Len(a) = Len(m) + 1 /\ a[Len(m) + 1] = v
      /\ \A j \in 1..Len(m) : a[j] = m[j]
  BY <1>1, <1>2, AppendProperties
<1>4. /\ Len(m) \in Nat /\ \A j \in 1..Len(m) : m[j] \in Nat
      /\ DOMAIN m = 1..Len(m) /\ DOMAIN a = 1..(Len(m) + 1)
  BY <1>1, <1>3, NumbersAre
<1>5. new \in [Chunks -> Nat] /\ new[i] = p /\ \A j \in Chunks : j # i => new[j] = pop[j]
  OBVIOUS
<1> HIDE DEF a, new, p
<1>6. \A l \in 1..Len(m) : m[l] <= v
  <2>1. p \in (pop[i] + 1)..Len(Chunk(i))
    BY <1>2 DEF p
  <2> QED
    BY <1>1, <2>1 DEF p
<1>7. Ascends(a)
  <2> SUFFICES ASSUME NEW x \in 1..(Len(m) + 1), NEW y \in 1..(Len(m) + 1), x <= y
               PROVE  a[x] <= a[y]
    BY <1>4 DEF Ascends
  <2>1. CASE y \in 1..Len(m)
    <3>1. x \in 1..Len(m)
      BY <1>4, <2>1
    <3> QED
      BY <1>1, <1>3, <1>4, <2>1, <3>1 DEF Ascends
  <2>2. CASE y = Len(m) + 1 /\ x \in 1..Len(m)
    BY <1>3, <1>6, <2>2
  <2>3. CASE y = Len(m) + 1 /\ x = Len(m) + 1
    BY <1>2, <1>3, <2>3
  <2> QED
    BY <1>4, <2>1, <2>2, <2>3
<1>8. ASSUME NEW P \in Cuts
      PROVE  Count(a, P) = Cardinality(Taken(new, P))
  <2> DEFINE T == Taken(pop, P)
  <2>1. Taken(new, P) = IF v \in P THEN T \cup {<<i, p>>} ELSE T
    <3>1. ASSUME NEW t \in Tokens(P)
          PROVE  t[2] <= new[t[1]] <=> t[2] <= pop[t[1]] \/ (v \in P /\ t = <<i, p>>)
      <4>1. t[1] \in Chunks /\ t[2] \in Int /\ t = <<t[1], t[2]>> /\ Chunk(t[1])[t[2]] \in P
        BY ChunkSizes DEF Tokens
      <4>2. CASE t[1] # i
        BY <1>5, <4>1, <4>2
      <4>3. CASE t[1] = i
        <5>1. pop[i] \in Nat /\ p = pop[i] + 1
          BY DEF p
        <5>2. t[2] <= p <=> t[2] <= pop[i] \/ t[2] = p
          BY <4>1, <5>1
        <5>3. t[2] = p => v \in P
          BY <4>1, <4>3 DEF p
        <5>4. t[2] = p <=> t = <<i, p>>
          BY <4>1, <4>3
        <5> QED
          BY <1>5, <4>3, <5>2, <5>3, <5>4
      <4> QED
        BY <4>2, <4>3
    <3>2. v \in P => <<i, p>> \in Tokens(P)
      BY <1>2 DEF Tokens, p
    <3> QED
      BY <3>1, <3>2 DEF Taken
  <2>2. <<i, p>> \notin T
    <3>1. pop[i] \in Nat /\ ~(p <= pop[i])
      BY DEF p
    <3> QED
      BY <3>1 DEF Taken
  <2>3. IsFiniteSet(T) /\ Cardinality(T) = Count(m, P)
    BY <1>1, TokensFinite, FS_Subset DEF Taken
  <2>4. Count(a, P) = IF v \in P THEN Count(m, P) + 1 ELSE Count(m, P)
    BY <1>1, <1>2, CountAppend DEF a
  <2> HIDE DEF T
  <2> QED
    BY <2>1, <2>2, <2>3, <2>4, FS_AddElement
<1>9. ASSUME NEW j \in Chunks, NEW k \in (new[j] + 1)..Len(Chunk(j)), NEW l \in 1..Len(a)
      PROVE  a[l] <= Chunk(j)[k]
  <2>1. k \in (pop[j] + 1)..Len(Chunk(j))
    <3>1. Len(Chunk(j)) \in Nat /\ pop[j] \in Nat /\ new[j] \in Nat
      BY <1>5, ChunkIs, NumbersAre
    <3>2. new[j] >= pop[j]
      BY <1>5, <3>1 DEF p
    <3> QED
      BY <3>1, <3>2
  <2>2. CASE l \in 1..Len(m)
    BY <1>1, <1>3, <2>1, <2>2
  <2>3. CASE l = Len(m) + 1
    BY <1>3, <2>1, <2>3
  <2> QED
    BY <1>3, <1>4, <2>2, <2>3
<1> QED
  BY <1>3, <1>7, <1>8, <1>9 DEF Merges, a, new

\* The values that have not been merged are the rest.
Left(pop, P) == Tokens(P) \ Taken(pop, P)

LEMMA LeftIs ==
  ASSUME Sizes, NEW m, NEW pop, Merges(m, pop), NEW P \in Cuts
  PROVE  /\ IsFiniteSet(Left(pop, P)) /\ Cardinality(Left(pop, P)) \in Nat
         /\ Count(input, P) = Count(m, P) + Cardinality(Left(pop, P))
<1> DEFINE T == Taken(pop, P)
           L == Left(pop, P)
<1>1. IsFiniteSet(Tokens(P)) /\ Cardinality(Tokens(P)) = Count(input, P)
  BY TokensFinite, InputTokens
<1>2. T \subseteq Tokens(P) /\ L \subseteq Tokens(P) /\ T \cup L = Tokens(P) /\ T \cap L = {}
  BY DEF Taken, Left
<1>3. Cardinality(T) = Count(m, P)
  BY DEF Merges
<1> HIDE DEF T, L
<1>4. IsFiniteSet(T) /\ IsFiniteSet(L) /\ Cardinality(T) \in Nat /\ Cardinality(L) \in Nat
  BY <1>1, <1>2, FS_Subset, FS_CardinalityType
<1>5. Cardinality(T \cup L) = Cardinality(T) + Cardinality(L) - Cardinality({})
  BY <1>2, <1>4, FS_Union
<1>6. Cardinality({}) = 0
  BY FS_EmptySet
<1>7. Count(input, P) = Cardinality(T) + Cardinality(L)
  BY <1>1, <1>2, <1>4, <1>5, <1>6
<1> QED
  BY <1>3, <1>4, <1>7 DEF L

LEMMA MergedBegins ==
  ASSUME Sizes, NEW m, NEW pop \in [Chunks -> Nat], Merges(m, pop)
  PROVE  m = SubSeq(Sorted(input), 1, Len(m))
<1> DEFINE left == [P \in Cuts |-> Cardinality(Left(pop, P))]
<1>1. m \in Seq(Values) /\ Ascends(m) /\ input \in Seq(Values)
  BY DEF Merges, Sizes
<1>2. \A P \in Cuts : left[P] \in Nat /\ Count(input, P) = Count(m, P) + left[P]
  <2> TAKE P \in Cuts
  <2>1. left[P] = Cardinality(Left(pop, P))
    OBVIOUS
  <2> HIDE DEF left
  <2> QED
    BY <2>1, LeftIs
<1>3. ASSUME NEW k \in 1..Len(m), NEW v \in Nat, v < m[k]
      PROVE  left[0..v] = 0
  <2>1. 0..v \in Cuts
    BY DEF Cuts
  <2>2. Left(pop, 0..v) = {}
    <3> SUFFICES ASSUME NEW t \in Left(pop, 0..v)
                 PROVE  FALSE
      OBVIOUS
    <3> DEFINE i == t[1]
               x == Chunk(i)[t[2]]
    <3>1. /\ i \in Chunks /\ t[2] \in 1..chunkSize /\ t[2] <= Len(Chunk(i))
          /\ x \in 0..v /\ ~(t[2] <= pop[i])
      BY DEF Left, Taken, Tokens
    <3>2. Len(Chunk(i)) \in Nat /\ pop[i] \in Nat /\ chunkSize \in Nat
      BY <3>1, ChunkIs, NumbersAre, ChunkSizes
    <3>3. t[2] \in (pop[i] + 1)..Len(Chunk(i))
      BY <3>1, <3>2
    <3>4. m[k] <= x
      BY <3>1, <3>3 DEF Merges
    <3>5. m[k] \in Nat
      BY <1>1, NumbersAre
    <3> HIDE DEF i, x
    <3> QED
      BY <1>3, <3>1, <3>4, <3>5
  <2> QED
    BY <2>1, <2>2, FS_EmptySet
<1> HIDE DEF left
<1> QED
  BY <1>1, <1>2, <1>3, SortedBegins

\* When nothing is left, all has been merged.
LEMMA AllMerged ==
  ASSUME Sizes, NEW m, NEW pop \in [Chunks -> Nat], Merges(m, pop),
         \A i \in Chunks : pop[i] = Len(Chunk(i))
  PROVE  m = Sorted(input)
<1>1. m = SubSeq(Sorted(input), 1, Len(m))
  BY MergedBegins
<1>2. m \in Seq(Values) /\ input \in Seq(Values)
  BY DEF Merges, Sizes
<1>3. Left(pop, Nat) = {}
  BY DEF Left, Taken, Tokens
<1>4. Count(input, Nat) = Count(m, Nat)
  <2>1. Nat \in Cuts
    BY DEF Cuts
  <2>2. Cardinality(Left(pop, Nat)) = 0
    BY <1>3, FS_EmptySet
  <2> QED
    BY <1>2, <2>1, <2>2, LeftIs, CountIsNat
<1>5. Len(m) = Len(Sorted(input)) /\ Sorted(input) \in Seq(Values)
  BY <1>2, <1>4, CountAll, SortedCuts
<1> QED
  BY <1>1, <1>5, WholeSequence

-----------------------------------------------------------------------------
(***************************************************************************)
(* The inductive invariant, as long as no call has failed.  Before the     *)
(* merge the files and the buffers are written out; during the merge each  *)
(* chunk has its file and its buffer in order and at most one value in the *)
(* queue, and one if its buffer has any (MergeShape).  If the buffers fit, *)
(* the buffers hold what comes next in their chunks, and what was merged   *)
(* is what has been taken from the queue, in order (MergeData).            *)
(***************************************************************************)
Whole(i) == [data |-> Chunk(i), pos |-> 0, open |-> TRUE]
Begun(i) == [data |-> Chunk(i), pos |-> bufSize, open |-> TRUE]

AtRest == files = << >> /\ inBufs = << >> /\ queue = {} /\ output = << >> /\ outLength = 0

Chunking ==
    /\ Len(files) \in Chunks
    /\ files = [k \in 1..Len(files) |-> Whole(k - 1)]
    /\ DOMAIN memBuf = Places
    /\ inBufs = << >> /\ queue = {} /\ output = << >> /\ outLength = 0

FilledUpTo(n) ==
    /\ files = [k \in 1..numChunks |-> IF k <= n THEN Begun(k - 1) ELSE Whole(k - 1)]
    /\ inBufs = [k \in 1..n |-> [length |-> bufSize - 1, index |-> 1]]
    /\ queue = {[value |-> Chunk(i)[1], srcIndex |-> i] : i \in 0..(n - 1)}
    /\ \A i \in 0..(n - 1) :
          /\ bufSize > 0 /\ bufSize <= Len(Chunk(i))
          /\ \A k \in 1..bufSize : memBuf[Buffer(i) + k - 1] = Chunk(i)[k]
    /\ DOMAIN memBuf = Places
    /\ output = << >> /\ outLength = 0

Filling == Len(inBufs) \in Chunks /\ FilledUpTo(Len(inBufs))

Popping == {"flush", "advance"}

MergeShape ==
    /\ bufSize > 0 /\ outLength \in Nat
    /\ DOMAIN files = 1..numChunks /\ DOMAIN inBufs = 1..numChunks /\ DOMAIN memBuf = Places
    /\ \A i \in Chunks : BufferOf(Chunk(i), files[i + 1], inBufs[i + 1], bufSize)
    /\ \A item \in queue : item.srcIndex \in Chunks
    /\ \A x, y \in queue : x.srcIndex = y.srcIndex => x = y
    /\ pc \in Popping => srcIndex \in Chunks /\ Queued(srcIndex) = {}
    /\ \A i \in Chunks :
          Queued(i) = {} => inBufs[i + 1].length = 0 \/ (pc \in Popping /\ i = srcIndex)
    /\ pc = "done" => queue = {}

\* How many values of chunk i have come into the queue, and have left it.
Used(i) == files[i + 1].pos - inBufs[i + 1].length
popped == [i \in Chunks |-> IF Queued(i) = {} THEN Used(i) ELSE Used(i) - 1]

Merged == output \o Pending

Loaded(i) ==
    /\ Used(i) >= 1
    /\ \A k \in 1..inBufs[i + 1].length :
          memBuf[Buffer(i) + inBufs[i + 1].index + k - 1] = Chunk(i)[Used(i) + k]
    /\ \A item \in Queued(i) : item = [value |-> Chunk(i)[Used(i)], srcIndex |-> i]

MergeData ==
    /\ \A i \in Chunks : Loaded(i)
    /\ output \in Seq(Values)
    /\ \A k \in 1..outLength : memBuf[OutBuf + k - 1] \in Values
    /\ outLength <= bufSize - 1
    /\ pc \in {"merge", "advance"} => outLength < bufSize - 1
    /\ pc = "done" => outLength = 0
    /\ Merges(Merged, popped)

InMerge == pc \in {"merge", "flush", "advance", "done"}

SortInv ==
    /\ input \in Seq(Values) /\ memory \in Nat
    /\ pc \in {"start", "chunk", "fill", "merge", "flush", "advance", "done", "undefined"}
    /\ pc = "start" => AtRest
    /\ size = 0 => AtRest /\ pc \in {"start", "done"}
    /\ pc # "start" /\ size > 0 => memory > 0
    /\ pc = "chunk" => Chunking
    /\ pc = "fill" => Filling
    /\ InMerge /\ size > 0 => MergeShape
    /\ InMerge /\ size > 0 /\ BuffersFit => MergeData
    /\ BuffersFit => pc # "undefined"

\* The lemmas before are about the same input as long as it is not changed.
LEMMA SameInput ==
  ASSUME UNCHANGED <<input, memory>>
  PROVE  /\ size' = size /\ chunkSize' = chunkSize /\ numChunks' = numChunks
         /\ bufSize' = bufSize /\ Chunks' = Chunks /\ Places' = Places /\ OutBuf' = OutBuf
         /\ \A i : Buffer(i)' = Buffer(i)
         /\ \A i : Chunk(i)' = Chunk(i)
         /\ BuffersFit' <=> BuffersFit
         /\ \A P : Tokens(P)' = Tokens(P)
<1>1. size' = size /\ chunkSize' = chunkSize
  BY DEF size, chunkSize
<1>2. numChunks' = numChunks
  BY <1>1 DEF numChunks
<1>3. bufSize' = bufSize
  BY <1>1, <1>2 DEF bufSize
<1>4. Chunks' = Chunks /\ Places' = Places
  BY <1>1, <1>2 DEF Chunks, Places
<1>5. \A i : Buffer(i)' = Buffer(i)
  BY <1>3 DEF Buffer
<1>6. OutBuf' = OutBuf
  BY <1>2, <1>3 DEF OutBuf, Buffer
<1>7. \A i : Chunk(i)' = Chunk(i)
  BY <1>1 DEF Chunk, ChunkEnd
<1>8. BuffersFit' <=> BuffersFit
  BY <1>2, <1>3, <1>7 DEF BuffersFit
<1>9. \A P : Tokens(P)' = Tokens(P)
  BY <1>1, <1>4, <1>7 DEF Tokens
<1> QED
  BY <1>1, <1>2, <1>3, <1>4, <1>5, <1>6, <1>7, <1>8, <1>9

LEMMA MergesNow ==
  ASSUME UNCHANGED <<input, memory>>, NEW m, NEW pop, Merges(m, pop),
         Merged' = m, popped' = pop
  PROVE  Merges(Merged, popped)'
<1>1. Chunks' = Chunks /\ (\A i : Chunk(i)' = Chunk(i)) /\ (\A P : Tokens(P)' = Tokens(P))
  BY SameInput
<1> QED
  BY <1>1 DEF Merges, Taken

LEMMA SortInvInit ==
  Init => SortInv
<1> SUFFICES ASSUME Init
             PROVE  SortInv
  OBVIOUS
<1>1. input \in Seq(Values) /\ memory \in Nat
  BY SortAssumption DEF Init
<1> QED
  BY <1>1 DEF Init, SortInv, AtRest, InMerge

\* Steps to states about which the invariant says little.
LEMMA NoReturn ==
  ASSUME SortInv, UNCHANGED <<input, memory>>, pc # "start", pc' = "undefined", ~BuffersFit,
         size > 0
  PROVE  SortInv'
<1>1. size' = size /\ ~BuffersFit'
  BY SameInput
<1>2. size # 0
  BY DEF SortInv
<1> QED
  BY <1>1, <1>2 DEF SortInv, InMerge

LEMMA StaysInMerge ==
  ASSUME SortInv, UNCHANGED <<input, memory>>, Sizes, pc # "start",
         pc' \in {"merge", "flush", "advance", "done"},
         MergeShape', BuffersFit => MergeData'
  PROVE  SortInv'
<1>1. size' = size /\ (BuffersFit' <=> BuffersFit)
  BY SameInput
<1>2. size # 0 /\ size > 0 /\ size \in Nat
  BY ChunkSizes DEF Sizes
<1> QED
  BY <1>1, <1>2 DEF SortInv, InMerge

\* The merge begins after a start with a memory and something to sort.
LEMMA SomethingToSort ==
  ASSUME SortInv, pc \in {"chunk", "fill", "merge", "flush", "advance"}
  PROVE  /\ Sizes /\ size > 0 /\ pc # "start"
         /\ pc \in {"merge", "flush", "advance"} => MergeShape /\ (BuffersFit => MergeData)
<1>1. size # 0 /\ input \in Seq(Values) /\ memory \in Nat
  BY DEF SortInv
<1>2. size \in Nat
  BY <1>1, NumbersAre DEF size
<1>3. size > 0
  BY <1>1, <1>2
<1>4. Sizes
  BY <1>1, <1>3 DEF SortInv, Sizes
<1> QED
  BY <1>3, <1>4 DEF SortInv, InMerge

LEMMA StartKeeps ==
  ASSUME SortInv, Start, AllWell'
  PROVE  SortInv'
<1>1. /\ pc = "start" /\ (size = 0 \/ memory > 0)
      /\ pc' = IF size = 0 THEN "done" ELSE "chunk"
      /\ memBuf' = IF size = 0 THEN << >> ELSE [k \in Places |-> 0]
      /\ UNCHANGED <<input, memory, files, inBufs, queue, outLength, output>>
  BY DEF Start, Fail, AllWell
<1>2. input \in Seq(Values) /\ memory \in Nat /\ AtRest /\ size \in Nat
  BY <1>1, NumbersAre DEF SortInv, size
<1>3. size' = size /\ Chunks' = Chunks /\ Places' = Places
  BY <1>1, SameInput
<1>4. AtRest'
  BY <1>1, <1>2 DEF AtRest
<1>5. CASE size = 0
  BY <1>1, <1>2, <1>3, <1>4, <1>5 DEF SortInv, InMerge
<1>6. CASE size # 0
  <2>1. Sizes
    BY <1>1, <1>2, <1>6 DEF Sizes
  <2>2. pc' = "chunk" /\ DOMAIN memBuf' = Places
    BY <1>1, <1>6
  <2>3. 0 \in Chunks
    BY <2>1, ChunkSizes DEF Chunks
  <2>4. Len(files') = 0 /\ files' = << >> /\ files' = [k \in 1..0 |-> Whole(k - 1)']
    BY <1>4 DEF AtRest
  <2>5. Chunking'
    BY <1>3, <1>4, <2>2, <2>3, <2>4 DEF Chunking, AtRest
  <2> QED
    BY <1>1, <1>2, <1>3, <1>6, <2>2, <2>5 DEF SortInv, InMerge
<1> QED
  BY <1>5, <1>6

LEMMA ReadChunkKeeps ==
  ASSUME SortInv, ReadChunk, AllWell'
  PROVE  SortInv'
<1> DEFINE i == Len(files)
           ch == Chunk(i)
<1>1. pc = "chunk" /\ Sizes /\ Chunking /\ size > 0
  BY SomethingToSort DEF SortInv, ReadChunk
<1>2. /\ memBuf' = Filled(0, ch)
      /\ files' = Append(files, [data |-> SubSeq(ch, 1, Len(ch)), pos |-> 0, open |-> TRUE])
      /\ pc' = IF Len(files') = numChunks THEN "fill" ELSE "chunk"
      /\ UNCHANGED <<input, memory, inBufs, queue, srcIndex, outLength, output>>
  <2>1. PICK n \in 0..Len(ch), failed \in {"none", "fwrite", "lateFwrite"} :
          /\ IF failed = "none" THEN n = Len(ch)
                                ELSE failed \in Faults /\ n < Len(ch)
          /\ memBuf' = Filled(0, ch)
          /\ files' = Append(files, [data |-> SubSeq(ch, 1, n), pos |-> 0, open |-> TRUE])
          /\ reported' = (reported \/ failed = "fwrite")
          /\ unnoticed' = (unnoticed \/ failed = "lateFwrite")
    BY DEF ReadChunk
  <2>2. failed = "none"
    BY <2>1 DEF AllWell
  <2> HIDE DEF i, ch
  <2> QED
    BY <2>1, <2>2 DEF ReadChunk, i, ch
<1>3. i \in Chunks /\ files = [k \in 1..i |-> Whole(k - 1)] /\ DOMAIN memBuf = Places
      /\ inBufs = << >> /\ queue = {} /\ output = << >> /\ outLength = 0
  BY <1>1 DEF Chunking
<1>4. ch \in Seq(Values) /\ SubSeq(ch, 1, Len(ch)) = ch
  BY <1>1, <1>3, ChunkIs, WholeSequence
<1>5. /\ size' = size /\ numChunks' = numChunks /\ bufSize' = bufSize /\ Chunks' = Chunks
      /\ Places' = Places /\ \A j : Chunk(j)' = Chunk(j)
  BY <1>2, SameInput
<1>6. \A k : Whole(k)' = Whole(k)
  BY <1>5 DEF Whole
<1>7. files' = Append(files, Whole(i))
  BY <1>2, <1>4 DEF Whole
<1> HIDE DEF i, ch
<1>8. i \in Nat /\ numChunks \in Nat /\ i + 1 <= numChunks
  BY <1>1, <1>3, ChunkSizes DEF Chunks
<1>9. files' = [k \in 1..(i + 1) |-> Whole(k - 1)] /\ Len(files') = i + 1
  <2> DEFINE g == [k \in 1..(i + 1) |-> Whole(k - 1)]
             AnyFile == {Whole(k) : k \in Int}
  <2>1. files \in Seq(AnyFile) /\ Len(files) = i
    <3>1. files \in [1..i -> AnyFile]
      BY <1>3, <1>8
    <3> QED
      BY <1>8, <3>1 DEF i
  <2>2. Whole(i) \in AnyFile
    BY <1>8
  <2> HIDE DEF AnyFile
  <2>3. /\ files' \in Seq(AnyFile) /\ Len(files') = i + 1
        /\ \A k \in 1..i : files'[k] = files[k]
        /\ files'[i + 1] = Whole(i)
    BY <1>7, <2>1, <2>2, AppendProperties
  <2>4. files' = [k \in 1..(i + 1) |-> files'[k]]
    BY <1>8, <2>3
  <2>5. \A k \in 1..(i + 1) : files'[k] = Whole(k - 1)
    <3> TAKE k \in 1..(i + 1)
    <3>1. CASE k \in 1..i
      BY <1>3, <2>3, <3>1
    <3>2. CASE k = i + 1
      <4>1. k - 1 = i
        BY <1>8, <3>2
      <4> QED
        BY <2>3, <3>2, <4>1
    <3> QED
      BY <1>8, <3>1, <3>2
  <2>6. [k \in 1..(i + 1) |-> files'[k]] = g
    BY <2>5
  <2> QED
    BY <2>3, <2>4, <2>6
<1>10. DOMAIN memBuf' = Places
  BY <1>2, <1>3 DEF Filled
<1>11. CASE i + 1 = numChunks
  <2>1. pc' = "fill"
    BY <1>2, <1>9, <1>11
  <2>2. Len(inBufs') = 0 /\ inBufs' = << >>
    BY <1>2, <1>3
  <2>3. 0 \in Chunks
    BY <1>1, ChunkSizes DEF Chunks
  <2>4. FilledUpTo(0)'
    <3>1. files' = [k \in 1..numChunks |-> IF k <= 0 THEN Begun(k - 1)' ELSE Whole(k - 1)]
      <4>1. \A k \in 1..numChunks : ~(k <= 0)
        BY <1>8
      <4> QED
        BY <1>9, <1>11, <4>1
    <3>2. inBufs' = [k \in 1..0 |-> [length |-> bufSize - 1, index |-> 1]]
      BY <2>2
    <3>3. queue' = {[value |-> Chunk(j)[1], srcIndex |-> j] : j \in 0..(0 - 1)}
      BY <1>2, <1>3
    <3>4. \A j \in 0..(0 - 1) : FALSE
      OBVIOUS
    <3> QED
      BY <1>2, <1>3, <1>5, <1>6, <1>10, <3>1, <3>2, <3>3, <3>4 DEF FilledUpTo
  <2>5. Filling'
    BY <1>5, <2>2, <2>3, <2>4 DEF Filling
  <2>6. size # 0
    BY <1>1
  <2> QED
    BY <1>1, <1>2, <1>5, <2>1, <2>5, <2>6 DEF SortInv, InMerge
<1>12. CASE i + 1 # numChunks
  <2>1. pc' = "chunk"
    BY <1>2, <1>9, <1>12
  <2>2. i + 1 \in Chunks
    BY <1>8, <1>12 DEF Chunks
  <2>3. Chunking'
    BY <1>2, <1>3, <1>5, <1>6, <1>9, <1>10, <2>2 DEF Chunking
  <2>4. size # 0
    BY <1>1
  <2> QED
    BY <1>1, <1>2, <1>5, <2>1, <2>3, <2>4 DEF SortInv, InMerge
<1> QED
  BY <1>11, <1>12

LEMMA PendingIs ==
  ASSUME outLength \in Nat, \A k \in 1..outLength : memBuf[OutBuf + k - 1] \in Values
  PROVE  /\ Pending \in Seq(Values) /\ Len(Pending) = outLength
         /\ \A k \in 1..outLength : Pending[k] = memBuf[OutBuf + k - 1]
<1>1. Pending \in [1..outLength -> Values]
  BY DEF Pending
<1>2. Pending \in Seq(Values) /\ DOMAIN Pending = 1..outLength /\ DOMAIN Pending = 1..Len(Pending)
      /\ Len(Pending) \in Nat
  BY <1>1
<1> QED
  BY <1>2 DEF Pending

\* When every buffer has been filled the merge can begin.
LEMMA FilledIsMerge ==
  ASSUME Sizes, UNCHANGED <<input, memory>>, NEW n, n = numChunks, FilledUpTo(n)',
         pc' = "merge"
  PROVE  MergeShape' /\ (BuffersFit => MergeData')
<1>1. /\ size' = size /\ numChunks' = numChunks /\ bufSize' = bufSize /\ Chunks' = Chunks
      /\ Places' = Places /\ OutBuf' = OutBuf
      /\ \A j : Chunk(j)' = Chunk(j)
      /\ \A j : Buffer(j)' = Buffer(j)
      /\ \A j : Begun(j)' = [data |-> Chunk(j), pos |-> bufSize, open |-> TRUE]
  BY SameInput DEF Begun
<1>2. n \in Nat /\ n > 0 /\ Chunks = 0..(n - 1) /\ bufSize \in Nat
  BY ChunkSizes DEF Chunks
<1>3. /\ files' = [k \in 1..n |-> IF k <= n THEN Begun(k - 1)' ELSE Whole(k - 1)']
      /\ inBufs' = [k \in 1..n |-> [length |-> bufSize - 1, index |-> 1]]
      /\ queue' = {[value |-> Chunk(i)[1], srcIndex |-> i] : i \in Chunks}
      /\ \A i \in Chunks :
           /\ bufSize > 0 /\ bufSize <= Len(Chunk(i))
           /\ \A k \in 1..bufSize : memBuf'[Buffer(i) + k - 1] = Chunk(i)[k]
      /\ DOMAIN memBuf' = Places
      /\ output' = << >> /\ outLength' = 0
  BY <1>1, <1>2 DEF FilledUpTo
<1>4. ASSUME NEW i \in Chunks
      PROVE  /\ files'[i + 1] = [data |-> Chunk(i), pos |-> bufSize, open |-> TRUE]
             /\ inBufs'[i + 1] = [length |-> bufSize - 1, index |-> 1]
  <2>0. PICK k : k = i + 1
    OBVIOUS
  <2>1. k \in 1..n /\ k = i + 1 /\ k - 1 = i /\ k <= n
    BY <1>2, <2>0
  <2>2. files'[k] = Begun(i)' /\ inBufs'[k] = [length |-> bufSize - 1, index |-> 1]
    BY <1>3, <2>1
  <2>3. Begun(i)' = [data |-> Chunk(i), pos |-> bufSize, open |-> TRUE]
    BY <1>1
  <2> QED
    BY <2>1, <2>2, <2>3
<1>5. bufSize > 0
  <2>1. 0 \in Chunks
    BY <1>2
  <2> QED
    BY <1>3, <2>1
<1>6. \A i \in Chunks : Chunk(i) \in Seq(Values) /\ Len(Chunk(i)) \in Nat
  BY ChunkIs, NumbersAre
<1>7. \A i \in Chunks : Queued(i)' = {[value |-> Chunk(i)[1], srcIndex |-> i]}
  BY <1>3 DEF Queued
<1>8. MergeShape'
  <2>1. \A i \in Chunks : BufferOf(Chunk(i), files'[i + 1], inBufs'[i + 1], bufSize)
    BY <1>2, <1>3, <1>4, <1>5, <1>6, FirstBuffer
  <2>2. \A item \in queue' : item.srcIndex \in Chunks
    BY <1>3
  <2>3. \A x, y \in queue' : x.srcIndex = y.srcIndex => x = y
    BY <1>3
  <2>4. \A i \in Chunks : Queued(i)' # {}
    BY <1>7
  <2>5. DOMAIN files' = 1..n /\ DOMAIN inBufs' = 1..n
    BY <1>3
  <2>6. pc' \notin Popping /\ pc' # "done"
    BY DEF Popping
  <2> QED
    BY <1>1, <1>3, <1>5, <2>1, <2>2, <2>3, <2>4, <2>5, <2>6 DEF MergeShape
<1>9. ASSUME BuffersFit
      PROVE  MergeData'
  <2>0. bufSize >= 2
    BY <1>9 DEF BuffersFit
  <2>1. ASSUME NEW i \in Chunks
        PROVE  Loaded(i)' /\ Used(i)' = 1 /\ popped'[i] = 0
    <3>0. /\ files'[i + 1] = [data |-> Chunk(i), pos |-> bufSize, open |-> TRUE]
          /\ inBufs'[i + 1] = [length |-> bufSize - 1, index |-> 1]
      BY <1>4, Zenon
    <3>1. Used(i)' = 1
      <4>1. files'[i + 1].pos = bufSize /\ inBufs'[i + 1].length = bufSize - 1
        BY <3>0
      <4> QED
        BY <1>2, <4>1 DEF Used
    <3>2. \A k \in 1..(bufSize - 1) : memBuf'[Buffer(i) + 1 + k - 1] = Chunk(i)[1 + k]
      <4> TAKE k \in 1..(bufSize - 1)
      <4>1. k + 1 \in 1..bufSize /\ 1 + k = k + 1
        BY <1>2
      <4>2. memBuf'[Buffer(i) + (k + 1) - 1] = Chunk(i)[k + 1]
        BY <1>3, <4>1
      <4>3. Buffer(i) \in Int
        BY <1>2 DEF Buffer
      <4>4. Buffer(i) + 1 + k - 1 = Buffer(i) + (k + 1) - 1
        BY <4>3
      <4> QED
        BY <4>1, <4>2, <4>4
    <3>3. inBufs'[i + 1].length = bufSize - 1 /\ inBufs'[i + 1].index = 1
      BY <3>0
    <3>4. Loaded(i)'
      BY <1>1, <1>7, <3>1, <3>2, <3>3 DEF Loaded
    <3>5. popped'[i] = 0
      <4>1. Queued(i)' # {}
        BY <1>7
      <4>2. popped'[i] = IF Queued(i)' = {} THEN Used(i)' ELSE Used(i)' - 1
        BY <1>1 DEF popped
      <4> QED
        BY <3>1, <4>1, <4>2
    <3> QED
      BY <3>1, <3>4, <3>5
  <2>2. Merged' = << >>
    <3>1. Pending' = [k \in 1..0 |-> memBuf'[OutBuf' + k - 1]]
      BY <1>3 DEF Pending
    <3>2. Pending' = << >>
      BY <3>1
    <3>3. << >> \o << >> = << >>
      OBVIOUS
    <3> QED
      BY <1>3, <3>2, <3>3 DEF Merged
  <2>3. popped' = [i \in Chunks |-> 0]
    <3>1. popped' = [i \in Chunks |-> popped'[i]]
      BY <1>1 DEF popped
    <3> QED
      BY <2>1, <3>1
  <2>4. Merges(Merged, popped)'
    BY <2>2, <2>3, NothingMerged, MergesNow
  <2>5. output' \in Seq(Values) /\ 1..outLength' = {} /\ outLength' < bufSize - 1
    BY <1>2, <1>3, <2>0
  <2>6. outLength' <= bufSize - 1 /\ pc' # "done"
    BY <1>2, <1>3, <2>0
  <2> QED
    BY <1>1, <2>1, <2>4, <2>5, <2>6 DEF MergeData
<1> QED
  BY <1>8, <1>9

LEMMA WholeBegun ==
  ASSUME NEW i, bufSize \in Nat
  PROVE  [Whole(i) EXCEPT !.pos = @ + bufSize] = Begun(i)
<1>1. \A d, p, q, o : [[data |-> d, pos |-> p, open |-> o] EXCEPT !.pos = @ + q]
                       = [data |-> d, pos |-> p + q, open |-> o]
  OBVIOUS
<1>2. PICK d, z, n, o : d = Chunk(i) /\ z = 0 /\ n = bufSize /\ o = TRUE
  OBVIOUS
<1>3. Whole(i) = [data |-> d, pos |-> z, open |-> o] /\ Begun(i) = [data |-> d, pos |-> n, open |-> o]
  BY <1>2 DEF Whole, Begun
<1>4. z + n = n
  BY <1>2
<1>5. [[data |-> d, pos |-> z, open |-> o] EXCEPT !.pos = @ + n] = [data |-> d, pos |-> n, open |-> o]
  BY <1>1, <1>4
<1> QED
  BY <1>2, <1>3, <1>5, Zenon

LEMMA FillKeeps ==
  ASSUME SortInv, Fill, AllWell'
  PROVE  SortInv'
<1> DEFINE i == Len(inBufs)
           ch == Chunk(i)
           f == files[i + 1]
           new == NextOf(f)
<1>1. pc = "fill" /\ Sizes /\ Filling /\ size > 0 /\ size # 0 /\ pc # "start"
  BY SomethingToSort DEF SortInv, Fill
<1>2. /\ Len(new) = bufSize
      /\ \/ bufSize = 0 /\ pc' = "undefined"
         \/ /\ bufSize > 0
            /\ files' = [files EXCEPT ![i + 1].pos = @ + bufSize]
            /\ memBuf' = Filled(Buffer(i), new)
            /\ queue' = queue \cup {[value |-> new[1], srcIndex |-> i]}
            /\ inBufs' = Append(inBufs, [length |-> bufSize - 1, index |-> 1])
            /\ pc' = IF i + 1 = numChunks THEN "merge" ELSE "fill"
      /\ UNCHANGED <<input, memory, srcIndex, outLength, output>>
  BY DEF Fill
<1>3. /\ size' = size /\ numChunks' = numChunks /\ bufSize' = bufSize /\ Chunks' = Chunks
      /\ Places' = Places
      /\ \A j : Chunk(j)' = Chunk(j) /\ Buffer(j)' = Buffer(j)
  BY <1>2, SameInput
<1>4. \A j : Whole(j)' = Whole(j) /\ Begun(j)' = Begun(j)
  BY <1>3 DEF Whole, Begun
<1>5. /\ numChunks \in Nat /\ numChunks > 0 /\ bufSize \in Nat /\ i \in Chunks
      /\ i \in Nat /\ i + 1 <= numChunks /\ i + 1 \in 1..numChunks
  BY <1>1, ChunkSizes DEF Filling, Chunks
<1>6. CASE bufSize = 0
  <2>1. ~BuffersFit
    BY <1>6 DEF BuffersFit
  <2> QED
    BY <1>1, <1>2, <1>6, <2>1, NoReturn
<1>7. CASE bufSize > 0
  <2>1. /\ files' = [files EXCEPT ![i + 1].pos = @ + bufSize]
        /\ memBuf' = Filled(Buffer(i), new)
        /\ queue' = queue \cup {[value |-> new[1], srcIndex |-> i]}
        /\ inBufs' = Append(inBufs, [length |-> bufSize - 1, index |-> 1])
        /\ pc' = IF i + 1 = numChunks THEN "merge" ELSE "fill"
    BY <1>2, <1>7
  <2>2. /\ files = [k \in 1..numChunks |-> IF k <= i THEN Begun(k - 1) ELSE Whole(k - 1)]
        /\ inBufs = [k \in 1..i |-> [length |-> bufSize - 1, index |-> 1]]
        /\ queue = {[value |-> Chunk(j)[1], srcIndex |-> j] : j \in 0..(i - 1)}
        /\ \A j \in 0..(i - 1) :
              /\ bufSize > 0 /\ bufSize <= Len(Chunk(j))
              /\ \A k \in 1..bufSize : memBuf[Buffer(j) + k - 1] = Chunk(j)[k]
        /\ DOMAIN memBuf = Places
        /\ output = << >> /\ outLength = 0
    BY <1>1 DEF Filling, FilledUpTo
  <2>3. f = Whole(i) /\ f.data = ch /\ f.pos = 0
    <3>1. ~(i + 1 <= i) /\ i + 1 - 1 = i
      BY <1>5
    <3>2. f = Whole(i)
      BY <1>5, <2>2, <3>1
    <3> QED
      BY <3>2 DEF Whole
  <2>4. ch \in Seq(Values) /\ Len(ch) \in Nat
    BY <1>1, <1>5, ChunkIs, NumbersAre
  <2>5. /\ new \in Seq(Values) /\ Len(new) = bufSize /\ bufSize <= Len(ch)
        /\ \A k \in 1..bufSize : new[k] = ch[k]
    <3>1. f.data \in Seq(Values) /\ f.pos \in 0..Len(f.data)
      BY <2>3, <2>4
    <3> HIDE DEF f, new
    <3>2. /\ NextOf(f) \in Seq(Values)
          /\ Len(NextOf(f)) = MinLen(f.pos + bufSize, Len(f.data)) - f.pos
          /\ \A k \in 1..Len(NextOf(f)) : NextOf(f)[k] = f.data[f.pos + k]
      BY <1>5, <3>1, NextIs
    <3>3. Len(new) = bufSize /\ new = NextOf(f)
      BY <1>2 DEF new
    <3>5. bufSize <= Len(ch)
      BY <1>5, <2>3, <2>4, <3>2, <3>3 DEF MinLen
    <3>6. \A k \in 1..bufSize : 0 + k = k
      OBVIOUS
    <3> QED
      BY <2>3, <3>2, <3>3, <3>5, <3>6
  <2> HIDE DEF new, f, ch, i
  <2>6. files' = [k \in 1..numChunks |-> IF k <= i + 1 THEN Begun(k - 1) ELSE Whole(k - 1)]
    <3>1. \A k \in 1..numChunks : files'[k] = IF k <= i + 1 THEN Begun(k - 1) ELSE Whole(k - 1)
      <4> TAKE k \in 1..numChunks
      <4>1. CASE k = i + 1
        <5>1. files'[i + 1] = [Whole(i) EXCEPT !.pos = @ + bufSize]
          BY <1>5, <2>1, <2>2, <2>3 DEF f
        <5>2. [Whole(i) EXCEPT !.pos = @ + bufSize] = Begun(i)
          BY <1>5, WholeBegun
        <5>3. k - 1 = i /\ k <= i + 1
          BY <1>5, <4>1
        <5> QED
          BY <4>1, <5>1, <5>2, <5>3
      <4>2. CASE k # i + 1
        <5>1. files'[k] = files[k]
          BY <2>1, <2>2, <4>2
        <5>2. k <= i <=> k <= i + 1
          BY <1>5, <4>2
        <5> QED
          BY <2>2, <5>1, <5>2
      <4> QED
        BY <4>1, <4>2
    <3>2. files' = [k \in 1..numChunks |-> files'[k]]
      BY <2>1, <2>2
    <3>3. [k \in 1..numChunks |-> files'[k]] =
             [k \in 1..numChunks |-> IF k <= i + 1 THEN Begun(k - 1) ELSE Whole(k - 1)]
      BY <3>1
    <3> QED
      BY ONLY <3>2, <3>3
  <2>7. /\ inBufs' = [k \in 1..(i + 1) |-> [length |-> bufSize - 1, index |-> 1]]
        /\ Len(inBufs') = i + 1
    <3> DEFINE b == [length |-> bufSize - 1, index |-> 1]
    <3> HIDE DEF b
    <3>1. inBufs = [k \in 1..i |-> b] /\ inBufs' = Append(inBufs, b)
      BY <2>1, <2>2 DEF b
    <3>2. inBufs \in Seq({b}) /\ Len(inBufs) = i
      BY <1>5, <3>1 DEF i
    <3> DEFINE B == {b}
    <3>6. b \in B /\ inBufs \in Seq(B)
      BY <3>2
    <3> HIDE DEF B
    <3>3. /\ inBufs' \in Seq(B) /\ Len(inBufs') = i + 1
          /\ \A k \in 1..i : inBufs'[k] = inBufs[k]
          /\ inBufs'[i + 1] = b
      <4>1. PICK s : s = inBufs
        OBVIOUS
      <4>2. /\ Append(s, b) \in Seq(B) /\ Len(Append(s, b)) = Len(s) + 1
            /\ \A k \in 1..Len(s) : Append(s, b)[k] = s[k]
            /\ Append(s, b)[Len(s) + 1] = b
        BY <3>6, <4>1, AppendProperties
      <4> QED
        BY <3>1, <3>2, <4>1, <4>2
    <3>4. inBufs' = [k \in 1..(i + 1) |-> inBufs'[k]] /\ \A k \in 1..(i + 1) : inBufs'[k] = b
      BY <1>5, <3>3 DEF B
    <3>5. inBufs' = [k \in 1..(i + 1) |-> b]
      BY <3>4
    <3> QED
      BY <3>3, <3>5 DEF b
  <2>8. queue' = {[value |-> Chunk(j)[1], srcIndex |-> j] : j \in 0..i}
    <3>1. new[1] = Chunk(i)[1]
      <4>1. 1 \in 1..bufSize
        BY <1>5, <1>7
      <4> QED
        BY <2>5, <4>1 DEF ch
    <3>2. 0..i = (0..(i - 1)) \cup {i}
      BY <1>5
    <3> QED
      BY <2>1, <2>2, <3>1, <3>2
  <2>9. ASSUME NEW j \in 0..i
        PROVE  /\ bufSize > 0 /\ bufSize <= Len(Chunk(j))
               /\ \A k \in 1..bufSize : memBuf'[Buffer(j) + k - 1] = Chunk(j)[k]
    <3>1. Buffer(i) \in Nat /\ Buffer(j) \in Nat
      <4>1. j \in 0..numChunks /\ i \in 0..numChunks /\ 0 \in 0..(bufSize - 1)
        BY <1>5, <1>7
      <4> QED
        BY <1>1, <4>1, BuffersInMemory
    <3>2. /\ \A k \in 1..Len(new) : Buffer(i) + k - 1 \in DOMAIN memBuf
                                     => memBuf'[Buffer(i) + k - 1] = new[k]
          /\ \A a \in DOMAIN memBuf : a \notin Buffer(i)..(Buffer(i) + Len(new) - 1)
                                     => memBuf'[a] = memBuf[a]
      BY <2>1, <2>5, <3>1, FilledIs
    <3>3. ASSUME NEW k \in 1..bufSize
          PROVE  Buffer(j) + k - 1 = Buffer(j) + (k - 1) /\ Buffer(j) + k - 1 \in Places
      <4>1. k - 1 \in 0..(bufSize - 1) /\ j \in 0..numChunks
        BY <1>5
      <4>2. Buffer(j) + (k - 1) \in Places
        BY <1>1, <4>1, BuffersInMemory
      <4>3. Buffer(j) + k - 1 = Buffer(j) + (k - 1)
        BY <1>5, <3>1
      <4> QED
        BY <4>2, <4>3
    <3>4. CASE j = i
      <4>1. \A k \in 1..bufSize : memBuf'[Buffer(i) + k - 1] = Chunk(i)[k]
        BY <2>2, <2>5, <3>2, <3>3, <3>4 DEF ch
      <4> QED
        BY <1>7, <2>5, <3>4, <4>1 DEF ch
    <3>5. CASE j # i
      <4>1. j \in 0..(i - 1)
        BY <1>5, <3>5
      <4>2. ASSUME NEW k \in 1..bufSize
            PROVE  memBuf'[Buffer(j) + k - 1] = memBuf[Buffer(j) + k - 1]
        <5> DEFINE a == Buffer(j) + k - 1
        <5>1. a \in DOMAIN memBuf /\ a \in Int /\ k - 1 \in 0..(bufSize - 1) /\ a = Buffer(j) + (k - 1)
          BY <1>5, <2>2, <3>1, <3>3
        <5>2. a \notin Buffer(i)..(Buffer(i) + Len(new) - 1)
          <6> SUFFICES ASSUME a \in Buffer(i)..(Buffer(i) + bufSize - 1)
                       PROVE  FALSE
            BY <2>5
          <6>1. PICK l \in 0..(bufSize - 1) : a = Buffer(i) + l
            <7> HIDE DEF a
            <7>1. a - Buffer(i) \in 0..(bufSize - 1) /\ a = Buffer(i) + (a - Buffer(i))
              BY <1>5, <3>1, <5>1
            <7> QED
              BY <7>1
          <6>2. j \in Nat /\ i \in Nat
            BY <1>5
          <6> HIDE DEF a
          <6> QED
            BY <1>5, <3>5, <5>1, <6>1, <6>2, BuffersApart
        <5> QED
          BY <3>2, <5>1, <5>2
      <4> QED
        BY <2>2, <4>1, <4>2
    <3> QED
      BY <3>4, <3>5
  <2>10. DOMAIN memBuf' = Places
    BY <2>1, <2>2 DEF Filled
  <2>11. PICK n : n = i + 1
    OBVIOUS
  <2>12. FilledUpTo(n)'
    <3>1. n - 1 = i
      BY <1>5, <2>11
    <3> QED
      BY <1>2, <1>3, <1>4, <2>2, <2>6, <2>7, <2>8, <2>9, <2>10, <2>11, <3>1 DEF FilledUpTo
  <2>13. CASE n = numChunks
    <3>1. pc' = "merge"
      BY <2>1, <2>11, <2>13
    <3>2. MergeShape' /\ (BuffersFit => MergeData')
      BY <1>1, <1>2, <2>12, <2>13, <3>1, FilledIsMerge
    <3> QED
      BY <1>1, <1>2, <3>1, <3>2, StaysInMerge
  <2>14. CASE n # numChunks
    <3>1. pc' = "fill" /\ Len(inBufs') = n
      BY <2>1, <2>7, <2>11, <2>14
    <3>2. n \in Chunks'
      BY <1>3, <1>5, <2>11, <2>14 DEF Chunks
    <3>3. Filling'
      BY <2>12, <3>1, <3>2 DEF Filling
    <3> QED
      BY <1>1, <1>2, <1>3, <3>1, <3>3 DEF SortInv, InMerge
  <2> QED
    BY <2>13, <2>14
<1> QED
  BY <1>5, <1>6, <1>7

-----------------------------------------------------------------------------
(***************************************************************************)
(* The merge.                                                              *)
(***************************************************************************)
\* The types of a chunk's file and buffer, for the provers.
LEMMA BufferTypes ==
  ASSUME Sizes, MergeShape, NEW i \in Chunks
  PROVE  /\ Chunk(i) \in Seq(Values) /\ Len(Chunk(i)) \in Nat
         /\ BufferOf(Chunk(i), files[i + 1], inBufs[i + 1], bufSize)
         /\ files[i + 1].data = Chunk(i) /\ files[i + 1].pos \in 0..Len(Chunk(i))
         /\ inBufs[i + 1].length \in Nat /\ inBufs[i + 1].index \in Nat
         /\ inBufs[i + 1].length + inBufs[i + 1].index <= bufSize
         /\ Used(i) \in 0..Len(Chunk(i))
         /\ Used(i) = files[i + 1].pos - inBufs[i + 1].length
<1>1. Chunk(i) \in Seq(Values) /\ Len(Chunk(i)) \in Nat
  BY ChunkIs, NumbersAre
<1>2. PICK f, b : f = files[i + 1] /\ b = inBufs[i + 1]
  OBVIOUS
<1>3. BufferOf(Chunk(i), f, b, bufSize)
  BY <1>2 DEF MergeShape
<1>4. /\ f.data = Chunk(i) /\ f.pos \in 0..Len(Chunk(i))
      /\ b.length \in 0..bufSize /\ b.index \in 0..bufSize
      /\ b.length + b.index <= bufSize /\ b.length <= f.pos
  BY <1>3 DEF BufferOf
<1>5. b.length \in Nat /\ b.index \in Nat
  BY <1>4, ChunkSizes
<1>6. f.pos - b.length \in 0..Len(Chunk(i))
  BY <1>1, <1>4, <1>5
<1> QED
  BY <1>1, <1>2, <1>3, <1>4, <1>5, <1>6 DEF Used

\* A buffer that has values left is full of places in the memory.
LEMMA PlaceOfNext ==
  ASSUME Sizes, MergeShape, NEW i \in Chunks, NEW k \in 1..inBufs[i + 1].length
  PROVE  \E l \in 0..(bufSize - 1) :
            /\ Buffer(i) + inBufs[i + 1].index + k - 1 = Buffer(i) + l
            /\ Buffer(i) + l \in Places
<1>1. PICK b : b = inBufs[i + 1]
  OBVIOUS
<1>2. b.length \in Nat /\ b.index \in Nat /\ b.length + b.index <= bufSize /\ k \in 1..b.length
  BY <1>1, BufferTypes
<1>3. PICK l : l = b.index + k - 1
  OBVIOUS
<1>4. l \in 0..(bufSize - 1) /\ i \in 0..numChunks
  BY <1>2, <1>3, ChunkSizes DEF Chunks
<1>5. Buffer(i) + l \in Places /\ Buffer(i) \in Nat
  BY <1>4, BuffersInMemory
<1>6. Buffer(i) + b.index + k - 1 = Buffer(i) + l
  BY <1>2, <1>3, <1>5
<1> QED
  BY <1>1, <1>4, <1>5, <1>6

\* In a state of the merge with buffers that fit, popped is well defined.
LEMMA PoppedIs ==
  ASSUME Sizes, MergeShape, MergeData
  PROVE  /\ popped \in [Chunks -> Nat]
         /\ \A i \in Chunks : popped[i] = IF Queued(i) = {} THEN Used(i) ELSE Used(i) - 1
         /\ \A i \in Chunks : popped[i] <= Used(i)
<1>1. \A i \in Chunks : Used(i) \in Nat /\ Used(i) >= 1
  BY BufferTypes DEF MergeData, Loaded
<1>2. \A i \in Chunks : popped[i] = IF Queued(i) = {} THEN Used(i) ELSE Used(i) - 1
  BY DEF popped
<1>3. \A i \in Chunks : popped[i] \in Nat /\ popped[i] <= Used(i)
  BY <1>1, <1>2
<1>4. popped = [i \in Chunks |-> popped[i]]
  BY DEF popped
<1> QED
  BY <1>2, <1>3, <1>4

\* A chunk without a value in the queue has been used up.
LEMMA UnqueuedIsUsedUp ==
  ASSUME Sizes, MergeShape, BuffersFit, NEW i \in Chunks, Queued(i) = {}, pc \notin Popping
  PROVE  /\ Used(i) = Len(Chunk(i)) /\ ~files[i + 1].open
         /\ inBufs[i + 1].length = 0 /\ files[i + 1].pos = Len(Chunk(i))
<1>1. PICK f, b : f = files[i + 1] /\ b = inBufs[i + 1]
  OBVIOUS
<1>2. BufferOf(Chunk(i), f, b, bufSize) /\ b.length = 0 /\ bufSize > 0
  BY <1>1 DEF MergeShape
<1>3. Chunk(i) \in Seq(Values) /\ bufSize \in Nat /\ bufSize >= 2 /\ Len(Chunk(i)) % bufSize = 0
  BY BufferTypes, ChunkSizes DEF BuffersFit, Chunks
<1>4. ~f.open
  BY <1>2, <1>3 DEF BufferOf
<1>5. f.pos = Len(Chunk(i))
  BY <1>2, <1>3, <1>4, ClosedIsUsed
<1>6. Used(i) = f.pos - b.length /\ Len(Chunk(i)) \in Nat
  BY <1>1, BufferTypes
<1>7. Used(i) = Len(Chunk(i))
  BY <1>2, <1>5, <1>6
<1> QED
  BY <1>1, <1>2, <1>4, <1>5, <1>7

\* The least head is the least of all that is left.
LEMMA HeadIsLeast ==
  ASSUME Sizes, MergeShape, MergeData, BuffersFit, pc \notin Popping,
         NEW item \in Heads
  PROVE  /\ item.srcIndex \in Chunks
         /\ popped[item.srcIndex] < Len(Chunk(item.srcIndex))
         /\ item.value = Chunk(item.srcIndex)[popped[item.srcIndex] + 1]
         /\ popped[item.srcIndex] = Used(item.srcIndex) - 1
         /\ item.value \in Values
         /\ \A j \in Chunks : \A k \in (popped[j] + 1)..Len(Chunk(j)) : item.value <= Chunk(j)[k]
<1>1. item \in queue /\ item.srcIndex \in Chunks
  BY DEF Heads, MergeShape
<1>2. \A j \in Chunks : /\ Used(j) >= 1 /\ Used(j) \in 1..Len(Chunk(j)) /\ Used(j) \in Nat
                        /\ Chunk(j) \in Seq(Values) /\ Len(Chunk(j)) \in Nat
                        /\ \A x \in Queued(j) : x.value = Chunk(j)[Used(j)]
  BY BufferTypes DEF MergeData, Loaded
<1>3. \A j \in Chunks : Queued(j) # {} => popped[j] + 1 = Used(j) /\ popped[j] = Used(j) - 1
  BY <1>2, PoppedIs
<1>4. item \in Queued(item.srcIndex)
  BY <1>1 DEF Queued
<1>5. ASSUME NEW j \in Chunks, NEW k \in (popped[j] + 1)..Len(Chunk(j))
      PROVE  item.value <= Chunk(j)[k]
  <2>1. CASE Queued(j) = {}
    <3>1. popped[j] = Len(Chunk(j))
      BY <2>1, PoppedIs, UnqueuedIsUsedUp
    <3> QED
      BY <1>2, <3>1
  <2>2. CASE Queued(j) # {}
    <3>1. PICK y \in Queued(j) : TRUE
      BY <2>2
    <3>2. y \in queue /\ y.value = Chunk(j)[Used(j)] /\ item.value <= y.value
      BY <1>2, <3>1 DEF Queued, Heads
    <3>3. Chunk(j)[Used(j)] <= Chunk(j)[k]
      <4>1. Ascends(Chunk(j)) /\ DOMAIN Chunk(j) = 1..Len(Chunk(j))
        BY ChunkIs
      <4>2. Used(j) \in 1..Len(Chunk(j)) /\ k \in 1..Len(Chunk(j)) /\ Used(j) <= k
        BY <1>2, <1>3, <2>2
      <4> QED
        BY <4>1, <4>2 DEF Ascends
    <3>4. item.value \in Nat /\ y.value \in Nat /\ Chunk(j)[k] \in Nat
      <4>1. item.value = Chunk(item.srcIndex)[Used(item.srcIndex)]
        BY <1>1, <1>2, <1>4
      <4>2. k \in 1..Len(Chunk(j))
        BY <1>2, <1>3, <2>2
      <4> QED
        BY <1>1, <1>2, <3>2, <4>1, <4>2, NumbersAre
    <3> QED
      BY <3>2, <3>3, <3>4
  <2> QED
    BY <2>1, <2>2
<1>6. item.value = Chunk(item.srcIndex)[Used(item.srcIndex)]
  BY <1>1, <1>2, <1>4
<1>7. item.value \in Values
  BY <1>1, <1>2, <1>6, NumbersAre
<1>8. popped[item.srcIndex] + 1 = Used(item.srcIndex) /\ popped[item.srcIndex] = Used(item.srcIndex) - 1
  BY <1>1, <1>3, <1>4
<1>9. popped[item.srcIndex] < Len(Chunk(item.srcIndex))
  BY <1>1, <1>2, <1>8
<1> QED
  BY <1>1, <1>5, <1>6, <1>7, <1>8, <1>9

LEMMA AppendAfter ==
  ASSUME NEW s \in Seq(Values), NEW t \in Seq(Values), NEW v \in Values
  PROVE  s \o Append(t, v) = Append(s \o t, v)
<1>1. <<v>> \in Seq(Values)
  OBVIOUS
<1>2. Append(t, v) = t \o <<v>>
  BY AppendIsConcat
<1>3. s \o t \in Seq(Values)
  BY ConcatProperties
<1>4. Append(s \o t, v) = (s \o t) \o <<v>>
  BY <1>3, AppendIsConcat
<1>5. s \o (t \o <<v>>) = (s \o t) \o <<v>>
  BY <1>1, ConcatAssociative
<1> QED
  BY <1>2, <1>4, <1>5

LEMMA PopKeeps ==
  ASSUME SortInv, NEW item \in queue, Pop(item), AllWell'
  PROVE  SortInv'
<1> DEFINE i == item.srcIndex
           o == OutBuf + outLength
<1>1. /\ pc = "merge" /\ item \in Heads
      /\ IF o \in Places
         THEN /\ memBuf' = [memBuf EXCEPT ![o] = item.value]
              /\ pc' = IF outLength + 1 = bufSize - 1 THEN "flush" ELSE "advance"
         ELSE pc' = "undefined" /\ UNCHANGED memBuf
      /\ queue' = queue \ {item}
      /\ srcIndex' = i
      /\ outLength' = outLength + 1
      /\ UNCHANGED <<input, memory, files, inBufs, output, reported>>
  BY DEF Pop
<1>2. /\ Sizes /\ size > 0 /\ pc # "start" /\ MergeShape
      /\ BuffersFit => MergeData
  BY <1>1, SomethingToSort
<1>3. /\ size' = size /\ numChunks' = numChunks /\ bufSize' = bufSize /\ Chunks' = Chunks
      /\ Places' = Places /\ OutBuf' = OutBuf
      /\ \A j : Chunk(j)' = Chunk(j) /\ Buffer(j)' = Buffer(j)
  BY <1>1, SameInput
<1>4. /\ bufSize \in Nat /\ bufSize > 0 /\ numChunks \in Nat /\ outLength \in Nat
      /\ OutBuf \in Nat /\ pc \notin Popping /\ i \in Chunks
  <2>1. bufSize \in Nat /\ numChunks \in Nat
    BY <1>2, ChunkSizes
  <2>2. OutBuf \in Nat
    BY <2>1 DEF OutBuf, Buffer
  <2> QED
    BY <1>1, <1>2, <2>1, <2>2 DEF MergeShape, Popping
<1>5. BuffersFit => o \in Places /\ outLength < bufSize - 1 /\ outLength \in 0..(bufSize - 1)
  <2> SUFFICES ASSUME BuffersFit
               PROVE  o \in Places /\ outLength < bufSize - 1 /\ outLength \in 0..(bufSize - 1)
    OBVIOUS
  <2>1. outLength < bufSize - 1
    BY <1>1, <1>2 DEF MergeData
  <2>2. outLength \in 0..(bufSize - 1) /\ numChunks \in 0..numChunks
    BY <1>4, <2>1
  <2>3. Buffer(numChunks) + outLength \in Places
    BY <1>2, <2>2, BuffersInMemory
  <2> QED
    BY <2>1, <2>2, <2>3 DEF OutBuf
<1> HIDE DEF o
<1>6. CASE o \notin Places
  <2>1. ~BuffersFit /\ pc' = "undefined"
    BY <1>1, <1>5, <1>6
  <2> QED
    BY <1>1, <1>2, <2>1, NoReturn
<1>7. CASE o \in Places
  <2>1. /\ memBuf' = [memBuf EXCEPT ![o] = item.value]
        /\ pc' = IF outLength + 1 = bufSize - 1 THEN "flush" ELSE "advance"
        /\ pc' \in Popping
    BY <1>1, <1>7 DEF Popping
  <2>2. /\ Queued(i)' = {}
        /\ \A j \in Chunks : j # i => Queued(j)' = Queued(j)
    <3>1. \A x \in queue : x.srcIndex = i => x = item
      BY <1>2 DEF MergeShape
    <3>2. \A j : Queued(j)' = {x \in queue \ {item} : x.srcIndex = j}
      BY <1>1 DEF Queued
    <3> QED
      BY <3>1, <3>2 DEF Queued
  <2>3. MergeShape'
    <3>1. /\ DOMAIN files' = 1..numChunks /\ DOMAIN inBufs' = 1..numChunks /\ DOMAIN memBuf' = Places
          /\ \A j \in Chunks : BufferOf(Chunk(j), files'[j + 1], inBufs'[j + 1], bufSize)
          /\ outLength' \in Nat
      BY <1>1, <1>2, <1>4, <2>1 DEF MergeShape
    <3>2. /\ \A x \in queue' : x.srcIndex \in Chunks
          /\ \A x, y \in queue' : x.srcIndex = y.srcIndex => x = y
      BY <1>1, <1>2 DEF MergeShape
    <3>3. \A j \in Chunks : Queued(j)' = {} => inBufs'[j + 1].length = 0 \/ j = i
      <4> SUFFICES ASSUME NEW j \in Chunks, Queued(j)' = {}, j # i
                   PROVE  inBufs'[j + 1].length = 0
        OBVIOUS
      <4>1. Queued(j) = {}
        BY <2>2
      <4>2. inBufs[j + 1].length = 0
        BY <1>2, <1>4, <4>1 DEF MergeShape
      <4> QED
        BY <1>1, <4>2
    <3>4. srcIndex' \in Chunks /\ Queued(srcIndex)' = {}
      <4>1. Queued(srcIndex)' = Queued(i)'
        BY <1>1 DEF Queued
      <4> QED
        BY <1>1, <1>4, <2>2, <4>1
    <3>5. pc' # "done"
      BY <2>1
    <3> QED
      BY <1>1, <1>3, <1>4, <2>1, <3>1, <3>2, <3>3, <3>4, <3>5 DEF MergeShape
  <2>4. ASSUME BuffersFit
        PROVE  MergeData'
    <3> DEFINE v == item.value
    <3>1. /\ MergeData /\ outLength < bufSize - 1 /\ outLength \in 0..(bufSize - 1)
          /\ output \in Seq(Values)
          /\ \A k \in 1..outLength : memBuf[OutBuf + k - 1] \in Values
          /\ Merges(Merged, popped)
      BY <1>2, <1>5, <2>4 DEF MergeData
    <3>2. /\ popped[i] < Len(Chunk(i)) /\ v = Chunk(i)[popped[i] + 1] /\ popped[i] = Used(i) - 1
          /\ v \in Values
          /\ \A j \in Chunks : \A k \in (popped[j] + 1)..Len(Chunk(j)) : v <= Chunk(j)[k]
      BY <1>1, <1>2, <1>4, <2>4, <3>1, HeadIsLeast
    <3> HIDE DEF v
    <3>3. \A j : Used(j)' = Used(j)
      BY <1>1 DEF Used
    <3>4. /\ memBuf'[o] = v
          /\ \A a : a # o => memBuf'[a] = memBuf[a]
      BY <1>2, <1>7, <2>1 DEF MergeShape, v
    <3>5. ASSUME NEW j \in Chunks
          PROVE  Loaded(j)'
      <4>1. PICK b : b = inBufs[j + 1] /\ b = inBufs'[j + 1]
        BY <1>1
      <4>2. \A k \in 1..b.length : memBuf'[Buffer(j) + b.index + k - 1] = Chunk(j)[Used(j) + k]
        <5> TAKE k \in 1..b.length
        <5>1. PICK l \in 0..(bufSize - 1) : Buffer(j) + b.index + k - 1 = Buffer(j) + l
          BY <1>2, <4>1, PlaceOfNext
        <5>2. j \in Nat /\ j # numChunks
          BY <1>4 DEF Chunks
        <5>3. Buffer(j) + l # Buffer(numChunks) + outLength
          BY <1>4, <3>1, <5>2, BuffersApart
        <5>4. memBuf'[Buffer(j) + b.index + k - 1] = memBuf[Buffer(j) + b.index + k - 1]
          BY <3>4, <5>1, <5>3 DEF o, OutBuf
        <5>5. memBuf[Buffer(j) + b.index + k - 1] = Chunk(j)[Used(j) + k]
          BY <3>1, <4>1 DEF MergeData, Loaded
        <5> QED
          BY <5>4, <5>5
      <4>3. Used(j) >= 1 /\ \A x \in Queued(j) : x = [value |-> Chunk(j)[Used(j)], srcIndex |-> j]
        BY <3>1 DEF MergeData, Loaded
      <4>4. Queued(j)' \subseteq Queued(j)
        BY <1>1 DEF Queued
      <4> QED
        BY <1>3, <3>3, <4>1, <4>2, <4>3, <4>4 DEF Loaded
    <3>6. popped' = [popped EXCEPT ![i] = @ + 1]
      <4>1. popped \in [Chunks -> Nat] /\ \A j \in Chunks : popped[j] = IF Queued(j) = {} THEN Used(j) ELSE Used(j) - 1
        BY <1>2, <3>1, PoppedIs
      <4>2. \A j \in Chunks : popped'[j] = IF Queued(j)' = {} THEN Used(j) ELSE Used(j) - 1
        BY <1>3, <3>3 DEF popped
      <4>3. Used(i) \in Int /\ popped[i] + 1 = Used(i)
        BY <1>2, <1>4, <3>2, BufferTypes
      <4>4. popped'[i] = popped[i] + 1
        BY <1>4, <2>2, <4>2, <4>3
      <4>5. \A j \in Chunks : j # i => popped'[j] = popped[j]
        BY <2>2, <4>1, <4>2
      <4>6. popped' = [j \in Chunks |-> popped'[j]]
        BY <1>3 DEF popped
      <4> DEFINE q == [popped EXCEPT ![i] = @ + 1]
      <4>7. \A j \in Chunks : popped'[j] = q[j]
        BY <1>4, <4>1, <4>4, <4>5
      <4>8. q = [j \in Chunks |-> q[j]]
        BY <4>1
      <4>9. [j \in Chunks |-> popped'[j]] = [j \in Chunks |-> q[j]]
        BY <4>7
      <4> QED
        BY ONLY <4>6, <4>8, <4>9
    <3>7. Merged' = Append(Merged, v)
      <4>1. Pending \in Seq(Values) /\ Len(Pending) = outLength
            /\ \A k \in 1..outLength : Pending[k] = memBuf[OutBuf + k - 1]
        BY <1>4, <3>1, PendingIs
      <4>2. Pending' = Append(Pending, v)
        <5> DEFINE a == Append(Pending, v)
        <5>1. /\ a \in Seq(Values) /\ Len(a) = outLength + 1 /\ a[outLength + 1] = v
              /\ \A k \in 1..outLength : a[k] = Pending[k]
          BY <3>2, <4>1, AppendProperties
        <5>2. Pending' = [k \in 1..(outLength + 1) |-> memBuf'[OutBuf + k - 1]]
          BY <1>1, <1>3 DEF Pending
        <5> HIDE DEF a
        <5>3. a = [k \in 1..(outLength + 1) |-> a[k]]
          BY <1>4, <5>1
        <5>4. \A k \in 1..(outLength + 1) : memBuf'[OutBuf + k - 1] = a[k]
          <6> TAKE k \in 1..(outLength + 1)
          <6>1. CASE k = outLength + 1
            <7>1. OutBuf + k - 1 = o
              BY <1>4, <6>1 DEF o
            <7> QED
              BY <3>4, <5>1, <6>1, <7>1
          <6>2. CASE k # outLength + 1
            <7>1. k \in 1..outLength /\ OutBuf + k - 1 # o
              BY <1>4, <6>2 DEF o
            <7> QED
              BY <3>4, <4>1, <5>1, <7>1
          <6> QED
            BY <6>1, <6>2
        <5>5. [k \in 1..(outLength + 1) |-> memBuf'[OutBuf + k - 1]] = [k \in 1..(outLength + 1) |-> a[k]]
          BY <5>4
        <5> QED
          BY <5>2, <5>3, <5>5 DEF a
      <4>3. output \o Append(Pending, v) = Append(output \o Pending, v)
        BY <3>1, <3>2, <4>1, AppendAfter
      <4> QED
        BY <1>1, <4>2, <4>3 DEF Merged
    <3>8. Merges(Merged, popped)'
      <4>1. Merges(Append(Merged, v), [popped EXCEPT ![i] = @ + 1])
        BY <1>2, <1>4, <3>1, <3>2, PoppedIs, OneMerged
      <4> QED
        BY <1>1, <3>6, <3>7, <4>1, MergesNow
    <3>9. \A k \in 1..outLength' : memBuf'[OutBuf + k - 1] \in Values
      <4> TAKE k \in 1..outLength'
      <4>1. CASE OutBuf + k - 1 = o
        BY <3>2, <3>4, <4>1
      <4>2. CASE OutBuf + k - 1 # o
        <5>1. k \in 1..outLength
          BY <1>1, <1>4, <4>2 DEF o
        <5> QED
          BY <3>1, <3>4, <4>2, <5>1
      <4> QED
        BY <4>1, <4>2
    <3>10. /\ outLength' <= bufSize - 1 /\ pc' # "done"
           /\ pc' \in {"merge", "advance"} => outLength' < bufSize - 1
      BY <1>1, <1>4, <2>1, <3>1
    <3>11. \A j \in Chunks' : Loaded(j)'
      BY <1>3, <3>5
    <3>12. output' \in Seq(Values)
      BY <1>1, <3>1
    <3> QED
      BY <1>3, <3>8, <3>9, <3>10, <3>11, <3>12 DEF MergeData
  <2>5. pc' \in {"merge", "flush", "advance", "done"}
    BY <2>1
  <2> QED
    BY <1>1, <1>2, <2>3, <2>4, <2>5, StaysInMerge
<1> QED
  BY <1>6, <1>7

\* The output buffer is written.
LEMMA WrittenKeepsMerged ==
  ASSUME UNCHANGED <<input, memory, files, inBufs, queue>>, MergeData,
         output' = output \o Pending, outLength' = 0, outLength \in Nat
  PROVE  Merges(Merged, popped)' /\ output' \in Seq(Values)
<1>1. Merges(Merged, popped)
  BY DEF MergeData
<1>2. popped' = popped
  <2>1. Chunks' = Chunks
    BY SameInput
  <2>2. \A j : Used(j)' = Used(j) /\ Queued(j)' = Queued(j)
    BY DEF Used, Queued
  <2> QED
    BY <2>1, <2>2 DEF popped
<1>3. Pending \in Seq(Values) /\ output \in Seq(Values)
  BY PendingIs DEF MergeData
<1>4. output' \in Seq(Values)
  BY <1>3, ConcatProperties
<1>5. Merged' = Merged
  <2>1. Pending' = << >>
    BY DEF Pending
  <2>2. Merged' = output' \o << >>
    BY <2>1 DEF Merged
  <2>3. output' \o << >> = output'
    BY <1>4, ConcatEmptySeq
  <2> QED
    BY <2>2, <2>3 DEF Merged
<1>6. PICK m, pop : m = Merged /\ pop = popped
  OBVIOUS
<1> QED
  BY <1>1, <1>2, <1>4, <1>5, <1>6, MergesNow

\* Flush and Finish leave the chunks alone.
LEMMA ChunksStay ==
  ASSUME UNCHANGED <<input, memory, files, memBuf, inBufs, queue>>, MergeData
  PROVE  \A j \in Chunks' : Loaded(j)'
<1>1. Chunks' = Chunks /\ \A j : Chunk(j)' = Chunk(j) /\ Buffer(j)' = Buffer(j)
  BY SameInput
<1>2. \A j : Used(j)' = Used(j) /\ Queued(j)' = Queued(j)
  BY DEF Used, Queued
<1> QED
  BY <1>1, <1>2 DEF MergeData, Loaded

LEMMA FlushKeeps ==
  ASSUME SortInv, Flush, AllWell'
  PROVE  SortInv'
<1>1. /\ pc = "flush" /\ pc' = "advance"
      /\ output' = output \o Pending /\ outLength' = 0
      /\ UNCHANGED <<input, memory, files, memBuf, inBufs, queue, srcIndex>>
  BY DEF Flush, Written, AllWell
<1>2. /\ Sizes /\ size > 0 /\ pc # "start" /\ MergeShape
      /\ BuffersFit => MergeData
  BY <1>1, SomethingToSort
<1>3. /\ numChunks' = numChunks /\ bufSize' = bufSize /\ Chunks' = Chunks
      /\ Places' = Places /\ OutBuf' = OutBuf /\ \A j : Chunk(j)' = Chunk(j)
  BY <1>1, SameInput
<1>4. pc \in Popping /\ pc' \in Popping /\ pc' # "done" /\ \A j : Queued(j)' = Queued(j)
  BY <1>1 DEF Popping, Queued
<1>5. Queued(srcIndex)' = Queued(srcIndex)
  BY <1>1 DEF Queued
<1>6. MergeShape'
  BY <1>1, <1>2, <1>3, <1>4, <1>5 DEF MergeShape
<1>7. ASSUME BuffersFit
      PROVE  MergeData'
  <2>1. MergeData /\ outLength \in Nat /\ bufSize \in Nat /\ bufSize >= 2
    BY <1>2, <1>7, ChunkSizes DEF MergeShape, BuffersFit
  <2>2. Merges(Merged, popped)' /\ output' \in Seq(Values)
    BY <1>1, <2>1, WrittenKeepsMerged
  <2>3. outLength' < bufSize - 1 /\ outLength' <= bufSize - 1 /\ 1..outLength' = {}
    BY <1>1, <2>1
  <2>4. \A j \in Chunks' : Loaded(j)'
    BY <1>1, <2>1, ChunksStay
  <2> QED
    BY <1>3, <1>4, <2>2, <2>3, <2>4 DEF MergeData
<1>8. pc' \in {"merge", "flush", "advance", "done"}
  BY <1>1
<1> QED
  BY <1>1, <1>2, <1>6, <1>7, <1>8, StaysInMerge

LEMMA FinishKeeps ==
  ASSUME SortInv, Finish, AllWell'
  PROVE  SortInv'
<1>1. /\ pc = "merge" /\ pc' = "done" /\ queue = {}
      /\ IF outLength > 0 THEN output' = output \o Pending /\ outLength' = 0
                          ELSE UNCHANGED <<output, outLength>>
      /\ UNCHANGED <<input, memory, files, memBuf, inBufs, queue, srcIndex>>
  BY DEF Finish, Written, AllWell
<1>2. /\ Sizes /\ size > 0 /\ pc # "start" /\ MergeShape
      /\ BuffersFit => MergeData
  BY <1>1, SomethingToSort
<1>3. /\ numChunks' = numChunks /\ bufSize' = bufSize /\ Chunks' = Chunks
      /\ Places' = Places /\ OutBuf' = OutBuf /\ \A j : Chunk(j)' = Chunk(j)
  BY <1>1, SameInput
<1>4. pc \notin Popping /\ pc' \notin Popping /\ \A j : Queued(j)' = Queued(j)
  BY <1>1 DEF Popping, Queued
<1>5. outLength \in Nat /\ outLength' = 0
  BY <1>1, <1>2 DEF MergeShape
<1>6. MergeShape'
  BY <1>1, <1>2, <1>3, <1>4, <1>5 DEF MergeShape
<1>7. ASSUME BuffersFit
      PROVE  MergeData'
  <2>1. MergeData /\ bufSize \in Nat /\ bufSize >= 2
    BY <1>2, <1>7, ChunkSizes DEF BuffersFit
  <2>2. output' = output \o Pending
    <3>1. CASE outLength = 0
      <4>1. Pending = << >> /\ output \in Seq(Values) /\ output' = output
        BY <1>1, <2>1, <3>1 DEF Pending, MergeData
      <4> QED
        BY <4>1, ConcatEmptySeq
    <3>2. CASE outLength # 0
      <4>1. outLength > 0
        BY <1>5, <3>2
      <4> QED
        BY <1>1, <4>1
    <3> QED
      BY <3>1, <3>2
  <2>3. Merges(Merged, popped)' /\ output' \in Seq(Values)
    BY <1>1, <1>5, <2>1, <2>2, WrittenKeepsMerged
  <2>4. outLength' < bufSize - 1 /\ outLength' <= bufSize - 1 /\ 1..outLength' = {}
    BY <1>5, <2>1
  <2>5. \A j \in Chunks' : Loaded(j)'
    BY <1>1, <2>1, ChunksStay
  <2> QED
    BY <1>3, <1>5, <2>3, <2>4, <2>5 DEF MergeData
<1>8. pc' \in {"merge", "flush", "advance", "done"}
  BY <1>1
<1> QED
  BY <1>1, <1>2, <1>6, <1>7, <1>8, StaysInMerge

-----------------------------------------------------------------------------
(***************************************************************************)
(* Advance: chunk i gets its next value into the queue.                    *)
(***************************************************************************)
\* What the ways through it have in common.
Queueing(i) ==
    /\ pc = "advance" /\ pc' = "merge" /\ srcIndex = i
    /\ UNCHANGED <<input, memory, srcIndex, outLength, output, reported>>
    /\ inBufs[i + 1].length > 0
    /\ queue' = queue \cup {[value |-> memBuf[Buffer(i) + inBufs[i + 1].index], srcIndex |-> i]}
    /\ DOMAIN files' = DOMAIN files /\ DOMAIN inBufs' = DOMAIN inBufs
    /\ DOMAIN memBuf' = DOMAIN memBuf
    /\ \A k \in 1..numChunks : k # i + 1 => files'[k] = files[k] /\ inBufs'[k] = inBufs[k]
    /\ \A a \in DOMAIN memBuf : (\A l \in 0..(bufSize - 1) : a # Buffer(i) + l)
                                   => memBuf'[a] = memBuf[a]
    /\ BufferOf(Chunk(i), files'[i + 1], inBufs'[i + 1], bufSize)
    /\ Used(i)' = Used(i) + 1
    /\ Loaded(i) => \A k \in 1..inBufs'[i + 1].length :
          memBuf'[Buffer(i) + inBufs'[i + 1].index + k - 1] = Chunk(i)[Used(i) + 1 + k]

LEMMA QueueingKeeps ==
  ASSUME SortInv, NEW i, Queueing(i)
  PROVE  SortInv'
<1> DEFINE new == [value |-> memBuf[Buffer(i) + inBufs[i + 1].index], srcIndex |-> i]
<1>1. /\ pc = "advance" /\ pc' = "merge" /\ srcIndex = i
      /\ UNCHANGED <<input, memory, srcIndex, outLength, output, reported>>
      /\ queue' = queue \cup {new}
  BY DEF Queueing
<1>2. /\ Sizes /\ size > 0 /\ pc # "start" /\ MergeShape
      /\ BuffersFit => MergeData
  BY <1>1, SomethingToSort
<1>3. /\ numChunks' = numChunks /\ bufSize' = bufSize /\ Chunks' = Chunks
      /\ Places' = Places /\ OutBuf' = OutBuf
      /\ \A j : Chunk(j)' = Chunk(j) /\ Buffer(j)' = Buffer(j)
  BY <1>1, SameInput
<1>4. pc' \notin Popping /\ pc' # "done" /\ pc \in Popping
  BY <1>1 DEF Popping
<1>5. i \in Chunks /\ Queued(i) = {} /\ i \in Nat /\ bufSize \in Nat /\ numChunks \in Nat
  BY <1>1, <1>2, <1>4, ChunkSizes DEF MergeShape, Chunks
<1>6. /\ Queued(i)' = {new}
      /\ \A j : j # i => Queued(j)' = Queued(j)
  <2>1. \A j : Queued(j)' = {x \in queue \cup {new} : x.srcIndex = j}
    BY <1>1 DEF Queued
  <2>2. new.srcIndex = i
    OBVIOUS
  <2> HIDE DEF new
  <2> QED
    BY <1>5, <2>1, <2>2 DEF Queued
<1>7. ASSUME NEW j \in Chunks, j # i
      PROVE  files'[j + 1] = files[j + 1] /\ inBufs'[j + 1] = inBufs[j + 1]
  <2>1. j + 1 # i + 1 /\ j + 1 \in 1..numChunks
    BY <1>5, <1>7 DEF Chunks
  <2>2. PICK k : k = j + 1
    OBVIOUS
  <2> QED
    BY <2>1, <2>2 DEF Queueing
<1>8. MergeShape'
  <2>1. ASSUME NEW j \in Chunks
        PROVE  BufferOf(Chunk(j), files'[j + 1], inBufs'[j + 1], bufSize)
    <3>1. CASE j = i
      BY <3>1 DEF Queueing
    <3>2. CASE j # i
      <4>1. BufferOf(Chunk(j), files[j + 1], inBufs[j + 1], bufSize)
        BY <1>2 DEF MergeShape
      <4> QED
        BY <1>7, <3>2, <4>1
    <3> QED
      BY <3>1, <3>2
  <2>2. \A x \in queue' : x.srcIndex \in Chunks
    BY <1>1, <1>2, <1>5 DEF MergeShape
  <2>3. \A x, y \in queue' : x.srcIndex = y.srcIndex => x = y
    <3>1. \A x \in queue : x.srcIndex # i
      BY <1>5 DEF Queued
    <3>2. new.srcIndex = i
      OBVIOUS
    <3> HIDE DEF new
    <3> QED
      BY <1>1, <1>2, <3>1, <3>2 DEF MergeShape
  <2>4. ASSUME NEW j \in Chunks, Queued(j)' = {}
        PROVE  inBufs'[j + 1].length = 0
    <3>1. j # i
      BY <1>6, <2>4
    <3>2. Queued(j) = {}
      BY <1>6, <2>4, <3>1
    <3>3. inBufs[j + 1].length = 0
      BY <1>1, <1>2, <3>1, <3>2 DEF MergeShape
    <3> QED
      BY <1>7, <3>1, <3>3
  <2>5. /\ DOMAIN files' = 1..numChunks /\ DOMAIN inBufs' = 1..numChunks /\ DOMAIN memBuf' = Places
        /\ bufSize > 0 /\ outLength' \in Nat
    BY <1>1, <1>2 DEF MergeShape, Queueing
  <2> QED
    BY <1>3, <1>4, <2>1, <2>2, <2>3, <2>4, <2>5 DEF MergeShape
<1>9. ASSUME BuffersFit
      PROVE  MergeData'
  <2>1. MergeData /\ \A j \in Chunks : Loaded(j)
    BY <1>2, <1>9 DEF MergeData
  <2>2. ASSUME NEW j \in Chunks, j # i
        PROVE  Used(j)' = Used(j)
    BY <1>7, <2>2 DEF Used
  <2>3. ASSUME NEW j \in 0..numChunks, j # i, NEW l \in 0..(bufSize - 1)
        PROVE  memBuf'[Buffer(j) + l] = memBuf[Buffer(j) + l]
    <3>1. Buffer(j) + l \in DOMAIN memBuf
      BY <1>2, BuffersInMemory DEF MergeShape
    <3>2. \A k \in 0..(bufSize - 1) : Buffer(j) + l # Buffer(i) + k
      <4>1. j \in Nat
        BY <1>5
      <4> QED
        BY <1>5, <2>3, <4>1, BuffersApart
    <3>3. PICK a : a = Buffer(j) + l
      OBVIOUS
    <3> QED
      BY <3>1, <3>2, <3>3 DEF Queueing
  <2>4. ASSUME NEW j \in Chunks
        PROVE  Loaded(j)'
    <3>1. CASE j = i
      <4>1. Used(i)' = Used(i) + 1 /\ Used(i) >= 1 /\ Used(i) \in Nat
        BY <1>2, <1>5, <2>1, BufferTypes DEF Queueing, Loaded
      <4>2. \A k \in 1..inBufs'[i + 1].length :
              memBuf'[Buffer(i) + inBufs'[i + 1].index + k - 1] = Chunk(i)[Used(i)' + k]
        BY <1>5, <2>1, <4>1 DEF Queueing
      <4>3. new = [value |-> Chunk(i)[Used(i) + 1], srcIndex |-> i]
        <5>1. PICK b : b = inBufs[i + 1]
          OBVIOUS
        <5>2. b.length \in Nat /\ b.length > 0 /\ b.index \in Nat /\ Buffer(i) \in Nat
          <6>1. b.length \in Nat /\ b.index \in Nat /\ b.length > 0
            BY <1>2, <1>5, <5>1, BufferTypes DEF Queueing
          <6>2. Buffer(i) \in Nat
            BY <1>5 DEF Buffer
          <6> QED
            BY <6>1, <6>2
        <5>3. 1 \in 1..b.length /\ Buffer(i) + b.index + 1 - 1 = Buffer(i) + b.index
          BY <5>2
        <5>4. memBuf[Buffer(i) + b.index + 1 - 1] = Chunk(i)[Used(i) + 1]
          BY <1>5, <2>1, <5>1, <5>3 DEF Loaded
        <5> QED
          BY <5>1, <5>3, <5>4
      <4>4. \A x \in Queued(i)' : x = [value |-> Chunk(i)[Used(i)'], srcIndex |-> i]
        BY <1>6, <4>1, <4>3
      <4>5. Used(i)' >= 1
        BY <4>1
      <4> HIDE DEF new
      <4>6. Loaded(i)'
        BY <1>3, <4>2, <4>4, <4>5 DEF Loaded
      <4> QED
        BY <3>1, <4>6
    <3>2. CASE j # i
      <4>1. PICK b : b = inBufs[j + 1] /\ b = inBufs'[j + 1]
        BY <1>7, <3>2
      <4>2. \A k \in 1..b.length : memBuf'[Buffer(j) + b.index + k - 1] = Chunk(j)[Used(j) + k]
        <5> TAKE k \in 1..b.length
        <5>1. PICK l \in 0..(bufSize - 1) : Buffer(j) + b.index + k - 1 = Buffer(j) + l
          BY <1>2, <4>1, PlaceOfNext
        <5>2. j \in 0..numChunks
          BY <1>5 DEF Chunks
        <5>3. memBuf'[Buffer(j) + b.index + k - 1] = memBuf[Buffer(j) + b.index + k - 1]
          BY <2>3, <3>2, <5>1, <5>2
        <5>4. memBuf[Buffer(j) + b.index + k - 1] = Chunk(j)[Used(j) + k]
          BY <2>1, <4>1 DEF Loaded
        <5> QED
          BY <5>3, <5>4
      <4>3. Used(j) >= 1 /\ \A x \in Queued(j) : x = [value |-> Chunk(j)[Used(j)], srcIndex |-> j]
        BY <2>1 DEF Loaded
      <4>4. Queued(j)' = Queued(j) /\ Used(j)' = Used(j)
        BY <1>6, <2>2, <3>2
      <4> QED
        BY <1>3, <4>1, <4>2, <4>3, <4>4 DEF Loaded
    <3> QED
      BY <3>1, <3>2
  <2>5. popped' = popped
    <3>1. \A j \in Chunks : popped'[j] = popped[j]
      <4> TAKE j \in Chunks
      <4>1. /\ popped'[j] = IF Queued(j)' = {} THEN Used(j)' ELSE Used(j)' - 1
            /\ popped[j] = IF Queued(j) = {} THEN Used(j) ELSE Used(j) - 1
        BY <1>3 DEF popped
      <4>2. CASE j = i
        <5>1. Used(i)' = Used(i) + 1 /\ Used(i) \in Int /\ Queued(i)' # {} /\ Queued(i) = {}
          BY <1>2, <1>5, <1>6, BufferTypes DEF Queueing
        <5>2. popped'[i] = Used(i)' - 1 /\ popped[i] = Used(i)
          BY <4>1, <4>2, <5>1
        <5> QED
          BY <4>2, <5>1, <5>2
      <4>3. CASE j # i
        BY <1>6, <2>2, <4>1, <4>3
      <4> QED
        BY <4>2, <4>3
    <3>2. popped' = [j \in Chunks |-> popped'[j]] /\ popped = [j \in Chunks |-> popped[j]]
      BY <1>3 DEF popped
    <3>3. [j \in Chunks |-> popped'[j]] = [j \in Chunks |-> popped[j]]
      BY <3>1
    <3> QED
      BY ONLY <3>2, <3>3
  <2>6. outLength \in Nat /\ outLength < bufSize - 1
    BY <1>1, <1>2, <2>1 DEF MergeShape, MergeData
  <2>7. ASSUME NEW k \in 1..outLength
        PROVE  memBuf'[OutBuf + k - 1] = memBuf[OutBuf + k - 1]
    <3>1. OutBuf \in Nat /\ OutBuf = Buffer(numChunks)
      BY <1>5 DEF OutBuf, Buffer
    <3>2. PICK l \in 0..(bufSize - 1) : OutBuf + k - 1 = OutBuf + l
      <4>1. k - 1 \in 0..(bufSize - 1) /\ OutBuf + k - 1 = OutBuf + (k - 1)
        BY <1>5, <2>6, <3>1
      <4> QED
        BY <4>1
    <3>3. numChunks \in 0..numChunks /\ numChunks # i
      BY <1>5 DEF Chunks
    <3> QED
      BY <2>3, <3>1, <3>2, <3>3
  <2>8. Merged' = Merged
    <3>1. Pending' = [k \in 1..outLength |-> memBuf'[OutBuf + k - 1]]
      BY <1>1, <1>3 DEF Pending
    <3>2. Pending' = Pending
      BY <2>7, <3>1 DEF Pending
    <3> QED
      BY <1>1, <3>2 DEF Merged
  <2>9. Merges(Merged, popped)'
    <3>1. Merges(Merged, popped)
      BY <2>1 DEF MergeData
    <3> QED
      BY <1>1, <2>5, <2>8, <3>1, MergesNow
  <2>10. \A k \in 1..outLength' : memBuf'[OutBuf + k - 1] \in Values
    BY <1>1, <2>1, <2>7 DEF MergeData
  <2>11. /\ output' \in Seq(Values) /\ outLength' <= bufSize - 1 /\ outLength' < bufSize - 1
    BY <1>1, <1>5, <2>1, <2>6 DEF MergeData
  <2>12. \A j \in Chunks' : Loaded(j)'
    BY <1>3, <2>4
  <2> QED
    BY <1>3, <1>4, <2>9, <2>10, <2>11, <2>12 DEF MergeData
<1>10. pc' \in {"merge", "flush", "advance", "done"}
  BY <1>1
<1> QED
  BY <1>1, <1>2, <1>8, <1>9, <1>10, StaysInMerge

\* The buffer has more than one value left.
LEMMA NextOfBuffer ==
  ASSUME SortInv, Sizes, MergeShape, Advance, NEW i, i = srcIndex, pc' = "merge",
         inBufs[i + 1].length > 1,
         queue' = queue \cup {[value |-> memBuf[Buffer(i) + inBufs[i + 1].index], srcIndex |-> i]},
         inBufs' = [inBufs EXCEPT ![i + 1] = [length |-> inBufs[i + 1].length - 1,
                                              index |-> inBufs[i + 1].index + 1]],
         UNCHANGED <<files, memBuf>>
  PROVE  Queueing(i)
<1>1. /\ pc = "advance" /\ i \in Chunks
      /\ UNCHANGED <<input, memory, srcIndex, outLength, output, reported>>
  BY DEF Advance, MergeShape, Popping
<1>2. i + 1 \in 1..numChunks /\ DOMAIN inBufs = 1..numChunks /\ bufSize \in Nat
  BY <1>1, ChunkSizes DEF Chunks, MergeShape
<1>3. PICK n, f, b : n = i + 1 /\ f = files[n] /\ b = inBufs[n]
  OBVIOUS
<1> DEFINE c == [length |-> b.length - 1, index |-> b.index + 1]
<1>4. /\ Chunk(i) \in Seq(Values) /\ BufferOf(Chunk(i), f, b, bufSize)
      /\ b.length \in Nat /\ b.index \in Nat /\ b.length > 1 /\ f.pos \in Int
      /\ Used(i) = f.pos - b.length
  <2>1. /\ Chunk(i) \in Seq(Values)
        /\ BufferOf(Chunk(i), files[i + 1], inBufs[i + 1], bufSize)
        /\ files[i + 1].pos \in 0..Len(Chunk(i)) /\ Len(Chunk(i)) \in Nat
        /\ inBufs[i + 1].length \in Nat /\ inBufs[i + 1].index \in Nat
        /\ Used(i) = files[i + 1].pos - inBufs[i + 1].length
    BY <1>1, BufferTypes
  <2> QED
    BY <1>3, <2>1
<1>5. BufferOf(Chunk(i), f, c, bufSize)
  BY <1>2, <1>4, BufferUsed
<1>6. c.length = b.length - 1 /\ c.index = b.index + 1
  OBVIOUS
<1> HIDE DEF c
<1>7. /\ inBufs' = [inBufs EXCEPT ![n] = c] /\ n \in DOMAIN inBufs
      /\ inBufs'[n] = c /\ files'[n] = f
  BY <1>2, <1>3 DEF c
<1>8. Used(i)' = Used(i) + 1
  <2>1. Used(i)' = f.pos - c.length
    BY <1>3, <1>7 DEF Used
  <2> QED
    BY <1>4, <1>6, <2>1
<1>9. ASSUME Loaded(i), NEW k \in 1..c.length
      PROVE  memBuf'[Buffer(i) + c.index + k - 1] = Chunk(i)[Used(i) + 1 + k]
  <2>1. k + 1 \in 1..b.length
    BY <1>4, <1>6
  <2>2. PICK l : l = k + 1
    OBVIOUS
  <2>3. memBuf[Buffer(i) + b.index + l - 1] = Chunk(i)[Used(i) + l]
    BY <1>3, <1>9, <2>1, <2>2 DEF Loaded
  <2>4. Buffer(i) \in Int /\ Used(i) \in Int
    BY <1>1, <1>2, <1>4, ChunkSizes DEF Buffer, Chunks
  <2>5. k \in Int /\ b.index \in Int
    BY <1>4, <1>6
  <2>6. \A p, x, u, y \in Int : y = x + 1 => /\ p + x + (k + 1) - 1 = p + y + k - 1
                                           /\ u + (k + 1) = u + 1 + k
    BY <2>5
  <2>7. c.index \in Int /\ c.index = b.index + 1
    BY <1>6, <2>5
  <2>8. /\ Buffer(i) + b.index + (k + 1) - 1 = Buffer(i) + c.index + k - 1
        /\ Used(i) + (k + 1) = Used(i) + 1 + k
    BY <2>4, <2>5, <2>6, <2>7
  <2> QED
    BY <2>2, <2>3, <2>8
<1>10. \A k \in 1..numChunks : k # n => files'[k] = files[k] /\ inBufs'[k] = inBufs[k]
  BY <1>2, <1>7
<1>11. DOMAIN inBufs' = DOMAIN inBufs
  BY <1>7
<1>12. inBufs[n].length > 0
  BY <1>3, <1>4
<1> QED
  BY <1>1, <1>3, <1>5, <1>7, <1>8, <1>9, <1>10, <1>11, <1>12 DEF Queueing

\* The buffer has one value left, and is filled again from the file.
LEMMA RefillOfBuffer ==
  ASSUME SortInv, Sizes, MergeShape, Advance, NEW i, i = srcIndex, pc' = "merge",
         NEW f, f = files[i + 1], NEW new, new = NextOf(f),
         inBufs[i + 1].length = 1, f.open,
         queue' = queue \cup {[value |-> memBuf[Buffer(i) + inBufs[i + 1].index], srcIndex |-> i]},
         inBufs' = [inBufs EXCEPT ![i + 1] = [length |-> Len(new), index |-> 0]],
         memBuf' = Filled(Buffer(i), SubSeq(new, 1, Len(new))),
         files' = [files EXCEPT ![i + 1].pos = @ + Len(new),
                                ![i + 1].open = Len(new) = bufSize]
  PROVE  Queueing(i)
<1>1. /\ pc = "advance" /\ i \in Chunks
      /\ UNCHANGED <<input, memory, srcIndex, outLength, output, reported>>
  BY DEF Advance, MergeShape, Popping
<1>2. /\ i + 1 \in 1..numChunks /\ DOMAIN inBufs = 1..numChunks /\ DOMAIN files = 1..numChunks
      /\ bufSize \in Nat /\ bufSize > 0 /\ DOMAIN memBuf = Places
  BY <1>1, ChunkSizes DEF Chunks, MergeShape
<1>3. PICK n, b, l, ch : n = i + 1 /\ f = files[n] /\ b = inBufs[n] /\ l = Len(new) /\ ch = Chunk(i)
  OBVIOUS
<1>4. /\ ch \in Seq(Values) /\ BufferOf(ch, f, b, bufSize)
      /\ f.data = ch /\ f.pos \in 0..Len(ch) /\ Len(ch) \in Nat
      /\ b.length = 1 /\ Used(i) = f.pos - 1 /\ Used(i) \in Int
  <2>1. /\ Chunk(i) \in Seq(Values) /\ Len(Chunk(i)) \in Nat
        /\ BufferOf(Chunk(i), files[i + 1], inBufs[i + 1], bufSize)
        /\ files[i + 1].data = Chunk(i)
        /\ files[i + 1].pos \in 0..Len(Chunk(i))
        /\ Used(i) = files[i + 1].pos - inBufs[i + 1].length
    BY <1>1, BufferTypes
  <2>2. Used(i) = f.pos - 1 /\ b.length = 1
    BY <1>3, <2>1
  <2> QED
    BY <1>3, <2>1, <2>2
<1>5. /\ new \in Seq(Values) /\ l = MinLen(f.pos + bufSize, Len(ch)) - f.pos
      /\ \A k \in 1..l : new[k] = ch[f.pos + k]
  <2>1. f.data \in Seq(Values) /\ f.pos \in 0..Len(f.data)
    BY <1>4
  <2> QED
    BY <1>2, <1>3, <1>4, <2>1, NextIs
<1> DEFINE g == [data |-> ch, pos |-> f.pos + l, open |-> l = bufSize]
           c == [length |-> l, index |-> 0]
<1>6. /\ l \in 0..bufSize
      /\ BufferOf(ch, g, c, bufSize)
  BY ONLY <1>2, <1>4, <1>5, f.open, BufferRefilled, Zenon
<1>7. c.length = l /\ c.index = 0 /\ g.pos = f.pos + l
  OBVIOUS
<1>8. /\ inBufs' = [inBufs EXCEPT ![n] = c] /\ n \in DOMAIN inBufs
      /\ n \in DOMAIN files /\ inBufs'[n] = c
  BY <1>2, <1>3
<1>9. files' = [files EXCEPT ![n] = g] /\ files'[n] = g
  <2>1. f \in [data : {ch}, pos : 0..Len(ch), open : BOOLEAN]
    BY <1>4 DEF BufferOf
  <2>2. PICK p \in Nat, o \in BOOLEAN : f = [data |-> ch, pos |-> p, open |-> o]
    BY <2>1
  <2>3. \A r, m, y : [r EXCEPT !.pos = @ + m, !.open = y]
                        = [[r EXCEPT !.pos = r.pos + m] EXCEPT !.open = y]
    OBVIOUS
  <2>4. \A d, q, o1, y : /\ [[data |-> d, pos |-> q, open |-> o1] EXCEPT !.pos = y]
                                = [data |-> d, pos |-> y, open |-> o1]
                          /\ [[data |-> d, pos |-> q, open |-> o1] EXCEPT !.open = y]
                                = [data |-> d, pos |-> q, open |-> y]
    OBVIOUS
  <2>5. PICK y, m : y = (l = bufSize) /\ m = f.pos + l
    BY Zenon
  <2>6. f.pos = p
    BY <2>2
  <2>7. [[data |-> ch, pos |-> p, open |-> o] EXCEPT !.pos = m] = [data |-> ch, pos |-> m, open |-> o]
    BY ONLY <2>4
  <2>8. [[data |-> ch, pos |-> m, open |-> o] EXCEPT !.open = y] = [data |-> ch, pos |-> m, open |-> y]
    BY ONLY <2>4
  <2>9. [f EXCEPT !.pos = @ + l, !.open = y] = [[f EXCEPT !.pos = f.pos + l] EXCEPT !.open = y]
    BY ONLY <2>3, Zenon
  <2>10. [f EXCEPT !.pos = @ + l, !.open = y] = [data |-> ch, pos |-> m, open |-> y]
    BY ONLY <2>2, <2>5, <2>7, <2>8, <2>9, Zenon
  <2>11. [f EXCEPT !.pos = @ + l, !.open = (l = bufSize)] = [f EXCEPT !.pos = @ + l, !.open = y]
    BY ONLY <2>5, Zenon
  <2>12. [data |-> ch, pos |-> m, open |-> y] = g
    BY ONLY <2>5, Zenon
  <2>13. [f EXCEPT !.pos = @ + l, !.open = (l = bufSize)] = g
    BY ONLY <2>10, <2>11, <2>12, Zenon
  <2>14. files' = [files EXCEPT ![n] = [f EXCEPT !.pos = @ + l, !.open = (l = bufSize)]]
    BY <1>3
  <2> HIDE DEF g
  <2>15. files' = [files EXCEPT ![n] = g]
    BY <2>13, <2>14
  <2> QED
    BY <1>8, <2>15
<1> HIDE DEF c, g
<1>10. Used(i)' = Used(i) + 1
  <2>1. Used(i)' = g.pos - c.length
    BY <1>3, <1>8, <1>9 DEF Used
  <2>2. f.pos \in Int /\ l \in Int
    BY <1>4, <1>6
  <2> QED
    BY <1>4, <1>7, <2>1, <2>2
<1>11. Buffer(i) \in Nat /\ i \in 0..numChunks
  BY <1>1, <1>2, ChunkSizes DEF Buffer, Chunks
<1>12. PICK p \in Nat : p = Buffer(i)
  BY <1>11
<1>13. /\ DOMAIN memBuf' = DOMAIN memBuf
       /\ \A k \in 1..l : p + k - 1 \in DOMAIN memBuf => memBuf'[p + k - 1] = new[k]
       /\ \A a \in DOMAIN memBuf : a \notin p..(p + l - 1) => memBuf'[a] = memBuf[a]
  <2>1. memBuf' = Filled(p, new) /\ l = Len(new)
    BY <1>3, <1>5, <1>12, WholeSequence
  <2>2. /\ DOMAIN Filled(p, new) = DOMAIN memBuf
        /\ \A k \in 1..Len(new) : p + k - 1 \in DOMAIN memBuf => Filled(p, new)[p + k - 1] = new[k]
        /\ \A a \in DOMAIN memBuf : a \notin p..(p + Len(new) - 1) => Filled(p, new)[a] = memBuf[a]
    BY <1>5, FilledIs
  <2> QED
    BY ONLY <2>1, <2>2
<1>14. ASSUME NEW k \in 1..c.length
       PROVE  memBuf'[Buffer(i) + c.index + k - 1] = Chunk(i)[Used(i) + 1 + k]
  <2>1. k \in 1..l /\ k - 1 \in 0..(bufSize - 1) /\ k \in Int
    BY <1>2, <1>6, <1>7
  <2>2. Buffer(i) + (k - 1) \in Places
    BY <1>11, <2>1, BuffersInMemory
  <2>3. p + k - 1 = p + (k - 1) /\ p + 0 + k - 1 = p + k - 1
    BY <2>1
  <2>4. memBuf'[p + k - 1] = new[k]
    BY <1>2, <1>12, <1>13, <2>1, <2>2, <2>3
  <2>5. new[k] = ch[f.pos + k]
    BY <1>5, <2>1
  <2>6. Used(i) + 1 + k = f.pos + k
    BY <1>4, <2>1
  <2> QED
    BY <1>3, <1>7, <1>12, <2>3, <2>4, <2>5, <2>6
<1>15. ASSUME NEW a \in DOMAIN memBuf, \A m \in 0..(bufSize - 1) : a # Buffer(i) + m
       PROVE  memBuf'[a] = memBuf[a]
  <2>1. a \notin p..(p + l - 1)
    <3> SUFFICES ASSUME a \in p..(p + l - 1)
                 PROVE  FALSE
      OBVIOUS
    <3>1. a - p \in 0..(bufSize - 1) /\ a = p + (a - p)
      BY <1>2, <1>6
    <3> QED
      BY <1>12, <1>15, <3>1
  <2> QED
    BY <1>13, <2>1
<1>16. \A k \in 1..numChunks : k # n => files'[k] = files[k] /\ inBufs'[k] = inBufs[k]
  BY <1>2, <1>8, <1>9
<1>17. DOMAIN inBufs' = DOMAIN inBufs /\ DOMAIN files' = DOMAIN files
  BY <1>8, <1>9
<1>18. inBufs[n].length > 0
  BY <1>3, <1>4
<1>19. BufferOf(Chunk(i), files'[i + 1], inBufs'[i + 1], bufSize)
  BY <1>3, <1>6, <1>8, <1>9
<1>20. \A k \in 1..inBufs'[i + 1].length :
          memBuf'[Buffer(i) + inBufs'[i + 1].index + k - 1] = Chunk(i)[Used(i) + 1 + k]
  BY <1>3, <1>8, <1>14
<1> QED
  BY <1>1, <1>3, <1>10, <1>13, <1>15, <1>16, <1>17, <1>18, <1>19, <1>20 DEF Queueing

\* The buffer is empty: the chunk has been used up.
LEMMA NothingQueued ==
  ASSUME SortInv, pc = "advance", pc' = "merge", inBufs[srcIndex + 1].length = 0,
         UNCHANGED <<input, memory, files, memBuf, inBufs, queue, srcIndex, outLength, output>>
  PROVE  SortInv'
<1>1. /\ Sizes /\ size > 0 /\ pc # "start" /\ MergeShape
      /\ BuffersFit => MergeData
  BY SomethingToSort
<1>2. /\ numChunks' = numChunks /\ bufSize' = bufSize /\ Chunks' = Chunks
      /\ Places' = Places /\ OutBuf' = OutBuf
      /\ \A j : Chunk(j)' = Chunk(j) /\ Buffer(j)' = Buffer(j)
  BY SameInput
<1>3. pc' \notin Popping /\ pc' # "done" /\ pc \in Popping /\ \A j : Queued(j)' = Queued(j)
  BY DEF Popping, Queued
<1>4. MergeShape'
  <2>1. \A j \in Chunks : Queued(j) = {} => inBufs[j + 1].length = 0
    BY <1>1 DEF MergeShape
  <2> QED
    BY <1>1, <1>2, <1>3, <2>1 DEF MergeShape
<1>5. ASSUME BuffersFit
      PROVE  MergeData'
  <2>1. MergeData
    BY <1>1, <1>5
  <2>2. \A j : Used(j)' = Used(j)
    BY DEF Used
  <2>3. \A j \in Chunks' : Loaded(j)'
    BY <2>1, ChunksStay
  <2>4. popped' = popped
    BY <1>2, <1>3, <2>2 DEF popped
  <2>5. Merged' = Merged
    BY <1>2 DEF Merged, Pending
  <2>6. Merges(Merged, popped)
    BY <2>1 DEF MergeData
  <2>7. Merges(Merged, popped)'
    BY <2>4, <2>5, <2>6, MergesNow
  <2>8. \A k \in 1..outLength' : memBuf'[OutBuf' + k - 1] \in Values
    BY <1>2, <2>1 DEF MergeData
  <2> QED
    BY <1>2, <1>3, <2>1, <2>3, <2>7, <2>8 DEF MergeData
<1>6. pc' \in {"merge", "flush", "advance", "done"}
  OBVIOUS
<1> QED
  BY <1>1, <1>4, <1>5, <1>6, StaysInMerge

\* The file has been closed before its last value was queued.
LEMMA ClosedTooEarly ==
  ASSUME SortInv, Advance, pc' = "undefined",
         inBufs[srcIndex + 1].length = 1, ~files[srcIndex + 1].open
  PROVE  SortInv'
<1>1. pc = "advance" /\ UNCHANGED <<input, memory>>
  BY DEF Advance
<1>2. Sizes /\ size > 0 /\ pc # "start" /\ MergeShape
  BY <1>1, SomethingToSort
<1>3. srcIndex \in Chunks /\ bufSize \in Nat /\ bufSize > 0
  BY <1>1, <1>2, ChunkSizes DEF MergeShape, Popping
<1>4. ~BuffersFit
  <2> SUFFICES ASSUME BuffersFit
               PROVE  FALSE
    OBVIOUS
  <2>1. Len(Chunk(srcIndex)) % bufSize = 0
    BY <1>3 DEF BuffersFit, Chunks
  <2>2. /\ Chunk(srcIndex) \in Seq(Values)
        /\ BufferOf(Chunk(srcIndex), files[srcIndex + 1], inBufs[srcIndex + 1], bufSize)
    BY <1>2, <1>3, BufferTypes
  <2>3. inBufs[srcIndex + 1].length = 0
    BY <1>3, <2>1, <2>2, ClosedIsUsed
  <2> QED
    BY <2>3
<1> QED
  BY <1>1, <1>2, <1>4, NoReturn

LEMMA AdvanceKeeps ==
  ASSUME SortInv, Advance, AllWell'
  PROVE  SortInv'
<1> DEFINE i   == srcIndex
           b   == inBufs[i + 1]
           f   == files[i + 1]
           new == NextOf(f)
           Refill(n) ==
              /\ inBufs' = [inBufs EXCEPT ![i + 1] = [length |-> n, index |-> 0]]
              /\ memBuf' = Filled(Buffer(i), SubSeq(new, 1, n))
              /\ files' = [files EXCEPT ![i + 1].pos = @ + n,
                                        ![i + 1].open = n = bufSize]
              /\ unnoticed' = (unnoticed \/ n < Len(new))
           head == [value |-> memBuf[Buffer(i) + b.index], srcIndex |-> i]
<1>1. /\ pc = "advance"
      /\ UNCHANGED <<input, memory, srcIndex, outLength, output, reported>>
      /\ \/ b.length = 0 /\ pc' = "merge" /\ UNCHANGED <<files, memBuf, inBufs, queue>>
         \/ /\ b.length > 1 /\ pc' = "merge"
            /\ queue' = queue \cup {head}
            /\ inBufs' = [inBufs EXCEPT ![i + 1] = [length |-> b.length - 1,
                                                    index |-> b.index + 1]]
            /\ UNCHANGED <<files, memBuf>>
         \/ /\ b.length = 1 /\ f.open /\ pc' = "merge"
            /\ queue' = queue \cup {head}
            /\ \E n \in 0..Len(new) : Refill(n)
         \/ b.length = 1 /\ ~f.open /\ pc' = "undefined"
  BY DEF Advance
<1>2. Sizes /\ MergeShape
  BY <1>1, SomethingToSort
<1>3. CASE b.length = 0 /\ pc' = "merge" /\ UNCHANGED <<files, memBuf, inBufs, queue>>
  BY <1>1, <1>3, NothingQueued
<1>4. CASE /\ b.length > 1 /\ pc' = "merge"
           /\ queue' = queue \cup {head}
           /\ inBufs' = [inBufs EXCEPT ![i + 1] = [length |-> b.length - 1,
                                                   index |-> b.index + 1]]
           /\ UNCHANGED <<files, memBuf>>
  <2>1. Queueing(srcIndex)
    BY <1>2, <1>4, NextOfBuffer, Zenon
  <2> QED
    BY <2>1, QueueingKeeps
<1>5. CASE /\ b.length = 1 /\ f.open /\ pc' = "merge"
           /\ queue' = queue \cup {head}
           /\ \E n \in 0..Len(new) : Refill(n)
  <2>1. PICK n \in 0..Len(new) : Refill(n)
    BY <1>5
  <2>2. n = Len(new)
    <3>1. ~(n < Len(new))
      BY ONLY <2>1, AllWell' DEF AllWell, Refill
    <3>2. Len(new) \in Nat
      <4>1. i \in Chunks /\ bufSize \in Nat
        BY <1>1, <1>2, ChunkSizes DEF MergeShape, Popping
      <4>2. f.data \in Seq(Values) /\ f.pos \in 0..Len(f.data)
        BY <1>2, <4>1, BufferTypes
      <4>3. new \in Seq(Values)
        BY <4>1, <4>2, NextIs
      <4> QED
        BY <4>3
    <3>3. n \in 0..Len(new)
      BY <2>1
    <3> QED
      BY <3>1, <3>2, <3>3
  <2>3. /\ inBufs' = [inBufs EXCEPT ![i + 1] = [length |-> Len(new), index |-> 0]]
        /\ memBuf' = Filled(Buffer(i), SubSeq(new, 1, Len(new)))
        /\ files' = [files EXCEPT ![i + 1].pos = @ + Len(new),
                                  ![i + 1].open = Len(new) = bufSize]
    BY <2>1, <2>2
  <2>4. Queueing(srcIndex)
    BY <1>2, <1>5, <2>3, RefillOfBuffer, Zenon
  <2> QED
    BY <2>4, QueueingKeeps
<1>6. CASE b.length = 1 /\ ~f.open /\ pc' = "undefined"
  BY <1>6, ClosedTooEarly
<1> QED
  BY <1>1, <1>3, <1>4, <1>5, <1>6

\* Nothing changes.
LEMMA NothingChanges ==
  ASSUME SortInv, UNCHANGED vars
  PROVE  SortInv'
<1> USE DEF vars
<1>1. /\ size' = size /\ numChunks' = numChunks /\ bufSize' = bufSize /\ Chunks' = Chunks
      /\ Places' = Places /\ OutBuf' = OutBuf
      /\ \A j : Chunk(j)' = Chunk(j) /\ Buffer(j)' = Buffer(j)
      /\ BuffersFit' <=> BuffersFit
  BY SameInput
<1>2. /\ \A j : Whole(j)' = Whole(j) /\ Begun(j)' = Begun(j)
  BY <1>1 DEF Whole, Begun
<1>3. \A j : Used(j)' = Used(j) /\ Queued(j)' = Queued(j)
  BY DEF Used, Queued
<1>4. popped' = popped /\ Merged' = Merged
  BY <1>1, <1>3 DEF popped, Merged, Pending
<1>5. AtRest => AtRest'
  BY DEF AtRest
<1>6. Chunking => Chunking'
  BY <1>1, <1>2 DEF Chunking
<1>7. Filling => Filling'
  <2>1. PICK n : n = Len(inBufs)
    OBVIOUS
  <2>2. FilledUpTo(n) => FilledUpTo(n)'
    BY <1>1, <1>2 DEF FilledUpTo
  <2>3. FilledUpTo(n)' => FilledUpTo(Len(inBufs))'
    BY <2>1
  <2> QED
    BY <1>1, <2>1, <2>2, <2>3 DEF Filling
<1>8. Queued(srcIndex)' = Queued(srcIndex)
  BY DEF Queued
<1>9. MergeShape => MergeShape'
  BY <1>1, <1>3, <1>8 DEF MergeShape
<1>10. MergeData => MergeData'
  <2> SUFFICES ASSUME MergeData
               PROVE  MergeData'
    OBVIOUS
  <2>1. \A j \in Chunks' : Loaded(j)'
    BY ChunksStay
  <2>2. Merges(Merged, popped)
    BY DEF MergeData
  <2>3. Merges(Merged, popped)'
    BY <1>4, <2>2, MergesNow
  <2>4. \A k \in 1..outLength' : memBuf'[OutBuf' + k - 1] \in Values
    BY <1>1 DEF MergeData
  <2> QED
    BY <1>1, <2>1, <2>3, <2>4 DEF MergeData
<1> QED
  BY <1>1, <1>5, <1>6, <1>7, <1>9, <1>10 DEF SortInv, InMerge

LEMMA SortInvStep ==
  ASSUME ~AllWell \/ SortInv, [Next]_vars
  PROVE  (~AllWell \/ SortInv)'
<1> SUFFICES ASSUME AllWell'
             PROVE  SortInv'
  BY DEF SortInv, AllWell
<1>1. AllWell
  <2>1. CASE UNCHANGED vars
    BY <2>1 DEF vars, AllWell
  <2>2. CASE Next
    <3>1. reported => reported'
      BY <2>2 DEF Next, Start, ReadChunk, ChunkFails, Fill, FillFails, Pop, Flush, Advance,
                  Finish, Returned, Fail, Written, vars
    <3>2. unnoticed => unnoticed'
      BY <2>2 DEF Next, Start, ReadChunk, ChunkFails, Fill, FillFails, Pop, Flush, Advance,
                  Finish, Returned, Fail, Written, vars
    <3> QED
      BY <3>1, <3>2 DEF AllWell
  <2> QED
    BY <2>1, <2>2
<1>2. SortInv
  BY <1>1
<1>3. CASE UNCHANGED vars
  BY <1>2, <1>3, NothingChanges
<1>4. CASE Start
  BY <1>2, <1>4, StartKeeps
<1>5. CASE ReadChunk
  BY <1>2, <1>5, ReadChunkKeeps
<1>6. CASE ChunkFails \/ FillFails
  BY <1>6 DEF ChunkFails, FillFails, Fail, AllWell
<1>7. CASE Fill
  BY <1>2, <1>7, FillKeeps
<1>8. ASSUME NEW item \in queue, Pop(item)
      PROVE  SortInv'
  BY <1>2, <1>8, PopKeeps
<1>9. CASE Flush
  BY <1>2, <1>9, FlushKeeps
<1>10. CASE Advance
  BY <1>2, <1>10, AdvanceKeeps
<1>11. CASE Finish
  BY <1>2, <1>11, FinishKeeps
<1>12. CASE Returned
  BY <1>2, <1>12, NothingChanges DEF Returned
<1> QED
  BY <1>3, <1>4, <1>5, <1>6, <1>7, <1>8, <1>9, <1>10, <1>11, <1>12 DEF Next

\* The inductive invariant.
LEMMA SortIsInOrder ==
  Spec => [](~AllWell \/ SortInv)
<1>1. Init => ~AllWell \/ SortInv
  BY SortInvInit
<1>2. (~AllWell \/ SortInv) /\ [Next]_vars => (~AllWell \/ SortInv)'
  BY SortInvStep
<1> QED
  BY <1>1, <1>2, PTL DEF Spec

\* Something is sorted when the buffers fit.
LEMMA FitMeansSomething ==
  ASSUME SortInv, BuffersFit
  PROVE  size > 0 /\ size \in Nat
<1>1. size \in Nat /\ memory \in Nat /\ memory > 0
  BY NumbersAre DEF SortInv, size, BuffersFit
<1>2. ASSUME size = 0
      PROVE  FALSE
  <2>1. chunkSize = 0
    BY <1>1, <1>2 DEF chunkSize
  <2>2. numChunks = 0
    BY <2>1 DEF numChunks
  <2>3. bufSize = 0
    BY <2>1, <2>2 DEF bufSize
  <2> QED
    BY <2>3 DEF BuffersFit
<1> QED
  BY <1>1, <1>2

LEMMA SortedWhenDone ==
  ASSUME SortInv, pc \in Ended
  PROVE  /\ size = 0 \/ BuffersFit => /\ pc = "done"
                                     /\ output = Sorted(input)
                                     /\ \A i \in DOMAIN files : ~files[i].open
         /\ pc = "done" /\ (\A i \in DOMAIN files : ~files[i].open) => size = 0 \/ BuffersFit
<1>1. pc # "start" /\ pc # "failed" /\ size \in Nat /\ input \in Seq(Values)
  BY NumbersAre DEF SortInv, size, Ended
<1>2. CASE size = 0
  <2>1. AtRest /\ pc = "done"
    BY <1>1, <1>2 DEF SortInv
  <2>2. output = Sorted(input)
    <3>1. Sorted(input) \in Seq(Values) /\ Len(Sorted(input)) = 0
      BY <1>1, <1>2, SortedCuts DEF size
    <3>2. Sorted(input) = << >>
      BY <3>1
    <3> QED
      BY <2>1, <3>2 DEF AtRest
  <2>3. DOMAIN files = {}
    BY <2>1 DEF AtRest
  <2> QED
    BY <1>2, <2>1, <2>2, <2>3
<1>3. CASE size # 0
  <2>1. size > 0 /\ Sizes
    BY <1>1, <1>3 DEF SortInv, Sizes
  <2>2. numChunks \in Nat /\ bufSize \in Nat /\ Chunks = 0..(numChunks - 1)
    BY <2>1, ChunkSizes DEF Chunks
  <2>3. pc = "done" => /\ MergeShape /\ pc \notin Popping
                       /\ \A i \in Chunks : Queued(i) = {}
    BY <2>1 DEF SortInv, InMerge, MergeShape, Popping, Queued
  <2>4. ASSUME BuffersFit
        PROVE  /\ pc = "done"
               /\ output = Sorted(input)
               /\ \A i \in DOMAIN files : ~files[i].open
    <3>1. pc = "done"
      BY <1>1, <2>4 DEF SortInv, Ended
    <3>2. MergeShape /\ MergeData
      BY <2>1, <2>4, <3>1 DEF SortInv, InMerge
    <3>3. \A i \in Chunks : Used(i) = Len(Chunk(i)) /\ ~files[i + 1].open
      BY <2>1, <2>3, <2>4, <3>1, <3>2, UnqueuedIsUsedUp
    <3>4. popped \in [Chunks -> Nat] /\ \A i \in Chunks : popped[i] = Len(Chunk(i))
      BY <2>1, <2>3, <3>1, <3>2, <3>3, PoppedIs
    <3>5. Merged = output
      <4>1. outLength = 0 /\ output \in Seq(Values)
        BY <3>1, <3>2 DEF MergeData
      <4>2. Pending = << >>
        BY <4>1 DEF Pending
      <4> QED
        BY <4>1, <4>2, ConcatEmptySeq DEF Merged
    <3>6. output = Sorted(input)
      <4>1. Merges(output, popped)
        BY <3>2, <3>5 DEF MergeData
      <4> QED
        BY <2>1, <3>4, <4>1, AllMerged
    <3>7. ASSUME NEW n \in DOMAIN files
          PROVE  ~files[n].open
      <4>1. n - 1 \in Chunks /\ (n - 1) + 1 = n
        BY <2>2, <3>2 DEF MergeShape
      <4> QED
        BY <3>3, <4>1
    <3> QED
      BY <3>1, <3>6, <3>7
  <2>5. ASSUME pc = "done", \A i \in DOMAIN files : ~files[i].open
        PROVE  BuffersFit
    <3>1. bufSize > 0 /\ DOMAIN files = 1..numChunks
      BY <2>3, <2>5 DEF MergeShape
    <3>2. ASSUME NEW i \in Chunks
          PROVE  Len(Chunk(i)) % bufSize = 0 /\ bufSize >= 2
      <4>1. i + 1 \in DOMAIN files
        BY <2>2, <3>1
      <4>2. ~files[i + 1].open
        BY <2>5, <4>1
      <4>3. inBufs[i + 1].length = 0
        BY <2>3, <2>5 DEF MergeShape
      <4>4. /\ Chunk(i) \in Seq(Values)
            /\ BufferOf(Chunk(i), files[i + 1], inBufs[i + 1], bufSize)
        BY <2>1, <2>3, <2>5, BufferTypes
      <4> QED
        BY <2>2, <3>1, <4>2, <4>3, <4>4, UsedUpFits
    <3>3. 0 \in Chunks
      BY <2>1, <2>2, ChunkSizes
    <3>4. bufSize >= 2
      BY <3>2, <3>3
    <3> QED
      BY <2>1, <2>2, <3>2, <3>4 DEF BuffersFit, Sizes
  <2> QED
    BY <1>3, <2>4, <2>5
<1> QED
  BY <1>2, <1>3

-----------------------------------------------------------------------------
(***************************************************************************)
(* For every input, memory size and set of calls that may fail: an         *)
(* externalSort in which no call fails has, when it ends, written the      *)
(* sorted input and closed its files, if the buffers fit the chunks or     *)
(* there was nothing to sort.                                              *)
(***************************************************************************)
THEOREM SortsWhenBuffersFit ==
  Spec => []SortsWhatFits
<1>1. Spec => [](~AllWell \/ SortInv)
  BY SortIsInOrder
<1>2. ~AllWell \/ SortInv => SortsWhatFits
  BY SortedWhenDone DEF SortsWhatFits
<1> QED
  BY <1>1, <1>2, PTL

(***************************************************************************)
(* For no other sizes does externalSort come to its end with every chunk   *)
(* file read and closed: it stops, does something undefined, or leaves     *)
(* values behind in a file.                                                *)
(***************************************************************************)
THEOREM OnlyWhatFitsIsReadToTheEnd ==
  Spec => [](AllWell /\ pc = "done" /\ (\A i \in DOMAIN files : ~files[i].open)
             => size = 0 \/ BuffersFit)
<1>1. Spec => [](~AllWell \/ SortInv)
  BY SortIsInOrder
<1>2. ~AllWell \/ SortInv =>
        (AllWell /\ pc = "done" /\ (\A i \in DOMAIN files : ~files[i].open)
         => size = 0 \/ BuffersFit)
  BY SortedWhenDone DEF Ended
<1> QED
  BY <1>1, <1>2, PTL

(***************************************************************************)
(* And when they fit, what the merge of externalSort has taken from the    *)
(* queue is at every moment the beginning of the sorted input, as long as  *)
(* no call has failed.                                                     *)
(***************************************************************************)
THEOREM MergesInOrder ==
  Spec => []MergedInOrder
<1>1. Spec => [](~AllWell \/ SortInv)
  BY SortIsInOrder
<1>2. ~AllWell \/ SortInv => MergedInOrder
  <2> SUFFICES ASSUME SortInv, BuffersFit, InMerge
               PROVE  Merged = SubSeq(Sorted(input), 1, Len(Merged))
    BY DEF MergedInOrder, Merged, InMerge
  <2>1. size > 0 /\ size \in Nat
    BY FitMeansSomething
  <2>2. pc # "start" /\ Sizes /\ MergeShape /\ MergeData
    BY <2>1 DEF SortInv, InMerge, Sizes
  <2>3. popped \in [Chunks -> Nat] /\ Merges(Merged, popped)
    BY <2>2, PoppedIs DEF MergeData
  <2> QED
    BY <2>2, <2>3, MergedBegins
<1> QED
  BY <1>1, <1>2, PTL

-----------------------------------------------------------------------------
(***************************************************************************)
(* What is left of the chunks, put together by the folds of NothingLost.   *)
(***************************************************************************)
LEMMA CountConcat ==
  ASSUME NEW s \in Seq(Values), NEW t \in Seq(Values), NEW P
  PROVE  Count(s \o t, P) = Count(s, P) + Count(t, P)
<1> DEFINE a == Len(s)
           b == Len(t)
           A == {j \in DOMAIN s : s[j] \in P}
           B == {j \in DOMAIN t : t[j] \in P}
           C == {j \in DOMAIN (s \o t) : (s \o t)[j] \in P}
           Shifted == {j \in (a + 1)..(a + b) : t[j - a] \in P}
<1>1. /\ a \in Nat /\ b \in Nat /\ DOMAIN s = 1..a /\ DOMAIN t = 1..b
  BY NumbersAre
<1>2. /\ s \o t \in Seq(Values) /\ Len(s \o t) = a + b
      /\ \A j \in 1..(a + b) : (s \o t)[j] = IF j <= a THEN s[j] ELSE t[j - a]
  BY ConcatProperties
<1>3. DOMAIN (s \o t) = 1..(a + b)
  BY <1>2, NumbersAre
<1>4. IsFiniteSet(A) /\ IsFiniteSet(B)
  BY CountType
<1> HIDE DEF a, b
<1>5. C = A \cup Shifted
  <2>1. \A j \in 1..a : j \in 1..(a + b) /\ j <= a
    BY <1>1
  <2>2. \A j \in (a + 1)..(a + b) : j \in 1..(a + b) /\ ~(j <= a)
    BY <1>1
  <2>3. \A j \in 1..(a + b) : j \in 1..a \/ j \in (a + 1)..(a + b)
    BY <1>1
  <2> QED
    BY <1>1, <1>2, <1>3, <2>1, <2>2, <2>3
<1>6. A \cap Shifted = {}
  BY <1>1
<1>7. IsFiniteSet(Shifted) /\ Cardinality(Shifted) = Cardinality(B)
  <2> DEFINE f == [j \in B |-> j + a]
  <2>1. f \in [B -> Shifted]
    BY <1>1
  <2>2. \A x, y \in B : f[x] = f[y] => x = y
    BY <1>1
  <2>3. \A x \in Shifted : \E j \in B : f[j] = x
    <3> TAKE x \in Shifted
    <3>1. x - a \in B /\ (x - a) + a = x
      BY <1>1
    <3> QED
      BY <3>1
  <2> HIDE DEF f, B, Shifted
  <2> QED
    BY <1>4, <2>1, <2>2, <2>3, SameNumber
<1> HIDE DEF A, B, C, Shifted
<1>8. Cardinality(C) = Cardinality(A) + Cardinality(B)
  <2>1. Cardinality(A) \in Nat /\ Cardinality(B) \in Nat /\ Cardinality({}) = 0
    BY <1>4, FS_CardinalityType, FS_EmptySet
  <2>2. Cardinality(A \cup Shifted) = Cardinality(A) + Cardinality(Shifted) - Cardinality(A \cap Shifted)
    BY <1>4, <1>7, FS_Union
  <2>3. Cardinality(A \cap Shifted) = 0
    BY <1>6, <2>1
  <2>4. Cardinality(C) = Cardinality(A \cup Shifted)
    BY <1>5
  <2> QED
    BY ONLY <1>7, <2>1, <2>2, <2>3, <2>4
<1> QED
  BY <1>8 DEF Count, A, B, C

\* The values of a sequence from a place on.
LEMMA AscendingIsSorted ==
  ASSUME NEW s \in Seq(Values), Ascends(s)
  PROVE  Sorted(s) = s
<1> DEFINE none == [P \in Cuts |-> 0]
<1>1. \A P \in Cuts : none[P] \in Nat /\ Count(s, P) = Count(s, P) + none[P]
  BY CountIsNat
<1>2. \A k \in 1..Len(s), v \in Nat : v < s[k] => none[0..v] = 0
  BY DEF Cuts
<1> HIDE DEF none
<1>3. s = SubSeq(Sorted(s), 1, Len(s))
  BY <1>1, <1>2, SortedBegins
<1>4. Sorted(s) \in Seq(Values) /\ Len(Sorted(s)) = Len(s)
  BY SortedCuts
<1>5. SubSeq(Sorted(s), 1, Len(Sorted(s))) = Sorted(s)
  BY <1>4, WholeSequence
<1> QED
  BY <1>3, <1>4, <1>5

\* The fold that puts the head of a chunk, if one is queued, before the rest.
LEMMA HeadBefore ==
  ASSUME NEW base, NEW Q, NEW x, Q = {} \/ Q = {x}
  PROVE  FoldSet(LAMBDA item, rest : <<item.value>> \o rest, base, Q)
           = IF Q = {} THEN base ELSE <<x.value>> \o base
<1> DEFINE Iter(f) == f = [s \in SUBSET Q |-> IF s = {} THEN base
                             ELSE LET item == CHOOSE item \in s : TRUE
                                  IN  <<item.value>> \o f[s \ {item}]]
           f0 == [s \in SUBSET Q |-> IF s = {} THEN base ELSE <<x.value>> \o base]
           it == CHOOSE f : Iter(f)
<1>1. Iter(f0)
  <2>1. ASSUME NEW s \in SUBSET Q
        PROVE  f0[s] = IF s = {} THEN base
                       ELSE LET item == CHOOSE item \in s : TRUE
                            IN  <<item.value>> \o f0[s \ {item}]
    <3>1. CASE s = {}
      BY <3>1
    <3>2. CASE s # {}
      <4>1. s = {x} /\ (CHOOSE item \in s : TRUE) = x /\ {} \in SUBSET Q
        BY <3>2
      <4>2. f0[s] = <<x.value>> \o base /\ s \ {x} = {} /\ f0[{}] = base
        BY <3>2, <4>1
      <4> HIDE DEF f0
      <4> QED
        BY <3>2, <4>1, <4>2
    <3> QED
      BY <3>1, <3>2
  <2>2. f0 = [s \in SUBSET Q |-> f0[s]]
    OBVIOUS
  <2> HIDE DEF f0
  <2> QED
    BY <2>1, <2>2
<1>2. Iter(it)
  BY <1>1
<1>3. FoldSet(LAMBDA item, rest : <<item.value>> \o rest, base, Q) = it[Q]
  BY DEF FoldSet, MapThenFoldSet
<1> HIDE DEF it
<1>4. CASE Q = {}
  BY <1>2, <1>3, <1>4
<1>5. CASE Q = {x}
  <2>1. (CHOOSE item \in Q : TRUE) = x /\ Q \ {x} = {} /\ {} \in SUBSET Q /\ Q \in SUBSET Q
        /\ Q # {}
    BY <1>5
  <2>2. it[{}] = base /\ it[Q] = <<x.value>> \o it[Q \ {x}]
    BY <1>2, <2>1
  <2> QED
    BY <1>3, <2>1, <2>2
<1> QED
  BY <1>4, <1>5

\* What is left of a chunk: all that comes after what has been popped.
LEMMA RestIs ==
  ASSUME Sizes, MergeShape, MergeData, NEW i \in Chunks
  PROVE  /\ RestOf(i) \in Seq(Values)
         /\ popped[i] \in Nat /\ Len(Chunk(i)) \in Nat /\ popped[i] <= Len(Chunk(i))
         /\ Len(RestOf(i)) = Len(Chunk(i)) - popped[i]
         /\ \A k \in 1..Len(RestOf(i)) : RestOf(i)[k] = Chunk(i)[popped[i] + k]
<1>1. PICK f, b, ch, u : f = files[i + 1] /\ b = inBufs[i + 1] /\ ch = Chunk(i) /\ u = Used(i)
  OBVIOUS
<1>2. /\ ch \in Seq(Values) /\ Len(ch) \in Nat
      /\ f.data = ch /\ f.pos \in 0..Len(ch)
      /\ b.length \in Nat /\ b.index \in Nat
      /\ u \in 0..Len(ch) /\ u = f.pos - b.length
      /\ \A k \in 1..Len(ch) : ch[k] \in Values
  <2>1. /\ Chunk(i) \in Seq(Values) /\ Len(Chunk(i)) \in Nat
        /\ files[i + 1].data = Chunk(i) /\ files[i + 1].pos \in 0..Len(Chunk(i))
        /\ inBufs[i + 1].length \in Nat /\ inBufs[i + 1].index \in Nat
        /\ Used(i) \in 0..Len(Chunk(i))
        /\ Used(i) = files[i + 1].pos - inBufs[i + 1].length
    BY BufferTypes
  <2> QED
    BY <1>1, <2>1, NumbersAre
<1>3. /\ u >= 1
      /\ \A k \in 1..b.length : memBuf[Buffer(i) + b.index + k - 1] = ch[u + k]
      /\ \A item \in Queued(i) : item = [value |-> ch[u], srcIndex |-> i]
  BY <1>1 DEF MergeData, Loaded
<1> DEFINE l == b.length
           p == f.pos
           n == Len(ch)
           ur == Unread(i)
           fi == InFile(i)
           rest == ur \o fi
<1>4. /\ l \in Nat /\ p \in Nat /\ n \in Nat /\ u \in Nat /\ p <= n /\ u + l = p
      /\ u >= 1 /\ u <= n
  BY <1>2, <1>3
<1>5. /\ ur = [k \in 1..l |-> memBuf[Buffer(i) + b.index + k - 1]]
      /\ fi = SubSeq(ch, p + 1, n)
  BY <1>1, <1>2 DEF Unread, InFile
<1> HIDE DEF l, p, n, ur, fi
<1>6. /\ ur \in Seq(Values) /\ Len(ur) = l
      /\ \A k \in 1..l : ur[k] = ch[u + k]
  <2>1. \A k \in 1..l : u + k \in 1..n
    BY <1>4
  <2>2. \A k \in 1..l : ur[k] = ch[u + k]
    BY <1>3, <1>5 DEF l
  <2>3. ur \in [1..l -> Values]
    BY <1>2, <1>5, <2>1, <2>2 DEF n
  <2>4. DOMAIN ur = 1..l
    BY <2>3
  <2>5. ur \in Seq(Values)
    BY <1>4, <2>3
  <2>6. Len(ur) = l
    BY <1>4, <2>4, <2>5
  <2> QED
    BY <2>2, <2>5, <2>6
<1>7. /\ fi \in Seq(Values) /\ Len(fi) = n - p
      /\ \A k \in 1..(n - p) : fi[k] = ch[p + k]
  <2>1. PICK g \in Nat : g = p + 1
    BY <1>4
  <2>2. \A k \in g..n : ch[k] \in Values
    BY <1>2, <1>4, <2>1 DEF n
  <2>3. /\ SubSeq(ch, g, n) \in Seq(Values)
        /\ Len(SubSeq(ch, g, n)) = IF g <= n THEN n - g + 1 ELSE 0
        /\ \A k \in 1..(n - g + 1) : SubSeq(ch, g, n)[k] = ch[g + k - 1]
    BY <1>4, <2>2, SubSeqProperties
  <2>4. Len(SubSeq(ch, g, n)) = n - p /\ n - g + 1 = n - p
    BY <1>4, <2>1, <2>3
  <2>5. \A k \in 1..(n - p) : g + k - 1 = p + k
    BY <1>4, <2>1
  <2> QED
    BY <1>5, <2>1, <2>3, <2>4, <2>5
<1>8. /\ rest \in Seq(Values) /\ Len(rest) = n - u
      /\ \A k \in 1..(n - u) : rest[k] = ch[u + k]
  <2>1. /\ rest \in Seq(Values) /\ Len(rest) = l + (n - p)
        /\ \A k \in 1..(l + (n - p)) : rest[k] = IF k <= l THEN ur[k] ELSE fi[k - l]
    BY <1>6, <1>7, ConcatProperties
  <2>2. l + (n - p) = n - u
    BY <1>4
  <2> HIDE DEF rest
  <2>3. ASSUME NEW k \in 1..(n - u)
        PROVE  rest[k] = ch[u + k]
    <3>1. CASE k <= l
      <4>1. k \in 1..l
        BY <1>4, <3>1
      <4> QED
        BY <1>6, <2>1, <2>2, <3>1, <4>1
    <3>2. CASE ~(k <= l)
      <4>1. k - l \in 1..(n - p) /\ p + (k - l) = u + k
        BY <1>4, <3>2
      <4> QED
        BY <1>7, <2>1, <2>2, <3>2, <4>1
    <3> QED
      BY <3>1, <3>2
  <2> QED
    BY <2>1, <2>2, <2>3
<1> HIDE DEF rest
<1>9. popped[i] = IF Queued(i) = {} THEN u ELSE u - 1
  BY <1>1 DEF popped
<1> DEFINE x == [value |-> ch[u], srcIndex |-> i]
<1>10. Queued(i) = {} \/ Queued(i) = {x}
  BY <1>3
<1>11. RestOf(i) = IF Queued(i) = {} THEN rest ELSE <<ch[u]>> \o rest
  <2>1. RestOf(i) = FoldSet(LAMBDA item, rest_1 : <<item.value>> \o rest_1, rest, Queued(i))
    BY DEF RestOf, rest, ur, fi
  <2>2. x.value = ch[u]
    OBVIOUS
  <2> HIDE DEF x
  <2>3. FoldSet(LAMBDA item, rest_1 : <<item.value>> \o rest_1, rest, Queued(i))
           = IF Queued(i) = {} THEN rest ELSE <<x.value>> \o rest
    BY <1>10, HeadBefore
  <2> QED
    BY <2>1, <2>2, <2>3
<1> HIDE DEF x
<1>12. CASE Queued(i) = {}
  BY <1>1, <1>4, <1>8, <1>9, <1>11, <1>12 DEF n
<1>13. CASE Queued(i) # {}
  <2>1. ch[u] \in Values
    BY <1>2, <1>4 DEF n
  <2>2. <<ch[u]>> \in Seq(Values) /\ Len(<<ch[u]>>) = 1 /\ <<ch[u]>>[1] = ch[u]
    BY <2>1
  <2> DEFINE one == <<ch[u]>>
             r == RestOf(i)
  <2>3. one \in Seq(Values) /\ Len(one) = 1 /\ one[1] = ch[u] /\ r = one \o rest
    BY <1>11, <1>13, <2>2
  <2> HIDE DEF one, r
  <2>4. /\ r \in Seq(Values) /\ Len(r) = 1 + (n - u)
        /\ \A k \in 1..(1 + (n - u)) : r[k] = IF k <= 1 THEN one[k] ELSE rest[k - 1]
    <3>1. /\ one \o rest \in Seq(Values) /\ Len(one \o rest) = Len(one) + Len(rest)
          /\ \A k \in 1..(Len(one) + Len(rest)) :
                (one \o rest)[k] = IF k <= Len(one) THEN one[k] ELSE rest[k - Len(one)]
      BY <1>8, <2>3, ConcatProperties
    <3>2. Len(one) = 1 /\ Len(rest) = n - u /\ r = one \o rest
      BY <1>8, <2>3
    <3> QED
      BY ONLY <3>1, <3>2
  <2>5. popped[i] = u - 1 /\ u - 1 \in Nat /\ 1 + (n - u) = n - (u - 1) /\ u - 1 <= n
    BY <1>4, <1>9, <1>13
  <2>6. ASSUME NEW k \in 1..(1 + (n - u))
        PROVE  r[k] = ch[(u - 1) + k]
    <3>1. CASE k = 1
      <4>1. (u - 1) + 1 = u
        BY <1>4
      <4> QED
        BY <2>3, <2>4, <3>1, <4>1
    <3>2. CASE k # 1
      <4>1. k - 1 \in 1..(n - u) /\ ~(k <= 1) /\ u + (k - 1) = (u - 1) + k
        BY <1>4, <3>2
      <4> QED
        BY <1>8, <2>4, <4>1
    <3> QED
      BY <3>1, <3>2
  <2> QED
    BY <1>1, <1>4, <2>4, <2>5, <2>6 DEF r, n
<1> QED
  BY <1>12, <1>13

LEMMA RestAscends ==
  ASSUME Sizes, MergeShape, MergeData, NEW i \in Chunks
  PROVE  Sorted(RestOf(i)) = RestOf(i)
<1> DEFINE r == RestOf(i)
           ch == Chunk(i)
           p == popped[i]
<1>1. /\ r \in Seq(Values) /\ p \in Nat /\ Len(ch) \in Nat /\ p <= Len(ch) /\ Len(r) = Len(ch) - p
      /\ \A k \in 1..Len(r) : r[k] = ch[p + k]
  BY RestIs
<1>2. Ascends(ch) /\ DOMAIN ch = 1..Len(ch)
  BY ChunkIs
<1>3. DOMAIN r = 1..Len(r)
  BY <1>1, NumbersAre
<1> HIDE DEF r, ch, p
<1>4. Ascends(r)
  <2> SUFFICES ASSUME NEW j \in DOMAIN r, NEW k \in DOMAIN r, j <= k
               PROVE  r[j] <= r[k]
    BY DEF Ascends
  <2>1. p + j \in 1..Len(ch) /\ p + k \in 1..Len(ch) /\ p + j <= p + k
    BY <1>1, <1>3
  <2>2. ch[p + j] <= ch[p + k]
    BY <1>2, <2>1 DEF Ascends
  <2> QED
    BY <1>1, <1>3, <2>2
<1>5. Sorted(r) = r
  BY <1>1, <1>4, AscendingIsSorted
<1> QED
  BY <1>5 DEF r

\* What is left, of the chunks in T.
LeftIn(T, P) == {t \in Left(popped, P) : t[1] \in T}

LEMMA RestCount ==
  ASSUME Sizes, MergeShape, MergeData, NEW i \in Chunks, NEW P \in Cuts
  PROVE  Count(RestOf(i), P) = Cardinality(LeftIn({i}, P))
<1> DEFINE r == RestOf(i)
           ch == Chunk(i)
           p == popped[i]
           D == {j \in DOMAIN r : r[j] \in P}
           f == [j \in D |-> <<i, p + j>>]
           c == chunkSize
<1>1. /\ r \in Seq(Values) /\ p \in Nat /\ Len(ch) \in Nat /\ p <= Len(ch) /\ Len(r) = Len(ch) - p
      /\ \A k \in 1..Len(r) : r[k] = ch[p + k]
  BY RestIs
<1>2. DOMAIN r = 1..Len(r) /\ Len(ch) \in 1..c /\ c \in Nat
  BY <1>1, NumbersAre, ChunkIs, ChunkSizes
<1>3. IsFiniteSet(D)
  BY <1>1, CountType
<1>4. \A t : t \in LeftIn({i}, P) <=> /\ t \in Chunks \X (1..c) /\ t[1] = i
                                      /\ t[2] <= Len(ch) /\ ch[t[2]] \in P /\ ~(t[2] <= p)
  BY DEF LeftIn, Left, Taken, Tokens
<1> HIDE DEF r, ch, p, c
<1>5. f \in [D -> LeftIn({i}, P)]
  <2>1. ASSUME NEW j \in D
        PROVE  <<i, p + j>> \in LeftIn({i}, P)
    <3>1. j \in 1..Len(r) /\ ch[p + j] \in P
      BY <1>1, <1>2
    <3>2. p + j \in 1..c /\ p + j <= Len(ch) /\ ~(p + j <= p)
      BY <1>1, <1>2, <3>1
    <3> QED
      BY <1>4, <3>1, <3>2
  <2> QED
    BY <2>1
<1>6. \A j, k \in D : f[j] = f[k] => j = k
  BY <1>1, <1>2
<1>7. \A t \in LeftIn({i}, P) : \E j \in D : f[j] = t
  <2> TAKE t \in LeftIn({i}, P)
  <2>1. /\ t \in Chunks \X (1..c) /\ t[1] = i
        /\ t[2] <= Len(ch) /\ ch[t[2]] \in P /\ ~(t[2] <= p)
    BY <1>4
  <2>2. t = <<i, t[2]>> /\ t[2] \in 1..c
    BY <2>1
  <2>3. t[2] - p \in 1..Len(r) /\ p + (t[2] - p) = t[2]
    BY <1>1, <1>2, <2>1, <2>2
  <2>4. t[2] - p \in D
    BY <1>1, <1>2, <2>1, <2>3
  <2> QED
    BY <2>2, <2>3, <2>4
<1> HIDE DEF D, f
<1>8. Cardinality(LeftIn({i}, P)) = Cardinality(D)
  BY <1>3, <1>5, <1>6, <1>7, SameNumber
<1> QED
  BY <1>8 DEF Count, D, r

\* What is left of the chunks in s after base, put together in some order.
Gathers(f, base, S) ==
    \A s \in SUBSET S : f[s] = IF s = {} THEN base
                               ELSE LET i == CHOOSE i \in s : TRUE
                                    IN  f[s \ {i}] \o RestOf(i)

LEMMA GatheredIsFold ==
  ASSUME NEW base \in Seq(Values), NEW S, IsFiniteSet(S), \A i \in S : RestOf(i) \in Seq(Values)
  PROVE  \E f : /\ Gathers(f, base, S)
                /\ FoldSet(LAMBDA i, all : all \o RestOf(i), base, S) = f[S]
<1> DEFINE Iter(f) == f = [s \in SUBSET S |-> IF s = {} THEN base
                             ELSE LET i == CHOOSE i \in s : TRUE
                                  IN  f[s \ {i}] \o RestOf(i)]
           c == [s \in SUBSET S |-> CHOOSE i \in s : TRUE]
           step == [i \in S |-> [v \in Seq(Values) |-> v \o RestOf(i)]]
           it == CHOOSE f : Iter(f)
<1>1. PICK f \in [SUBSET S -> Seq(Values)] :
         \A s \in SUBSET S : f[s] = IF s = {} THEN base ELSE step[c[s]][f[s \ {c[s]}]]
  <2>1. Chooses(c, S)
    BY DEF Chooses
  <2>2. StepsIn(step, S, Seq(Values))
    BY ConcatProperties DEF StepsIn
  <2> HIDE DEF c, step
  <2>3. \E f : IsFold(f, S, Seq(Values), base, c, step)
    BY <2>1, <2>2, FoldExists
  <2> QED
    BY <2>3 DEF IsFold
<1>2. ASSUME NEW s \in SUBSET S, s # {}
      PROVE  f[s] = f[s \ {CHOOSE i \in s : TRUE}] \o RestOf(CHOOSE i \in s : TRUE)
  <2>1. PICK i : i = CHOOSE j \in s : TRUE
    OBVIOUS
  <2>2. i \in s /\ i \in S /\ c[s] = i /\ s \ {i} \in SUBSET S
    BY <1>2, <2>1
  <2>3. f[s \ {i}] \in Seq(Values)
    BY <2>2
  <2>4. f[s] = step[i][f[s \ {i}]]
    BY <1>1, <1>2, <2>2
  <2>5. f[s] = f[s \ {i}] \o RestOf(i)
    BY <2>2, <2>3, <2>4
  <2> QED
    BY <2>1, <2>5
<1>3. f[{}] = base
  <2>1. {} \in SUBSET S
    OBVIOUS
  <2> QED
    BY <1>1, <2>1
<1>4. Iter(f)
  <2>1. f = [s \in SUBSET S |-> f[s]]
    OBVIOUS
  <2>2. ASSUME NEW s \in SUBSET S
        PROVE  f[s] = IF s = {} THEN base ELSE LET i == CHOOSE i \in s : TRUE
                                               IN  f[s \ {i}] \o RestOf(i)
    BY <1>2, <1>3
  <2> QED
    BY <2>1, <2>2, Zenon
<1>5. Iter(it)
  BY <1>4
<1>6. FoldSet(LAMBDA i, all : all \o RestOf(i), base, S) = it[S]
  BY DEF FoldSet, MapThenFoldSet
<1> HIDE DEF it
<1>7. Gathers(it, base, S)
  BY <1>5 DEF Gathers
<1> QED
  BY <1>6, <1>7

LEMMA GatheredCount ==
  ASSUME Sizes, MergeShape, MergeData, NEW base \in Seq(Values), NEW P \in Cuts,
         IsFiniteSet(Left(popped, P)),
         NEW f, Gathers(f, base, Chunks)
  PROVE  /\ f[Chunks] \in Seq(Values)
         /\ Count(f[Chunks], P) = Count(base, P) + Cardinality(Left(popped, P))
<1> DEFINE D == {s \in SUBSET Chunks :
                   /\ f[s] \in Seq(Values)
                   /\ Count(f[s], P) = Count(base, P) + Cardinality(LeftIn(s, P))}
<1>1. IsFiniteSet(Chunks)
  BY ChunkSizes, FS_Interval DEF Chunks
<1>2. \A T : LeftIn(T, P) \subseteq Left(popped, P) /\ IsFiniteSet(LeftIn(T, P))
             /\ Cardinality(LeftIn(T, P)) \in Nat
  <2>1. \A T : LeftIn(T, P) \subseteq Left(popped, P)
    BY DEF LeftIn
  <2>2. \A T : IsFiniteSet(LeftIn(T, P))
    BY <2>1, FS_Subset
  <2> QED
    BY <2>1, <2>2, FS_CardinalityType
<1>3. Count(base, P) \in Nat
  BY CountIsNat
<1>4. ASSUME NEW s \in SUBSET Chunks, \A x \in s : s \ {x} \in D
      PROVE  s \in D
  <2>1. CASE s = {}
    <3>1. f[s] = base
      BY <2>1 DEF Gathers
    <3>2. LeftIn(s, P) = {}
      BY <2>1 DEF LeftIn
    <3>3. Cardinality(LeftIn(s, P)) = 0
      BY <3>2, FS_EmptySet
    <3> QED
      BY <1>3, <3>1, <3>3
  <2>2. CASE s # {}
    <3>1. PICK i \in s : f[s] = f[s \ {i}] \o RestOf(i)
      BY <2>2 DEF Gathers
    <3>2. i \in Chunks /\ s \ {i} \in D
      BY <1>4
    <3> DEFINE g == f[s \ {i}]
               r == RestOf(i)
    <3>3. /\ g \in Seq(Values)
          /\ Count(g, P) = Count(base, P) + Cardinality(LeftIn(s \ {i}, P))
      BY <3>2
    <3>4. r \in Seq(Values) /\ Count(r, P) = Cardinality(LeftIn({i}, P))
      BY <3>2, RestIs, RestCount
    <3> HIDE DEF g, r, D
    <3>5. f[s] \in Seq(Values) /\ Count(f[s], P) = Count(g, P) + Count(r, P)
      <4>1. f[s] = g \o r
        BY <3>1 DEF g, r
      <4> QED
        BY <3>3, <3>4, <4>1, CountConcat, ConcatProperties
    <3>6. Cardinality(LeftIn(s, P)) = Cardinality(LeftIn(s \ {i}, P)) + Cardinality(LeftIn({i}, P))
      <4>1. LeftIn(s, P) = LeftIn(s \ {i}, P) \cup LeftIn({i}, P)
        BY DEF LeftIn
      <4>2. LeftIn(s \ {i}, P) \cap LeftIn({i}, P) = {}
        BY DEF LeftIn
      <4>3. Cardinality(LeftIn(s \ {i}, P) \cap LeftIn({i}, P)) = 0
        BY <4>2, FS_EmptySet
      <4>4. Cardinality(LeftIn(s \ {i}, P) \cup LeftIn({i}, P))
              = Cardinality(LeftIn(s \ {i}, P)) + Cardinality(LeftIn({i}, P))
                  - Cardinality(LeftIn(s \ {i}, P) \cap LeftIn({i}, P))
        BY <1>2, FS_Union
      <4> QED
        BY <1>2, <4>1, <4>3, <4>4
    <3>7. Count(f[s], P) = Count(base, P) + Cardinality(LeftIn(s, P))
      BY <1>2, <1>3, <3>3, <3>4, <3>5, <3>6
    <3> QED
      BY <3>5, <3>7 DEF D
  <2> QED
    BY <2>1, <2>2
<1> HIDE DEF D
<1>5. \A s \in SUBSET Chunks : s \in D
  BY <1>1, <1>4, SubsetInduction
<1>6. LeftIn(Chunks, P) = Left(popped, P)
  BY DEF LeftIn, Left, Tokens
<1>7. Chunks \in D
  BY <1>5
<1> QED
  BY <1>6, <1>7 DEF D

\* No value is lost or doubled during the merge.
LEMMA NothingIsLost ==
  ASSUME SortInv, BuffersFit, pc = "merge"
  PROVE  /\ Sorted(FoldSet(LAMBDA i, all : all \o RestOf(i), output \o Pending,
                           0..(numChunks - 1))) = Sorted(input)
         /\ \A i \in 0..(numChunks - 1) :
              /\ Queued(i) = {} => Unread(i) = << >> /\ InFile(i) = << >>
              /\ RestOf(i) = Sorted(RestOf(i))
<1>1. size > 0 /\ size \in Nat /\ input \in Seq(Values)
  BY FitMeansSomething DEF SortInv
<1>2. Sizes /\ MergeShape /\ MergeData /\ pc \notin Popping
  BY <1>1, SomethingToSort DEF Popping
<1>3. Chunks = 0..(numChunks - 1)
  BY DEF Chunks
<1>4. Merges(Merged, popped) /\ Merged \in Seq(Values) /\ Merged = output \o Pending
  BY <1>2 DEF MergeData, Merged, Merges
<1>5. \A i \in Chunks : RestOf(i) \in Seq(Values)
  BY <1>2, RestIs
<1>6. IsFiniteSet(Chunks)
  BY <1>2, ChunkSizes, FS_Interval DEF Chunks
<1>7. PICK f : /\ Gathers(f, Merged, Chunks)
               /\ FoldSet(LAMBDA i, all : all \o RestOf(i), Merged, Chunks) = f[Chunks]
  BY <1>4, <1>5, <1>6, GatheredIsFold
<1>8. \A P \in Cuts : f[Chunks] \in Seq(Values) /\ Count(f[Chunks], P) = Count(input, P)
  <2> TAKE P \in Cuts
  <2>1. /\ IsFiniteSet(Left(popped, P))
        /\ Count(input, P) = Count(Merged, P) + Cardinality(Left(popped, P))
    BY <1>2, <1>4, LeftIs
  <2> QED
    BY <1>2, <1>4, <1>7, <2>1, GatheredCount
<1>9. f[Chunks] \in Seq(Values)
  <2>1. 0..0 \in Cuts
    BY DEF Cuts
  <2> QED
    BY <1>8, <2>1
<1>10. Sorted(f[Chunks]) = Sorted(input)
  BY <1>1, <1>8, <1>9, SortedSame
<1>11. ASSUME NEW i \in Chunks, Queued(i) = {}
       PROVE  Unread(i) = << >> /\ InFile(i) = << >>
  <2>1. /\ inBufs[i + 1].length = 0 /\ files[i + 1].pos = Len(Chunk(i))
    BY <1>2, <1>11, UnqueuedIsUsedUp
  <2>2. /\ files[i + 1].data = Chunk(i) /\ Chunk(i) \in Seq(Values) /\ Len(Chunk(i)) \in Nat
    BY <1>2, BufferTypes
  <2>3. Unread(i) = << >>
    BY <2>1 DEF Unread
  <2>4. InFile(i) = SubSeq(Chunk(i), Len(Chunk(i)) + 1, Len(Chunk(i)))
    BY <2>1, <2>2 DEF InFile
  <2>5. PICK n, m : n = Len(Chunk(i)) /\ m = n + 1
    OBVIOUS
  <2>6. SubSeq(Chunk(i), m, n) = << >>
    BY <2>2, <2>5
  <2> QED
    BY <2>3, <2>4, <2>5, <2>6
<1>12. \A i \in Chunks : RestOf(i) = Sorted(RestOf(i))
  BY <1>2, RestAscends
<1> QED
  BY <1>3, <1>4, <1>7, <1>10, <1>11, <1>12

(***************************************************************************)
(* As long as no call has failed, and the buffers fit: between the rounds  *)
(* of the merge every value of the input is in one place: written or about *)
(* to be, queued, in a buffer, or in a file; what is left of a chunk is in *)
(* order; and a chunk without a head in the queue has nothing left.        *)
(***************************************************************************)
THEOREM MergeLosesNothing ==
  Spec => []NothingLost
<1>1. Spec => [](~AllWell \/ SortInv)
  BY SortIsInOrder
<1>2. ~AllWell \/ SortInv => NothingLost
  <2> SUFFICES ASSUME SortInv, BuffersFit, pc = "merge"
               PROVE  /\ Sorted(FoldSet(LAMBDA i, all : all \o RestOf(i), output \o Pending,
                                        0..(numChunks - 1))) = Sorted(input)
                      /\ \A i \in 0..(numChunks - 1) :
                           /\ Queued(i) = {} => Unread(i) = << >> /\ InFile(i) = << >>
                           /\ RestOf(i) = Sorted(RestOf(i))
    BY DEF NothingLost
  <2> QED
    BY NothingIsLost
<1> QED
  BY <1>1, <1>2, PTL
=============================================================================
