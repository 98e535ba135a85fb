---------------------------- MODULE BTreeProofs ------------------------------
(***************************************************************************)
(* Proofs about BTree, for any threads, keys, pages and orders of nodes:   *)
(* types, locks, room for splits, changes unfixed as dirty, that all       *)
(* leaves lie at the same depth, and, from the ranges of keys further      *)
(* down, that BTree implements Dictionary.                                 *)
(***************************************************************************)
EXTENDS BTree, DataLemmas

-----------------------------------------------------------------------------
\* Sequences.

LEMMA SubSeqIndex ==
  ASSUME NEW S, NEW s \in Seq(S), NEW m \in 1..(Len(s) + 1), NEW n \in 0..Len(s)
  PROVE  /\ SubSeq(s, m, n) \in Seq(S)
         /\ Len(SubSeq(s, m, n)) = IF m <= n THEN n - m + 1 ELSE 0
         /\ \A i \in 1..(n - m + 1) : SubSeq(s, m, n)[i] = s[m + i - 1]
<1>1. Len(s) \in Nat /\ \A i \in 1..Len(s) : s[i] \in S
  OBVIOUS
<1>2. m \in Int /\ n \in Int /\ \A i \in m..n : s[i] \in S
  BY <1>1
<1> QED
  BY <1>2, SubSeqProperties

LEMMA ExceptIndex ==
  ASSUME NEW S, NEW s \in Seq(S), NEW n, NEW e \in S
  PROVE  /\ [s EXCEPT ![n] = e] \in Seq(S)
         /\ Len([s EXCEPT ![n] = e]) = Len(s)
         /\ DOMAIN [s EXCEPT ![n] = e] = DOMAIN s
         /\ \A i \in DOMAIN s : [s EXCEPT ![n] = e][i] = IF i = n THEN e ELSE s[i]
<1>1. s \in [1..Len(s) -> S] /\ Len(s) \in Nat
  OBVIOUS
<1>2. [s EXCEPT ![n] = e] \in [1..Len(s) -> S]
  BY <1>1
<1> QED
  BY <1>1, <1>2

LEMMA InsertAtIndex ==
  ASSUME NEW S, NEW s \in Seq(S), NEW n \in 1..(Len(s) + 1), NEW e \in S
  PROVE  /\ InsertAt(s, n, e) \in Seq(S)
         /\ Len(InsertAt(s, n, e)) = Len(s) + 1
         /\ \A i \in 1..(Len(s) + 1) :
               InsertAt(s, n, e)[i] = IF i < n THEN s[i] ELSE IF i = n THEN e ELSE s[i - 1]
<1> DEFINE u == SubSeq(s, 1, n - 1)
           v == SubSeq(s, n, Len(s))
<1>0. Len(s) \in Nat
  OBVIOUS
<1>1. /\ u \in Seq(S) /\ Len(u) = n - 1
      /\ \A i \in 1..(n - 1) : u[i] = s[i]
  <2>1. 1 \in 1..(Len(s) + 1) /\ n - 1 \in 0..Len(s)
    BY <1>0
  <2> QED
    BY <1>0, <2>1, SubSeqIndex
<1>2. /\ v \in Seq(S) /\ Len(v) = Len(s) - n + 1
      /\ \A i \in 1..(Len(s) - n + 1) : v[i] = s[n + i - 1]
  BY <1>0, SubSeqIndex
<1> HIDE DEF u, v
<1>3. /\ u \o <<e>> \in Seq(S)
      /\ Len(u \o <<e>>) = n
      /\ \A i \in 1..n : (u \o <<e>>)[i] = IF i < n THEN s[i] ELSE e
  BY <1>0, <1>1
<1>4. InsertAt(s, n, e) = (u \o <<e>>) \o v
  BY DEF InsertAt, u, v
<1> DEFINE w == u \o <<e>>
<1> HIDE DEF w
<1>5. /\ w \o v \in Seq(S)
      /\ Len(w \o v) = n + (Len(s) - n + 1)
      /\ \A i \in 1..(n + (Len(s) - n + 1)) :
             (w \o v)[i] = IF i <= n THEN w[i] ELSE v[i - n]
  BY <1>2, <1>3, ConcatProperties DEF w
<1>6. n + (Len(s) - n + 1) = Len(s) + 1
  BY <1>0
<1>7. ASSUME NEW i \in 1..(Len(s) + 1)
      PROVE  InsertAt(s, n, e)[i] = IF i < n THEN s[i] ELSE IF i = n THEN e ELSE s[i - 1]
  <2>1. CASE i <= n
    <3>1. InsertAt(s, n, e)[i] = (u \o <<e>>)[i]
      BY <1>0, <1>4, <1>5, <1>6, <2>1 DEF w
    <3> QED
      BY <1>0, <1>3, <2>1, <3>1
  <2>2. CASE i > n
    <3>1. i - n \in 1..(Len(s) - n + 1) /\ n + (i - n) - 1 = i - 1
      BY <1>0, <2>2
    <3>2. v[i - n] = s[i - 1]
      BY <1>2, <3>1
    <3> QED
      BY <1>0, <1>4, <1>5, <1>6, <2>2, <3>2 DEF w
  <2> QED
    BY <1>0, <2>1, <2>2
<1> QED
  BY <1>4, <1>5, <1>6, <1>7 DEF w

-----------------------------------------------------------------------------
\* Nodes.

NodeOK(n) == /\ n \in Node
             /\ n.leaf  => Len(n.tids) = Len(n.keys) /\ n.children = << >>
             /\ ~n.leaf => Len(n.children) = Len(n.keys) + 1 /\ n.tids = << >>

Full(n) == IF n.leaf THEN LeafOrder ELSE InnerOrder + 1

LEMMA KeyIndexRange ==
  ASSUME NEW n, NodeOK(n), NEW k
  PROVE  KeyIndex(n, k) \in 1..(Len(n.keys) + 1)
<1> DEFINE D == {i \in DOMAIN n.keys : n.keys[i] < k}
<1>1. n.keys \in Seq(Keys) /\ Len(n.keys) \in Nat /\ DOMAIN n.keys = 1..Len(n.keys)
  BY DEF NodeOK, Node
<1>2. IsFiniteSet(1..Len(n.keys)) /\ Cardinality(1..Len(n.keys)) = Len(n.keys)
  BY <1>1, FS_Interval
<1>3. D \in SUBSET (1..Len(n.keys))
  BY <1>1
<1>4. Cardinality(D) \in Nat /\ Cardinality(D) <= Len(n.keys)
  BY <1>2, <1>3, FS_Subset, FS_CardinalityType
<1> QED
  BY <1>1, <1>4 DEF KeyIndex

LEMMA ChildIsChild ==
  ASSUME NEW n, NodeOK(n), ~n.leaf, NEW k
  PROVE  /\ KeyIndex(n, k) \in DOMAIN n.children
         /\ Child(n, k) = n.children[KeyIndex(n, k)]
         /\ Child(n, k) \in PageIDs
<1>1. n.children \in Seq(PageIDs) /\ Len(n.children) = Len(n.keys) + 1
  BY DEF NodeOK, Node
<1>2. KeyIndex(n, k) \in DOMAIN n.children
  BY <1>1, KeyIndexRange
<1> QED
  BY <1>1, <1>2 DEF Child

LEMMA LeafInsertOK ==
  ASSUME NEW n, NodeOK(n), n.leaf, NEW k \in Keys, NEW v \in TIDs
  PROVE  /\ NodeOK(LeafInsert(n, k, v))
         /\ LeafInsert(n, k, v).leaf
         /\ Count(LeafInsert(n, k, v)) \in {Count(n), Count(n) + 1}
<1> DEFINE i == KeyIndex(n, k)
<1>1. /\ n.keys \in Seq(Keys) /\ n.tids \in Seq(TIDs) /\ Len(n.tids) = Len(n.keys)
      /\ n.children = << >> /\ n.leaf = TRUE
  BY DEF NodeOK, Node
<1>2. i \in 1..(Len(n.keys) + 1)
  BY KeyIndexRange
<1> HIDE DEF i
<1>3. CASE Has(n, k)
  <2>1. LeafInsert(n, k, v) = [n EXCEPT !.tids[i] = v]
    BY <1>3 DEF LeafInsert, i
  <2>2. [n.tids EXCEPT ![i] = v] \in Seq(TIDs) /\ Len([n.tids EXCEPT ![i] = v]) = Len(n.tids)
    BY <1>1, ExceptIndex
  <2>3. LeafInsert(n, k, v) = [n EXCEPT !.tids = [n.tids EXCEPT ![i] = v]]
    BY <2>1
  <2> QED
    BY <1>1, <2>2, <2>3 DEF NodeOK, Node, Count
<1>4. CASE ~Has(n, k)
  <2>1. LeafInsert(n, k, v) = [n EXCEPT !.keys = InsertAt(n.keys, i, k), !.tids = InsertAt(n.tids, i, v)]
    BY <1>4 DEF LeafInsert, i
  <2>2. InsertAt(n.keys, i, k) \in Seq(Keys) /\ Len(InsertAt(n.keys, i, k)) = Len(n.keys) + 1
    BY <1>1, <1>2, InsertAtIndex
  <2>3. InsertAt(n.tids, i, v) \in Seq(TIDs) /\ Len(InsertAt(n.tids, i, v)) = Len(n.keys) + 1
    BY <1>1, <1>2, InsertAtIndex
  <2> QED
    BY <1>1, <2>1, <2>2, <2>3 DEF NodeOK, Node, Count
<1> QED
  BY <1>3, <1>4

LEMMA LeafRemoveOK ==
  ASSUME NEW n, NodeOK(n), n.leaf, NEW k
  PROVE  /\ NodeOK(LeafRemove(n, k))
         /\ LeafRemove(n, k).leaf
         /\ Count(LeafRemove(n, k)) \in {Count(n), Count(n) - 1}
<1> DEFINE i == KeyIndex(n, k)
<1>1. /\ n.keys \in Seq(Keys) /\ n.tids \in Seq(TIDs) /\ Len(n.tids) = Len(n.keys)
      /\ n.children = << >> /\ n.leaf = TRUE /\ Len(n.keys) \in Nat
  BY DEF NodeOK, Node
<1>2. i \in 1..(Len(n.keys) + 1)
  BY KeyIndexRange
<1> HIDE DEF i
<1>3. CASE i > Len(n.keys)
  BY <1>1, <1>3 DEF LeafRemove, i
<1>4. CASE ~(i > Len(n.keys))
  <2>1. LeafRemove(n, k) = [n EXCEPT !.keys = RemoveAt(n.keys, i), !.tids = RemoveAt(n.tids, i)]
    BY <1>4 DEF LeafRemove, i
  <2>2. i \in 1..Len(n.keys)
    BY <1>1, <1>2, <1>4
  <2>3. RemoveAt(n.keys, i) \in Seq(Keys) /\ Len(RemoveAt(n.keys, i)) = Len(n.keys) - 1
    BY <1>1, <2>2, RemoveAtIndex
  <2>4. RemoveAt(n.tids, i) \in Seq(TIDs) /\ Len(RemoveAt(n.tids, i)) = Len(n.keys) - 1
    BY <1>1, <2>2, RemoveAtIndex
  <2> QED
    BY <1>1, <2>1, <2>3, <2>4 DEF NodeOK, Node, Count
<1> QED
  BY <1>3, <1>4

LEMMA InnerInsertOK ==
  ASSUME NEW n, NodeOK(n), ~n.leaf, NEW k \in Keys, NEW c \in PageIDs
  PROVE  /\ NodeOK(InnerInsert(n, k, c))
         /\ ~InnerInsert(n, k, c).leaf
         /\ Count(InnerInsert(n, k, c)) \in {Count(n), Count(n) + 1}
         /\ \A j \in DOMAIN InnerInsert(n, k, c).children :
               \/ InnerInsert(n, k, c).children[j] = c
               \/ \E i \in DOMAIN n.children : InnerInsert(n, k, c).children[j] = n.children[i]
<1> DEFINE i == KeyIndex(n, k)
           new == InnerInsert(n, k, c)
<1>1. /\ n.keys \in Seq(Keys) /\ n.children \in Seq(PageIDs)
      /\ Len(n.children) = Len(n.keys) + 1 /\ Len(n.keys) \in Nat
      /\ n.tids = << >> /\ n.leaf = FALSE
  BY DEF NodeOK, Node
<1>2. i \in 1..(Len(n.keys) + 1)
  BY KeyIndexRange
<1> HIDE DEF i
<1>3. CASE Has(n, k)
  <2> DEFINE cs == [n.children EXCEPT ![i] = c]
  <2>1. new = [n EXCEPT !.children = cs]
    BY <1>3 DEF InnerInsert, i
  <2>2. /\ cs \in Seq(PageIDs) /\ Len(cs) = Len(n.children)
        /\ \A j \in DOMAIN cs : j \in DOMAIN n.children /\ cs[j] \in {c, n.children[j]}
    <3>1. PICK s \in Seq(PageIDs) : s = n.children
      BY <1>1
    <3>2. cs = [s EXCEPT ![i] = c]
      BY <3>1
    <3> HIDE DEF cs
    <3>3. /\ cs \in Seq(PageIDs) /\ Len(cs) = Len(s) /\ DOMAIN cs = DOMAIN s
          /\ \A j \in DOMAIN s : cs[j] = IF j = i THEN c ELSE s[j]
      BY <3>2, ExceptIndex
    <3> QED
      BY <3>1, <3>3
  <2> HIDE DEF cs
  <2>3. new.children = cs /\ new.keys = n.keys /\ new.leaf = FALSE /\ new.tids = n.tids
        /\ new \in Node
    BY <1>1, <2>1, <2>2 DEF NodeOK, Node
  <2> HIDE DEF new
  <2>4. NodeOK(new) /\ Count(new) = Count(n)
    BY <1>1, <2>2, <2>3 DEF NodeOK, Count
  <2> QED
    BY <2>2, <2>3, <2>4 DEF new
<1>4. CASE ~Has(n, k)
  <2> DEFINE at == i + 1
             cs == InsertAt(n.children, at, c)
             ks == InsertAt(n.keys, i, k)
  <2>1. new = [n EXCEPT !.keys = ks, !.children = cs]
    BY <1>4 DEF InnerInsert, i
  <2>2. /\ cs \in Seq(PageIDs) /\ Len(cs) = Len(n.children) + 1
        /\ \A j \in 1..(Len(n.children) + 1) :
              cs[j] = IF j < at THEN n.children[j] ELSE IF j = at THEN c ELSE n.children[j - 1]
    <3>1. PICK s \in Seq(PageIDs) : s = n.children
      BY <1>1
    <3>2. PICK m \in 1..(Len(s) + 1) : m = at /\ cs = InsertAt(s, m, c)
      BY <1>1, <1>2, <3>1
    <3> HIDE DEF at, cs
    <3>3. /\ cs \in Seq(PageIDs) /\ Len(cs) = Len(s) + 1
          /\ \A j \in 1..(Len(s) + 1) : cs[j] = IF j < m THEN s[j] ELSE IF j = m THEN c ELSE s[j - 1]
      BY <3>2, InsertAtIndex
    <3> QED
      BY <3>1, <3>2, <3>3
  <2>3. ks \in Seq(Keys) /\ Len(ks) = Len(n.keys) + 1
    BY <1>1, <1>2, InsertAtIndex
  <2> HIDE DEF cs, ks
  <2>4. new.children = cs /\ new.keys = ks /\ new.leaf = FALSE /\ new.tids = n.tids
        /\ new \in Node
    BY <1>1, <2>1, <2>2, <2>3 DEF NodeOK, Node
  <2>5. ASSUME NEW j \in DOMAIN cs
        PROVE  cs[j] = c \/ \E l \in DOMAIN n.children : cs[j] = n.children[l]
    <3>1. j \in 1..(Len(n.children) + 1) /\ DOMAIN n.children = 1..Len(n.children)
      BY <1>1, <2>2
    <3>2. CASE j < at
      BY <1>1, <1>2, <2>2, <3>1, <3>2
    <3>3. CASE j = at
      BY <2>2, <3>1, <3>3
    <3>4. CASE j > at
      <4>1. cs[j] = n.children[j - 1]
        BY <1>1, <1>2, <2>2, <3>1, <3>4
      <4>2. j - 1 \in DOMAIN n.children
        BY <1>1, <1>2, <3>1, <3>4
      <4> QED
        BY <4>1, <4>2
    <3> QED
      BY <1>1, <1>2, <3>1, <3>2, <3>3, <3>4
  <2> HIDE DEF new
  <2>6. NodeOK(new) /\ Count(new) = Count(n) + 1
    BY <1>1, <2>2, <2>3, <2>4 DEF NodeOK, Count
  <2> QED
    BY <2>4, <2>5, <2>6 DEF new
<1> QED
  BY <1>3, <1>4

LEMMA Halved ==
  ASSUME NEW n \in Nat, n >= 2
  PROVE  n \div 2 \in 1..(n - 1) /\ n - n \div 2 \in 1..(n - 1)
OBVIOUS

\* The halves of a full node have room.
LEMMA HalvesOK ==
  ASSUME NEW n, NodeOK(n), IsFull(n)
  PROVE  /\ NodeOK(LeftHalf(n)) /\ NodeOK(RightHalf(n))
         /\ LeftHalf(n).leaf = n.leaf /\ RightHalf(n).leaf = n.leaf
         /\ Count(LeftHalf(n)) < Full(n) /\ Count(RightHalf(n)) < Full(n)
         /\ Separator(n) \in Keys
         /\ \A j \in DOMAIN LeftHalf(n).children :
               \E i \in DOMAIN n.children : LeftHalf(n).children[j] = n.children[i]
         /\ \A j \in DOMAIN RightHalf(n).children :
               \E i \in DOMAIN n.children : RightHalf(n).children[j] = n.children[i]
<1> DEFINE k == Keep(n)
<1>1. /\ n.keys \in Seq(Keys) /\ n.children \in Seq(PageIDs) /\ n.tids \in Seq(TIDs)
      /\ Len(n.keys) \in Nat /\ n.leaf \in BOOLEAN
  BY DEF NodeOK, Node
<1>2. Count(n) = Full(n) /\ Full(n) \in Nat /\ Full(n) >= 2
  BY <1>1, BTreeAssumption DEF IsFull, Full
<1>3. k \in 1..(Count(n) - 1) /\ Count(n) - k \in 1..(Count(n) - 1)
  BY <1>2, Halved DEF Keep
<1> HIDE DEF k
<1>4. CASE n.leaf
  <2>1. /\ Count(n) = Len(n.keys) /\ Len(n.tids) = Len(n.keys) /\ n.children = << >>
        /\ n.leaf = TRUE
    BY <1>1, <1>4 DEF Count, NodeOK
  <2> DEFINE lk == SubSeq(n.keys, 1, k)
             lt == SubSeq(n.tids, 1, k)
             rk == SubSeq(n.keys, k + 1, Len(n.keys))
             rt == SubSeq(n.tids, k + 1, Len(n.tids))
  <2>2. /\ lk \in Seq(Keys) /\ Len(lk) = k /\ lt \in Seq(TIDs) /\ Len(lt) = k
        /\ rk \in Seq(Keys) /\ Len(rk) = Count(n) - k
        /\ rt \in Seq(TIDs) /\ Len(rt) = Count(n) - k
    BY <1>1, <1>3, <2>1, SubSeqIndex
  <2>3. LeftHalf(n) = Leaf(lk, lt) /\ RightHalf(n) = Leaf(rk, rt)
    BY <1>4 DEF LeftHalf, RightHalf, k
  <2> HIDE DEF lk, lt, rk, rt
  <2>4. /\ NodeOK(Leaf(lk, lt)) /\ NodeOK(Leaf(rk, rt))
        /\ Count(Leaf(lk, lt)) = k /\ Count(Leaf(rk, rt)) = Count(n) - k
    BY <1>3, <2>2 DEF Leaf, NodeOK, Node, Count
  <2>5. Separator(n) \in Keys
    BY <1>1, <1>3, <2>1 DEF Separator, k
  <2>6. Leaf(lk, lt).children = << >> /\ Leaf(rk, rt).children = << >>
        /\ Leaf(lk, lt).leaf = TRUE /\ Leaf(rk, rt).leaf = TRUE
    BY DEF Leaf
  <2> QED
    <3>1. k < Full(n) /\ Count(n) - k < Full(n)
      BY <1>2, <1>3
    <3> QED
      BY <2>1, <2>3, <2>4, <2>5, <2>6, <3>1
<1>5. CASE ~n.leaf
  <2>1. /\ Count(n) = Len(n.children) /\ Len(n.children) = Len(n.keys) + 1
        /\ n.leaf = FALSE
    BY <1>1, <1>5 DEF Count, NodeOK
  <2> DEFINE lk == SubSeq(n.keys, 1, k - 1)
             lc == SubSeq(n.children, 1, k)
             rk == SubSeq(n.keys, k + 1, Len(n.keys))
             rc == SubSeq(n.children, k + 1, Len(n.children))
  <2>2. /\ lk \in Seq(Keys) /\ Len(lk) = k - 1
        /\ rk \in Seq(Keys) /\ Len(rk) = Count(n) - k - 1
    <3>1. /\ n.keys \in Seq(Keys) /\ Len(n.keys) \in Nat
          /\ 1 \in 1..(Len(n.keys) + 1) /\ k - 1 \in 0..Len(n.keys)
          /\ k + 1 \in 1..(Len(n.keys) + 1) /\ Len(n.keys) \in 0..Len(n.keys)
          /\ Count(n) = Len(n.keys) + 1
      BY <1>1, <1>3, <2>1
    <3>2. /\ lk \in Seq(Keys) /\ Len(lk) = IF 1 <= k - 1 THEN (k - 1) - 1 + 1 ELSE 0
      BY ONLY <3>1, SubSeqIndex
    <3>3. /\ rk \in Seq(Keys)
          /\ Len(rk) = IF k + 1 <= Len(n.keys) THEN Len(n.keys) - (k + 1) + 1 ELSE 0
      BY ONLY <3>1, SubSeqIndex
    <3> QED
      BY <1>3, <3>1, <3>2, <3>3
  <2>3. /\ lc \in Seq(PageIDs) /\ Len(lc) = k
        /\ \A j \in 1..k : lc[j] = n.children[j]
    BY <1>1, <1>3, <2>1, SubSeqIndex
  <2>4. /\ rc \in Seq(PageIDs) /\ Len(rc) = Count(n) - k
        /\ \A j \in 1..(Count(n) - k) : rc[j] = n.children[k + j]
    BY <1>1, <1>3, <2>1, SubSeqIndex
  <2>5. LeftHalf(n) = Inner(lk, lc) /\ RightHalf(n) = Inner(rk, rc)
    BY <1>5 DEF LeftHalf, RightHalf, k
  <2> HIDE DEF lk, lc, rk, rc
  <2>6. /\ NodeOK(Inner(lk, lc)) /\ NodeOK(Inner(rk, rc))
        /\ Count(Inner(lk, lc)) = k /\ Count(Inner(rk, rc)) = Count(n) - k
    BY <1>3, <2>1, <2>2, <2>3, <2>4 DEF Inner, NodeOK, Node, Count
  <2>7. Separator(n) \in Keys
    BY <1>1, <1>3, <2>1 DEF Separator, k
  <2>8. /\ Inner(lk, lc).children = lc /\ Inner(rk, rc).children = rc
        /\ Inner(lk, lc).leaf = FALSE /\ Inner(rk, rc).leaf = FALSE
    BY DEF Inner
  <2>9. \A j \in DOMAIN lc : \E i \in DOMAIN n.children : lc[j] = n.children[i]
    BY <1>1, <1>3, <2>1, <2>3
  <2>10. ASSUME NEW j \in DOMAIN rc
         PROVE  \E i \in DOMAIN n.children : rc[j] = n.children[i]
    <3>1. j \in 1..(Count(n) - k)
      BY <2>4
    <3>2. k + j \in DOMAIN n.children
      BY <1>1, <1>3, <2>1, <3>1
    <3> QED
      BY <2>4, <3>1, <3>2
  <2> QED
    <3>1. k < Full(n) /\ Count(n) - k < Full(n)
      BY <1>2, <1>3
    <3>2. /\ NodeOK(LeftHalf(n)) /\ NodeOK(RightHalf(n))
          /\ LeftHalf(n).leaf = n.leaf /\ RightHalf(n).leaf = n.leaf
          /\ Count(LeftHalf(n)) < Full(n) /\ Count(RightHalf(n)) < Full(n)
      BY <2>1, <2>5, <2>6, <2>8, <3>1
    <3>3. LeftHalf(n).children = lc /\ RightHalf(n).children = rc
      BY <2>5, <2>8
    <3> QED
      BY <2>7, <2>9, <2>10, <3>2, <3>3
<1> QED
  BY <1>4, <1>5

-----------------------------------------------------------------------------
(***************************************************************************)
(* The invariant.  Beyond the types and the locks: what the locals of a    *)
(* call may be (CallOK), that the parent of a full node has room and that  *)
(* of a full parent the child has (RoomOK), who will unfix an unsaved page *)
(* as dirty (Owns), and a level for every page that makes leaves 0 and     *)
(* children one less than their parents, also along the pages a call has   *)
(* in hand (Levels).                                                       *)
(***************************************************************************)
Used == 0..(size - 1)

CallOK(t) ==
    LET c == call[t] IN
    /\ c.pc = "idle" <=> c.op = "none"
    /\ c.pc = "idle" => c = Idle
    /\ c.pc # "idle" => c.key \in Keys /\ (c.op = "insert" => c.tid \in TIDs)
    /\ c.pc \in {"idle", "root"} => c.page = NoPage
    /\ c.pc \in {"find", "insert", "separate"} => c.page \in Used
    /\ c.pc \notin {"insert", "separate"} => c.par = NoPage
    /\ c.pc # "separate" => c.new = NoPage
    /\ c.pc = "find" => c.op # "insert"
    /\ c.pc \in {"insert", "separate"} =>
          /\ c.op = "insert"
          /\ c.par \in Used \cup {NoPage}
          /\ c.par = NoPage => c.page = root
    /\ c.pc = "separate" => c.new \in Used \ {root, c.page} /\ c.sep \in Keys

RoomOK(t) ==
    /\ call[t].par # NoPage =>
          /\ ~nodes[call[t].par].leaf
          /\ IsFull(nodes[call[t].par]) => At(t, "insert") /\ ~IsFull(nodes[call[t].page])
    /\ At(t, "separate") => ~IsFull(nodes[call[t].page]) /\ ~IsFull(nodes[call[t].new])

Fits(n) == Count(n) <= Full(n)

Owns(t, p) == \/ p = call[t].page /\ (call[t].bfDirty \/ At(t, "separate"))
              \/ p = call[t].par /\ call[t].parDirty
              \/ p = call[t].new

SavedInv == \A p \in unsaved : \E t \in Threads : call[t].op = "insert" /\ Owns(t, p)

NodeLevel(h, p) ==
    /\ nodes[p].leaf <=> h[p] = 0
    /\ \A i \in DOMAIN nodes[p].children :
          nodes[p].children[i] \in Used \ {root} /\ h[nodes[p].children[i]] + 1 = h[p]

CallLevel(h, t) ==
    /\ call[t].par # NoPage => h[call[t].par] = h[call[t].page] + 1
    /\ call[t].new # NoPage => h[call[t].new] = h[call[t].page]

Levels(h) == /\ \A p \in Used : NodeLevel(h, p)
             /\ \A t \in Threads : CallLevel(h, t)

TreeInv == /\ TypeOK
           /\ LocksInHand
           /\ \A t \in Threads : CallOK(t) /\ RoomOK(t)
           /\ \A p \in Used : Fits(nodes[p])
           /\ SavedInv
           /\ \E h \in [PageIDs -> Nat] : Levels(h)

-----------------------------------------------------------------------------
\* A step that leaves every page on its level.
LevelsKept == \A h \in [PageIDs -> Nat] : Levels(h) => Levels(h)'

\* The pages a call has in hand are pages in use.
LEMMA HandUsed ==
  ASSUME TreeInv, NEW t \in Threads
  PROVE  /\ InHand(t) \subseteq Used /\ Used \subseteq PageIDs
         /\ size \in Nat /\ root \in Used
         /\ PageIDs = 0..(Cardinality(PageIDs) - 1) /\ Cardinality(PageIDs) \in Nat
<1>1. /\ size \in 1..Cardinality(PageIDs) /\ call[t] \in Call /\ CallOK(t)
      /\ Cardinality(PageIDs) \in Nat /\ PageIDs = 0..(Cardinality(PageIDs) - 1)
  BY BTreeAssumption DEF TreeInv, TypeOK
<1>2. Used \subseteq PageIDs /\ size \in Nat /\ root \in Used
  BY <1>1 DEF Used, root
<1>3. call[t].pc \in Labels
  BY <1>1 DEF Call
<1>4. call[t].page \in Used \cup {NoPage}
  BY <1>1, <1>3 DEF CallOK, Labels
<1>5. call[t].par \in Used \cup {NoPage} /\ call[t].new \in Used \cup {NoPage}
  BY <1>1, <1>3 DEF CallOK, Labels
<1> QED
  BY <1>1, <1>2, <1>4, <1>5 DEF InHand

\* A page that a call other than a lookup has in hand is in no other hand.
LEMMA NotShared ==
  ASSUME TreeInv, NEW t \in Threads, call[t].op # "lookup", NEW p \in InHand(t),
         NEW u \in Threads \ {t}
  PROVE  p \notin InHand(u)
<1>1. p \in PageIDs /\ LocksInHand
  BY HandUsed DEF TreeInv
<1>2. t \in lock[p].writers
  BY <1>1 DEF LocksInHand
<1>3. lock[p].writers = {t} /\ lock[p].readers = {}
  BY <1>1, <1>2 DEF LocksInHand, Exclusive
<1> QED
  BY <1>1, <1>3 DEF LocksInHand

(***************************************************************************)
(* A call that takes the locks of the pages T, as fixPage would, and gives *)
(* back those of the pages G has the pages it should in hand.              *)
(***************************************************************************)
LEMMA LocksFollow ==
  ASSUME TreeInv, NEW t \in Threads,
         \A u \in Threads \ {t} : call'[u] = call[u],
         NEW T \in SUBSET PageIDs, NEW G \in SUBSET PageIDs,
         \A p \in T : p \notin InHand(t) /\ CanFix(t, p),
         lock' = [p \in PageIDs |->
                    IF p \in G THEN Unlocked(IF p \in T THEN Fixed(t, p) ELSE lock[p], t)
                               ELSE IF p \in T THEN Fixed(t, p) ELSE lock[p]],
         InHand(t)' = (InHand(t) \cup T) \ G,
         call'[t].op = call[t].op \/ InHand(t)' = {}
  PROVE  LocksInHand' /\ lock' \in [PageIDs -> LockRecords(Threads)]
<1>1. LocksInHand /\ lock \in [PageIDs -> LockRecords(Threads)]
  BY DEF TreeInv, TypeOK
<1> DEFINE l(p) == IF p \in T THEN Fixed(t, p) ELSE lock[p]
<1>2. ASSUME NEW p \in PageIDs
      PROVE  /\ l(p) \in LockRecords(Threads) /\ Exclusive(l(p))
             /\ t \in l(p).readers <=> p \in InHand(t) \cup T /\ call[t].op = "lookup"
             /\ t \in l(p).writers <=> p \in InHand(t) \cup T /\ call[t].op # "lookup"
             /\ \A u \in Threads \ {t} : /\ u \in l(p).readers <=> u \in lock[p].readers
                                         /\ u \in l(p).writers <=> u \in lock[p].writers
  <2>1. /\ lock[p] \in LockRecords(Threads) /\ Exclusive(lock[p])
        /\ t \in lock[p].readers <=> p \in InHand(t) /\ call[t].op = "lookup"
        /\ t \in lock[p].writers <=> p \in InHand(t) /\ call[t].op # "lookup"
    BY <1>1 DEF LocksInHand
  <2>2. CASE p \notin T
    BY <2>1, <2>2
  <2>3. CASE p \in T
    <3>1. t \notin lock[p].writers /\ t \notin lock[p].readers /\ CanFix(t, p)
          /\ l(p) = Fixed(t, p)
      BY <2>1, <2>3
    <3> HIDE DEF l
    <3>2. CASE call[t].op = "lookup"
      <4>1. lock[p].writers = {} /\ l(p) = RdLocked(lock[p], t)
        BY <3>1, <3>2 DEF CanFix, CanRdLock, Fixed
      <4>2. l(p) = [lock[p] EXCEPT !.readers = @ \cup {t}]
        BY <4>1 DEF RdLocked
      <4> QED
        BY <2>1, <2>3, <3>1, <3>2, <4>1, <4>2 DEF LockRecords, Exclusive
    <3>3. CASE call[t].op # "lookup"
      <4>1. lock[p] = Free /\ l(p) = WrLocked(lock[p], t)
        BY <3>1, <3>3 DEF CanFix, CanWrLock, Fixed
      <4>2. WrLocked(Free, t) = [writers |-> {t}, readers |-> {}]
        BY DEF WrLocked, Free
      <4> QED
        BY <2>1, <2>3, <3>1, <3>3, <4>1, <4>2 DEF LockRecords, Exclusive, Free
    <3> QED
      BY <3>2, <3>3
  <2> QED
    BY <2>2, <2>3
<1>3. \A p \in PageIDs : lock'[p] = IF p \in G THEN Unlocked(l(p), t) ELSE l(p)
  OBVIOUS
<1>4. lock' = [p \in PageIDs |-> lock'[p]]
  OBVIOUS
<1> HIDE DEF l
<1>5. ASSUME NEW p \in PageIDs
      PROVE  /\ lock'[p] \in LockRecords(Threads) /\ Exclusive(lock'[p])
             /\ t \in lock'[p].readers <=> p \in InHand(t)' /\ call[t].op = "lookup"
             /\ t \in lock'[p].writers <=> p \in InHand(t)' /\ call[t].op # "lookup"
             /\ \A u \in Threads \ {t} : /\ u \in lock'[p].readers <=> u \in lock[p].readers
                                         /\ u \in lock'[p].writers <=> u \in lock[p].writers
  <2>1. CASE p \in G
    <3>1. lock'[p] = [writers |-> l(p).writers \ {t}, readers |-> l(p).readers \ {t}]
      BY <1>3, <2>1 DEF Unlocked
    <3>2. p \notin InHand(t)'
      BY <2>1
    <3> QED
      BY <1>2, <3>1, <3>2 DEF LockRecords, Exclusive
  <2>2. CASE p \notin G
    <3>1. lock'[p] = l(p)
      BY <1>3, <2>2
    <3>2. p \in InHand(t)' <=> p \in InHand(t) \cup T
      BY <2>2
    <3> QED
      BY <1>2, <3>1, <3>2
  <2> QED
    BY <2>1, <2>2
<1>6. lock' \in [PageIDs -> LockRecords(Threads)]
  BY <1>4, <1>5
<1>7. ASSUME NEW u \in Threads, NEW p \in PageIDs
      PROVE  /\ u \in lock'[p].readers <=> p \in InHand(u)' /\ call'[u].op = "lookup"
             /\ u \in lock'[p].writers <=> p \in InHand(u)' /\ call'[u].op # "lookup"
  <2>1. CASE u = t
    BY <1>5, <2>1
  <2>2. CASE u # t
    <3>1. InHand(u)' = InHand(u) /\ call'[u] = call[u]
      BY <2>2 DEF InHand
    <3> QED
      BY <1>1, <1>5, <2>2, <3>1 DEF LocksInHand
  <2> QED
    BY <2>1, <2>2
<1> QED
  BY <1>5, <1>6, <1>7 DEF LocksInHand

(***************************************************************************)
(* What a step of thread t has to show to keep the invariant: that it      *)
(* changes pages in its own exclusive hand or new ones only, and the parts *)
(* of the invariant for its own call and the pages it has changed.  h are  *)
(* the levels before the step, g those after it.                           *)
(***************************************************************************)
LEMMA StepKeeps ==
  ASSUME TreeInv, NEW t \in Threads,
         call' \in [Threads -> Call], \A u \in Threads \ {t} : call'[u] = call[u],
         answer' \in [Threads -> Answers],
         size' \in size..Cardinality(PageIDs),
         nodes' \in [PageIDs -> Node], \A p \in PageIDs : NodeOK(nodes'[p]),
         \A p \in Used : nodes'[p] # nodes[p] => p \in InHand(t) /\ call[t].op # "lookup",
         unsaved' \subseteq PageIDs,
         \A p \in unsaved' : \/ call'[t].op = "insert" /\ Owns(t, p)'
                             \/ p \in unsaved /\ ~(call[t].op = "insert" /\ Owns(t, p)),
         LocksInHand', lock' \in [PageIDs -> LockRecords(Threads)],
         CallOK(t)', RoomOK(t)', \A p \in Used' : Fits(nodes'[p]),
         NEW h \in [PageIDs -> Nat], Levels(h),
         NEW g \in [PageIDs -> Nat], \A p \in Used' : NodeLevel(g, p)', CallLevel(g, t)',
         \A p \in Used : g[p] # h[p] => p \in InHand(t) /\ call[t].op # "lookup"
  PROVE  TreeInv' /\ Levels(g)'
<1>1. TypeOK'
  <2>1. size' \in 1..Cardinality(PageIDs)
    BY DEF TreeInv, TypeOK
  <2>2. ASSUME NEW p \in PageIDs
        PROVE  IF nodes'[p].leaf
               THEN Len(nodes'[p].tids) = Len(nodes'[p].keys) /\ nodes'[p].children = << >>
               ELSE Len(nodes'[p].children) = Len(nodes'[p].keys) + 1 /\ nodes'[p].tids = << >>
    BY DEF NodeOK
  <2> QED
    BY <2>1, <2>2 DEF TypeOK
<1>2. ASSUME NEW u \in Threads \ {t}
      PROVE  /\ call'[u] = call[u] /\ InHand(u) \subseteq Used
             /\ \A p \in InHand(u) : nodes'[p] = nodes[p] /\ g[p] = h[p]
  <2>1. InHand(u) \subseteq Used
    BY HandUsed
  <2>2. \A p \in InHand(u) : ~(p \in InHand(t) /\ call[t].op # "lookup")
    BY NotShared
  <2> QED
    BY <2>1, <2>2
<1>3. Used \subseteq Used'
  BY HandUsed DEF Used
<1>4. ASSUME NEW u \in Threads
      PROVE  CallOK(u)'
  <2>1. CASE u # t
    <3>1. call'[u] = call[u] /\ CallOK(u)
      BY <1>2, <2>1 DEF TreeInv
    <3> QED
      BY <1>3, <3>1 DEF CallOK
  <2> QED
    BY <2>1
<1>5. ASSUME NEW u \in Threads
      PROVE  RoomOK(u)'
  <2>1. CASE u # t
    <3>1. call'[u] = call[u] /\ RoomOK(u) /\ CallOK(u) /\ call[u] \in Call
      BY <1>2, <2>1 DEF TreeInv, TypeOK
    <3>2. CASE call[u].pc \notin {"insert", "separate"}
      BY <3>1, <3>2 DEF RoomOK, CallOK, At
    <3>3. CASE call[u].pc \in {"insert", "separate"}
      <4>1. call[u].page \in Used /\ NoPage \notin Used
        BY <3>1, <3>3 DEF CallOK, Used, NoPage
      <4>2. call[u].pc = "separate" => call[u].new # NoPage
        BY <3>1, <4>1 DEF CallOK
      <4>3. /\ nodes'[call[u].page] = nodes[call[u].page]
            /\ call[u].par # NoPage => nodes'[call[u].par] = nodes[call[u].par]
            /\ call[u].new # NoPage => nodes'[call[u].new] = nodes[call[u].new]
        BY <1>2, <2>1, <4>1 DEF InHand
      <4> QED
        BY <3>1, <4>2, <4>3 DEF RoomOK, At
    <3> QED
      BY <3>2, <3>3
  <2> QED
    BY <2>1
<1>6. SavedInv'
  <2> SUFFICES ASSUME NEW p \in unsaved'
               PROVE  \E u \in Threads : call'[u].op = "insert" /\ Owns(u, p)'
    BY DEF SavedInv
  <2>1. CASE call'[t].op = "insert" /\ Owns(t, p)'
    BY <2>1
  <2>2. CASE p \in unsaved /\ ~(call[t].op = "insert" /\ Owns(t, p))
    <3>1. PICK u \in Threads : call[u].op = "insert" /\ Owns(u, p)
      BY <2>2 DEF TreeInv, SavedInv
    <3>2. u # t /\ call'[u] = call[u]
      BY <2>2, <3>1
    <3> QED
      BY <3>1, <3>2 DEF Owns, At
  <2> QED
    BY <2>1, <2>2
<1>7. Levels(g)'
  <2> SUFFICES ASSUME NEW u \in Threads, u # t
               PROVE  CallLevel(g, u)'
    BY DEF Levels
  <2>1. call'[u] = call[u] /\ CallLevel(h, u) /\ CallOK(u) /\ call[u] \in Call
    BY DEF TreeInv, TypeOK, Levels
  <2>2. CASE call[u].par # NoPage \/ call[u].new # NoPage
    <3>1. call[u].pc \in {"insert", "separate"}
      BY <2>1, <2>2 DEF CallOK
    <3>2. call[u].page \in Used /\ NoPage \notin Used
      BY <2>1, <3>1 DEF CallOK, Used, NoPage
    <3>3. /\ call[u].page \in InHand(u)
          /\ call[u].par # NoPage => call[u].par \in InHand(u)
          /\ call[u].new # NoPage => call[u].new \in InHand(u)
      BY <3>2 DEF InHand
    <3> QED
      BY <1>2, <2>1, <3>3 DEF CallLevel
  <2>3. CASE ~(call[u].par # NoPage \/ call[u].new # NoPage)
    BY <2>1, <2>3 DEF CallLevel
  <2> QED
    BY <2>2, <2>3
<1> QED
  BY <1>1, <1>4, <1>5, <1>6, <1>7 DEF TreeInv

\* A step that changes locks and the locals of its own call only.
LEMMA WalkKeeps ==
  ASSUME TreeInv, NEW t \in Threads,
         call' \in [Threads -> Call], \A u \in Threads \ {t} : call'[u] = call[u],
         answer' \in [Threads -> Answers],
         UNCHANGED <<nodes, size, unsaved>>,
         call[t].pc \in {"idle", "root", "find"},
         LocksInHand', lock' \in [PageIDs -> LockRecords(Threads)],
         CallOK(t)', call'[t].par = NoPage, call'[t].new = NoPage
  PROVE  TreeInv' /\ LevelsKept
<1>1. SUFFICES ASSUME NEW h \in [PageIDs -> Nat], Levels(h)
      PROVE  TreeInv' /\ Levels(h)'
  BY DEF TreeInv, LevelsKept
<1>2. /\ nodes' \in [PageIDs -> Node] /\ size' \in size..Cardinality(PageIDs)
      /\ unsaved' \subseteq PageIDs
  BY HandUsed DEF TreeInv, TypeOK
<1>3. \A p \in PageIDs : NodeOK(nodes'[p])
  BY DEF TreeInv, TypeOK, NodeOK
<1>4. /\ RoomOK(t)' /\ CallLevel(h, t)'
      /\ \A p \in Used' : Fits(nodes'[p]) /\ NodeLevel(h, p)'
  <2>1. Used' = Used /\ \A p \in Used : NodeLevel(h, p)' <=> NodeLevel(h, p)
    BY DEF Used, NodeLevel, root
  <2>2. ~At(t, "separate")'
    BY DEF CallOK, At, Used, NoPage
  <2> QED
    BY <1>1, <2>1, <2>2 DEF RoomOK, CallLevel, TreeInv, Levels
<1>5. ASSUME NEW p \in unsaved
      PROVE  ~(call[t].op = "insert" /\ Owns(t, p))
  <2>1. p \in PageIDs /\ CallOK(t) /\ ~At(t, "separate")
    BY DEF TreeInv, TypeOK, At
  <2>2. p # NoPage
    BY <2>1, BTreeAssumption DEF NoPage
  <2>3. /\ call[t].par = NoPage /\ call[t].new = NoPage
        /\ call[t].op = "insert" => call[t].page = NoPage
    BY <2>1 DEF CallOK, At
  <2> QED
    BY <2>1, <2>2, <2>3 DEF Owns
<1> QED
  BY <1>1, <1>2, <1>3, <1>4, <1>5, StepKeeps

-----------------------------------------------------------------------------
LEMMA BeginKeeps ==
  ASSUME TreeInv, NEW t \in Threads, NEW op \in AllOps, NEW k \in Keys, NEW v \in TIDs \cup {NoTID},
         op = "insert" => v \in TIDs, Begin(t, op, k, v)
  PROVE  TreeInv' /\ LevelsKept
<1> DEFINE c == [Idle EXCEPT !.pc = "root", !.op = op, !.key = k, !.tid = v]
<1>0. Idle \in Call
  BY DEF Idle, Call, Labels
<1>1. /\ c \in Call /\ c.pc = "root" /\ c.op = op /\ c.key = k /\ c.tid = v
      /\ c.page = Idle.page /\ c.par = Idle.par /\ c.new = Idle.new
  BY <1>0 DEF Call, Labels
<1> HIDE DEF c
<1>7. Idle.page = NoPage /\ Idle.par = NoPage /\ Idle.new = NoPage
  BY DEF Idle
<1>2. /\ call \in [Threads -> Call] /\ answer \in [Threads -> Answers] /\ CallOK(t)
      /\ lock \in [PageIDs -> LockRecords(Threads)] /\ At(t, "idle")
  BY DEF TreeInv, TypeOK, Begin
<1>3. call' = [call EXCEPT ![t] = c] /\ answer' = [answer EXCEPT ![t] = NotFound]
  BY DEF Begin, c
<1>4. /\ call' \in [Threads -> Call] /\ \A u \in Threads \ {t} : call'[u] = call[u]
      /\ call'[t] = c /\ answer' \in [Threads -> Answers]
  BY <1>1, <1>2, <1>3 DEF Answers, NotFound
<1>5. CallOK(t)'
  BY <1>1, <1>4, <1>7 DEF CallOK, AllOps
<1>6. LocksInHand' /\ lock' \in [PageIDs -> LockRecords(Threads)]
  <2>1. InHand(t) = {} /\ InHand(t)' = {}
    BY <1>1, <1>2, <1>4, <1>7 DEF InHand, CallOK, At
  <2>2. lock' = [p \in PageIDs |->
                    IF p \in {} THEN Unlocked(IF p \in {} THEN Fixed(t, p) ELSE lock[p], t)
                               ELSE IF p \in {} THEN Fixed(t, p) ELSE lock[p]]
    BY <1>2 DEF Begin
  <2> QED
    BY <1>4, <2>1, <2>2, LocksFollow
<1> QED
  <2>1. call'[t].par = NoPage /\ call'[t].new = NoPage /\ call[t].pc \in {"idle", "root", "find"}
    BY <1>1, <1>2, <1>4, <1>7 DEF At
  <2>2. UNCHANGED <<nodes, size, unsaved>>
    BY DEF Begin
  <2> QED
    BY <1>4, <1>5, <1>6, <2>1, <2>2, WalkKeeps

LEMMA FixRootKeeps ==
  ASSUME TreeInv, NEW t \in Threads, FixRoot(t)
  PROVE  TreeInv' /\ LevelsKept
<1>1. /\ call \in [Threads -> Call] /\ answer \in [Threads -> Answers] /\ CallOK(t)
      /\ lock \in [PageIDs -> LockRecords(Threads)] /\ call[t] \in Call /\ call[t].pc = "root"
      /\ root \in PageIDs /\ root \in Used
  BY HandUsed DEF TreeInv, TypeOK, FixRoot, At
<1> DEFINE l == IF call[t].op = "insert" THEN "insert" ELSE "find"
<1>2. call' = [call EXCEPT ![t] = [call[t] EXCEPT !.pc = l, !.page = root]]
  BY <1>1 DEF FixRoot, Call
<1>3. /\ [call[t] EXCEPT !.pc = l, !.page = root] \in Call
      /\ call' \in [Threads -> Call] /\ \A u \in Threads \ {t} : call'[u] = call[u]
  BY <1>1, <1>2 DEF Call, Labels
<1>4. /\ call'[t].pc = l /\ call'[t].page = root /\ call'[t].op = call[t].op
      /\ call'[t].key = call[t].key /\ call'[t].tid = call[t].tid
      /\ call'[t].par = call[t].par /\ call'[t].new = call[t].new
  BY <1>1, <1>2 DEF Call
<1>5. /\ call[t].op # "none" /\ call[t].key \in Keys /\ call[t].op = "insert" => call[t].tid \in TIDs
      /\ call[t].page = NoPage /\ call[t].par = NoPage /\ call[t].new = NoPage
  BY <1>1 DEF CallOK
<1>6. Used' = Used
  BY DEF Used, FixRoot
<1>7. CallOK(t)'
  BY <1>1, <1>4, <1>5, <1>6 DEF CallOK
<1>8. LocksInHand' /\ lock' \in [PageIDs -> LockRecords(Threads)]
  <2>1. InHand(t) = {} /\ InHand(t)' = ({} \cup {root}) \ {}
    BY <1>1, <1>4, <1>5 DEF InHand, root, NoPage
  <2>2. lock' = [p \in PageIDs |->
                    IF p \in {} THEN Unlocked(IF p \in {root} THEN Fixed(t, p) ELSE lock[p], t)
                               ELSE IF p \in {root} THEN Fixed(t, p) ELSE lock[p]]
    BY <1>1 DEF FixRoot
  <2>3. CanFix(t, root)
    BY DEF FixRoot
  <2> QED
    BY <1>1, <1>3, <1>4, <2>1, <2>2, <2>3, LocksFollow
<1> QED
  BY <1>1, <1>3, <1>4, <1>5, <1>7, <1>8, WalkKeeps DEF FixRoot

\* The child a call goes down to is a page in use that it has not in hand.
LEMMA ChildUnder ==
  ASSUME TreeInv, NEW t \in Threads, call[t].pc \in {"find", "insert"},
         ~nodes[call[t].page].leaf,
         NEW h \in [PageIDs -> Nat], Levels(h)
  PROVE  LET c == Child(nodes[call[t].page], call[t].key) IN
         /\ c \in Used \ {root} /\ c \notin InHand(t) /\ h[call[t].page] = h[c] + 1
         /\ c # call[t].page /\ c # call[t].par
<1> DEFINE p == call[t].page
           c == Child(nodes[p], call[t].key)
<1>1. CallOK(t) /\ p \in Used /\ p \in PageIDs /\ call[t].par \in Used \cup {NoPage}
  <2>1. CallOK(t)
    BY DEF TreeInv
  <2>2. p \in Used /\ call[t].par \in Used \cup {NoPage}
    BY <2>1 DEF CallOK
  <2> QED
    BY <2>1, <2>2, HandUsed
<1>2. NodeOK(nodes[p])
  BY <1>1 DEF TreeInv, TypeOK, NodeOK
<1>3. KeyIndex(nodes[p], call[t].key) \in DOMAIN nodes[p].children
      /\ c = nodes[p].children[KeyIndex(nodes[p], call[t].key)]
  BY <1>2, ChildIsChild
<1>4. NodeLevel(h, p) /\ CallLevel(h, t)
  BY <1>1 DEF Levels
<1>5. c \in Used \ {root} /\ h[c] + 1 = h[p]
  BY <1>3, <1>4 DEF NodeLevel
<1>6. c \in PageIDs /\ h[c] \in Nat /\ h[p] \in Nat /\ c # NoPage
  BY <1>1, <1>5, HandUsed DEF Used, NoPage
<1>7. c # p
  BY <1>5, <1>6
<1>8. c # call[t].par
  <2>1. ASSUME call[t].par # NoPage
        PROVE  h[call[t].par] = h[p] + 1 
    BY <1>4, <2>1 DEF CallLevel
  <2> QED
    BY <1>5, <1>6, <2>1
<1>9. call[t].new = NoPage
  BY <1>1 DEF CallOK
<1> QED
  BY <1>5, <1>6, <1>7, <1>8, <1>9 DEF InHand

LEMMA FindChildKeeps ==
  ASSUME TreeInv, NEW t \in Threads, FindChild(t)
  PROVE  TreeInv' /\ LevelsKept
<1> DEFINE p == call[t].page
           c == Child(nodes[p], call[t].key)
<1>1. /\ call \in [Threads -> Call] /\ answer \in [Threads -> Answers] /\ CallOK(t)
      /\ lock \in [PageIDs -> LockRecords(Threads)] /\ call[t] \in Call /\ call[t].pc = "find"
      /\ ~nodes[p].leaf /\ CanFix(t, c)
  BY DEF TreeInv, TypeOK, FindChild, At
<1>2. PICK h \in [PageIDs -> Nat] : Levels(h)
  BY DEF TreeInv
<1>3. c \in Used \ {root} /\ c \notin InHand(t) /\ c # p
  BY <1>1, <1>2, ChildUnder
<1>4. p \in Used /\ p \in PageIDs /\ c \in PageIDs /\ NoPage \notin PageIDs
  BY <1>1, <1>3, HandUsed DEF CallOK, NoPage
<1>5. call' = [call EXCEPT ![t] = [call[t] EXCEPT !.page = c]]
      /\ lock' = Unfixed([lock EXCEPT ![c] = Fixed(t, c)], t, {p})
  BY DEF FindChild
<1> HIDE DEF c
<1>6. /\ call' \in [Threads -> Call] /\ \A u \in Threads \ {t} : call'[u] = call[u]
      /\ call'[t] = [call[t] EXCEPT !.page = c]
  BY <1>1, <1>4, <1>5 DEF Call
<1>7. /\ call'[t].pc = call[t].pc /\ call'[t].page = c /\ call'[t].op = call[t].op
      /\ call'[t].key = call[t].key /\ call'[t].tid = call[t].tid
      /\ call'[t].par = call[t].par /\ call'[t].new = call[t].new
  BY <1>1, <1>6 DEF Call
<1>8. call[t].par = NoPage /\ call[t].new = NoPage /\ Used' = Used
  BY <1>1 DEF CallOK, Used, FindChild
<1>9. CallOK(t)'
  BY <1>1, <1>3, <1>7, <1>8 DEF CallOK
<1>10. LocksInHand' /\ lock' \in [PageIDs -> LockRecords(Threads)]
  <2>1. InHand(t) = {p} /\ InHand(t)' = {c}
    BY <1>4, <1>7, <1>8 DEF InHand
  <2>2. /\ InHand(t)' = (InHand(t) \cup {c}) \ {p}
        /\ {c} \in SUBSET PageIDs /\ {p} \in SUBSET PageIDs
        /\ \A q \in {c} : q \notin InHand(t) /\ CanFix(t, q)
    BY <1>1, <1>3, <1>4, <2>1 DEF c
  <2>3. lock' = [q \in PageIDs |->
                    IF q \in {p} THEN Unlocked(IF q \in {c} THEN Fixed(t, q) ELSE lock[q], t)
                               ELSE IF q \in {c} THEN Fixed(t, q) ELSE lock[q]]
    BY <1>1, <1>4, <1>5 DEF Unfixed
  <2> QED
    BY <1>6, <1>7, <2>2, <2>3, LocksFollow
<1> QED
  BY <1>1, <1>6, <1>7, <1>8, <1>9, <1>10, WalkKeeps DEF FindChild

\* The call is over.
LEMMA Over ==
  ASSUME call \in [Threads -> Call], NEW t \in Threads, call' = [call EXCEPT ![t] = Idle]
  PROVE  /\ call' \in [Threads -> Call] /\ \A u \in Threads \ {t} : call'[u] = call[u]
         /\ call'[t].par = NoPage /\ call'[t].new = NoPage /\ call'[t].page = NoPage
         /\ InHand(t)' = {}
         /\ CallOK(t)' /\ RoomOK(t)' /\ \A h : CallLevel(h, t)'
<1>1. Idle \in Call
  BY DEF Idle, Call, Labels
<1>2. /\ call' \in [Threads -> Call] /\ \A u \in Threads \ {t} : call'[u] = call[u]
      /\ call'[t] = Idle
  BY <1>1
<1>3. /\ Idle.pc = "idle" /\ Idle.op = "none" /\ Idle.page = NoPage /\ Idle.par = NoPage
      /\ Idle.new = NoPage
  BY DEF Idle
<1>4. InHand(t)' = {}
  BY <1>2, <1>3 DEF InHand
<1>5. CallOK(t)'
  BY <1>2, <1>3 DEF CallOK
<1> QED
  BY <1>2, <1>3, <1>4, <1>5 DEF RoomOK, CallLevel, At

LEMMA LookupLeafKeeps ==
  ASSUME TreeInv, NEW t \in Threads, LookupLeaf(t)
  PROVE  TreeInv' /\ LevelsKept
<1> DEFINE p == call[t].page
           k == call[t].key
           n == nodes[p]
<1>1. /\ call \in [Threads -> Call] /\ answer \in [Threads -> Answers] /\ CallOK(t)
      /\ lock \in [PageIDs -> LockRecords(Threads)] /\ call[t].pc = "find"
      /\ n.leaf /\ call' = [call EXCEPT ![t] = Idle]
      /\ lock' = Unfixed(lock, t, {p})
  BY DEF TreeInv, TypeOK, LookupLeaf, At
<1>2. /\ p \in Used /\ p \in PageIDs /\ NoPage \notin PageIDs
      /\ call[t].par = NoPage /\ call[t].new = NoPage
  BY <1>1, HandUsed DEF CallOK, NoPage
<1>3. answer' \in [Threads -> Answers]
  <2>1. ASSUME Has(n, k)
        PROVE  n.tids[KeyIndex(n, k)] \in TIDs
    <3>1. NodeOK(n)
      BY <1>2 DEF TreeInv, TypeOK, NodeOK
    <3>2. n.tids \in Seq(TIDs) /\ Len(n.tids) = Len(n.keys) /\ Len(n.keys) \in Nat
      BY <1>1, <3>1 DEF NodeOK, Node
    <3>3. KeyIndex(n, k) \in 1..Len(n.tids)
      BY <2>1, <3>1, <3>2, KeyIndexRange DEF Has
    <3> QED
      BY <3>2, <3>3
  <2> DEFINE a == IF Has(n, k) THEN [found |-> TRUE, tid |-> n.tids[KeyIndex(n, k)]]
                               ELSE NotFound
  <2>2. a \in Answers
    BY <2>1 DEF Answers, NotFound
  <2>3. answer' = [answer EXCEPT ![t] = a]
    BY DEF LookupLeaf
  <2> HIDE DEF a
  <2> QED
    BY <1>1, <2>2, <2>3
<1>4. LocksInHand' /\ lock' \in [PageIDs -> LockRecords(Threads)]
  <2>1. /\ InHand(t)' = (InHand(t) \cup {}) \ {p} /\ InHand(t)' = {}
        /\ \A u \in Threads \ {t} : call'[u] = call[u]
    BY <1>1, <1>2, Over DEF InHand
  <2>2. lock' = [q \in PageIDs |->
                    IF q \in {p} THEN Unlocked(IF q \in {} THEN Fixed(t, q) ELSE lock[q], t)
                               ELSE IF q \in {} THEN Fixed(t, q) ELSE lock[q]]
    BY <1>1 DEF Unfixed
  <2>3. {p} \in SUBSET PageIDs /\ {} \in SUBSET PageIDs
    BY <1>2
  <2> QED
    BY <2>1, <2>2, <2>3, LocksFollow
<1>5. UNCHANGED <<nodes, size, unsaved>>
  BY DEF LookupLeaf
<1>6. /\ call' \in [Threads -> Call] /\ \A u \in Threads \ {t} : call'[u] = call[u]
      /\ call'[t].par = NoPage /\ call'[t].new = NoPage /\ CallOK(t)'
  BY <1>1, Over
<1> QED
  BY <1>1, <1>3, <1>4, <1>5, <1>6, WalkKeeps

(***************************************************************************)
(* A call that changes the leaf it holds exclusively and ends.             *)
(***************************************************************************)
LEMMA LeafKeeps ==
  ASSUME TreeInv, NEW t \in Threads, call[t].pc \in {"find", "insert"}, call[t].op # "lookup",
         nodes[call[t].page].leaf,
         NEW n, NodeOK(n), n.leaf, Fits(n),
         nodes' = [nodes EXCEPT ![call[t].page] = n],
         call' = [call EXCEPT ![t] = Idle], size' = size,
         answer' \in [Threads -> Answers],
         lock' = Unfixed(lock, t, {call[t].page} \cup Parent(t)),
         unsaved' \subseteq unsaved,
         call[t].pc = "insert" => unsaved' = unsaved \ ({call[t].page} \cup DirtyParent(t))
  PROVE  TreeInv' /\ LevelsKept
<1>2. SUFFICES ASSUME NEW h \in [PageIDs -> Nat], Levels(h)
      PROVE  TreeInv' /\ Levels(h)'
  BY DEF TreeInv, LevelsKept
<1> DEFINE p == call[t].page
<1>1. /\ call \in [Threads -> Call] /\ CallOK(t) /\ call[t] \in Call
      /\ lock \in [PageIDs -> LockRecords(Threads)]
      /\ nodes \in [PageIDs -> Node] /\ \A q \in PageIDs : NodeOK(nodes[q])
      /\ unsaved \subseteq PageIDs
  BY DEF TreeInv, TypeOK, NodeOK
<1>3. /\ p \in Used /\ call[t].new = NoPage /\ call[t].par \in Used \cup {NoPage}
      /\ Used \subseteq PageIDs /\ NoPage \notin PageIDs /\ size \in Nat
      /\ call[t].pc = "find" => call[t].op # "insert"
  BY <1>1, HandUsed DEF CallOK, NoPage
<1>4. /\ call' \in [Threads -> Call] /\ \A u \in Threads \ {t} : call'[u] = call[u]
      /\ call'[t].par = NoPage /\ call'[t].new = NoPage /\ CallOK(t)'
      /\ RoomOK(t)' /\ CallLevel(h, t)' /\ InHand(t)' = {}
  BY <1>1, Over
<1>5. InHand(t) = {p} \cup Parent(t)
  BY <1>3 DEF InHand, Parent
<1>6. LocksInHand' /\ lock' \in [PageIDs -> LockRecords(Threads)]
  <2> DEFINE G == {p} \cup Parent(t)
  <2>1. G \in SUBSET PageIDs /\ {} \in SUBSET PageIDs
    BY <1>3 DEF Parent
  <2>2. InHand(t)' = (InHand(t) \cup {}) \ G
    BY <1>4, <1>5
  <2>3. lock' = [q \in PageIDs |->
                    IF q \in G THEN Unlocked(IF q \in {} THEN Fixed(t, q) ELSE lock[q], t)
                               ELSE IF q \in {} THEN Fixed(t, q) ELSE lock[q]]
    BY DEF Unfixed
  <2> HIDE DEF G
  <2> QED
    BY <1>4, <2>1, <2>2, <2>3, LocksFollow
<1>7. /\ nodes' \in [PageIDs -> Node] /\ \A q \in PageIDs : NodeOK(nodes'[q])
      /\ nodes'[p] = n /\ \A q \in PageIDs \ {p} : nodes'[q] = nodes[q]
  BY <1>1, <1>3 DEF NodeOK
<1>8. \A q \in Used : nodes'[q] # nodes[q] => q \in InHand(t) /\ call[t].op # "lookup"
  BY <1>3, <1>5, <1>7
<1>9. Used' = Used
  BY DEF Used
<1>10. \A q \in Used' : Fits(nodes'[q]) /\ NodeLevel(h, q)'
  <2> SUFFICES ASSUME NEW q \in Used
               PROVE  Fits(nodes'[q]) /\ NodeLevel(h, q)'
    BY <1>9
  <2>1. Fits(nodes[q]) /\ NodeLevel(h, q)
    BY <1>2 DEF Levels, TreeInv
  <2>2. CASE q = p
    <3>1. n.children = << >> /\ nodes'[q] = n
      BY <1>7, <2>2 DEF NodeOK
    <3>2. h[q] = 0
      BY <2>1, <2>2 DEF NodeLevel
    <3> QED
      BY <3>1, <3>2 DEF NodeLevel
  <2>3. CASE q # p
    BY <1>3, <1>7, <1>9, <2>1, <2>3 DEF NodeLevel, root
  <2> QED
    BY <2>2, <2>3
<1>11. ASSUME NEW q \in unsaved'
       PROVE  q \in unsaved /\ ~(call[t].op = "insert" /\ Owns(t, q))
  <2>1. q \in unsaved /\ q \in PageIDs
    BY <1>1
  <2>2. CASE call[t].op = "insert"
    <3>1. q # p /\ q \notin DirtyParent(t)
      BY <1>3, <2>2
    <3> QED
      BY <1>3, <2>1, <3>1 DEF Owns, DirtyParent, Parent
  <2> QED
    BY <2>1, <2>2
<1>12. size' \in size..Cardinality(PageIDs) /\ unsaved' \subseteq PageIDs
  BY <1>1, <1>3 DEF TreeInv, TypeOK
<1> QED
  BY <1>2, <1>4, <1>6, <1>7, <1>8, <1>10, <1>11, <1>12, StepKeeps

LEMMA EraseLeafKeeps ==
  ASSUME TreeInv, NEW t \in Threads, EraseLeaf(t)
  PROVE  TreeInv' /\ LevelsKept
<1> DEFINE p == call[t].page
           n == LeafRemove(nodes[p], call[t].key)
           found == KeyIndex(nodes[p], call[t].key) <= Len(nodes[p].keys)
<1>1. /\ CallOK(t) /\ At(t, "find") /\ call[t].op = "erase" /\ nodes[p].leaf
      /\ answer \in [Threads -> Answers] /\ nodes \in [PageIDs -> Node]
      /\ lock' = Unfixed(lock, t, {p})
      /\ call' = [call EXCEPT ![t] = Idle] /\ size' = size
      /\ unsaved' \subseteq unsaved
  BY DEF TreeInv, TypeOK, EraseLeaf
<1>2. p \in Used /\ p \in PageIDs /\ call[t].par = NoPage
  BY <1>1, HandUsed DEF CallOK, At
<1>3. NodeOK(nodes[p]) /\ Fits(nodes[p])
  BY <1>2 DEF TreeInv, TypeOK, NodeOK
<1>4. NodeOK(n) /\ n.leaf /\ Count(n) \in {Count(nodes[p]), Count(nodes[p]) - 1}
  BY <1>1, <1>3, LeafRemoveOK
<1>5. Fits(n)
  <2>1. Full(n) = LeafOrder /\ Full(nodes[p]) = LeafOrder /\ LeafOrder \in Nat
    BY <1>1, <1>4, BTreeAssumption DEF Full
  <2>2. Count(nodes[p]) \in Nat
    BY <1>1, <1>3 DEF NodeOK, Node, Count
  <2> QED
    BY <1>3, <1>4, <2>1, <2>2 DEF Fits
<1>6. nodes' = [nodes EXCEPT ![p] = n]
  BY <1>2, <1>1 DEF EraseLeaf
<1>7. answer' \in [Threads -> Answers]
  <2>1. answer' = [answer EXCEPT ![t] = [found |-> found, tid |-> NoTID]]
    BY DEF EraseLeaf
  <2>2. [found |-> found, tid |-> NoTID] \in Answers
    BY DEF Answers
  <2> QED
    BY <1>1, <2>1, <2>2
<1>8. Parent(t) = {}
  BY <1>2 DEF Parent
<1> HIDE DEF n
<1> QED
  BY <1>1, <1>4, <1>5, <1>6, <1>7, <1>8, LeafKeeps DEF At

LEMMA InsertLeafKeeps ==
  ASSUME TreeInv, NEW t \in Threads, InsertLeaf(t)
  PROVE  TreeInv' /\ LevelsKept
<1> DEFINE p == call[t].page
           n == LeafInsert(nodes[p], call[t].key, call[t].tid)
<1>1. /\ CallOK(t) /\ At(t, "insert") /\ nodes[p].leaf /\ ~IsFull(nodes[p])
      /\ answer \in [Threads -> Answers] /\ nodes \in [PageIDs -> Node]
      /\ lock' = Unfixed(lock, t, {p} \cup Parent(t))
      /\ call' = [call EXCEPT ![t] = Idle] /\ size' = size /\ answer' = answer
      /\ unsaved' = unsaved \ ({p} \cup DirtyParent(t))
  BY DEF TreeInv, TypeOK, InsertLeaf
<1>2. /\ p \in Used /\ p \in PageIDs /\ call[t].op = "insert"
      /\ call[t].key \in Keys /\ call[t].tid \in TIDs
  BY <1>1, HandUsed DEF CallOK, At
<1>3. NodeOK(nodes[p]) /\ Fits(nodes[p])
  BY <1>2 DEF TreeInv, TypeOK, NodeOK
<1>4. NodeOK(n) /\ n.leaf /\ Count(n) \in {Count(nodes[p]), Count(nodes[p]) + 1}
  BY <1>1, <1>2, <1>3, LeafInsertOK
<1>5. Fits(n)
  <2>1. Full(n) = LeafOrder /\ Full(nodes[p]) = LeafOrder /\ LeafOrder \in Nat
        /\ Count(nodes[p]) # LeafOrder
    BY <1>1, <1>4, BTreeAssumption DEF Full, IsFull
  <2>2. Count(nodes[p]) \in Nat
    BY <1>1, <1>3 DEF NodeOK, Node, Count
  <2> QED
    BY <1>3, <1>4, <2>1, <2>2 DEF Fits
<1>6. nodes' = [nodes EXCEPT ![p] = n]
  BY <1>2, <1>1 DEF InsertLeaf
<1> HIDE DEF n
<1> QED
  BY <1>1, <1>2, <1>4, <1>5, <1>6, LeafKeeps DEF At

LEMMA DescendKeeps ==
  ASSUME TreeInv, NEW t \in Threads, Descend(t)
  PROVE  TreeInv' /\ LevelsKept
<1>2. SUFFICES ASSUME NEW h \in [PageIDs -> Nat], Levels(h)
      PROVE  TreeInv' /\ Levels(h)'
  BY DEF TreeInv, LevelsKept
<1> DEFINE p == call[t].page
           c == Child(nodes[p], call[t].key)
<1>1. /\ call \in [Threads -> Call] /\ CallOK(t) /\ call[t] \in Call /\ call[t].pc = "insert"
      /\ lock \in [PageIDs -> LockRecords(Threads)] /\ answer' \in [Threads -> Answers]
      /\ nodes' \in [PageIDs -> Node] /\ \A q \in PageIDs : NodeOK(nodes'[q])
      /\ unsaved \subseteq PageIDs /\ nodes' = nodes /\ size' = size
      /\ ~IsFull(nodes[p]) /\ ~nodes[p].leaf /\ CanFix(t, c)
      /\ lock' = Unfixed([lock EXCEPT ![c] = Fixed(t, c)], t, Parent(t))
      /\ unsaved' = unsaved \ DirtyParent(t)
      /\ call' = [call EXCEPT ![t].par = p, ![t].page = c,
                              ![t].parDirty = call[t].bfDirty, ![t].bfDirty = FALSE]
  BY DEF TreeInv, TypeOK, NodeOK, Descend, At
<1>3. c \in Used \ {root} /\ c \notin InHand(t) /\ c # p /\ h[p] = h[c] + 1
  BY <1>1, <1>2, ChildUnder
<1>4. /\ p \in Used /\ p \in PageIDs /\ c \in PageIDs /\ NoPage \notin PageIDs
      /\ Used \subseteq PageIDs /\ call[t].op = "insert" /\ call[t].new = NoPage
      /\ call[t].par \in Used \cup {NoPage} /\ call[t].key \in Keys /\ call[t].tid \in TIDs
  BY <1>1, <1>3, HandUsed DEF CallOK, NoPage
<1> HIDE DEF c
<1>5. /\ call' \in [Threads -> Call] /\ \A u \in Threads \ {t} : call'[u] = call[u]
      /\ call'[t] = [call[t] EXCEPT !.par = p, !.page = c,
                                    !.parDirty = call[t].bfDirty, !.bfDirty = FALSE]
  BY <1>1, <1>4 DEF Call
<1>6. /\ call'[t].pc = "insert" /\ call'[t].op = "insert" /\ call'[t].new = NoPage
      /\ call'[t].key = call[t].key /\ call'[t].tid = call[t].tid
      /\ call'[t].par = p /\ call'[t].page = c
      /\ call'[t].parDirty = call[t].bfDirty /\ call'[t].bfDirty = FALSE
  BY <1>1, <1>4, <1>5 DEF Call
<1>7. Used' = Used
  BY <1>1 DEF Used
<1>8. CallOK(t)'
  BY <1>3, <1>4, <1>6, <1>7 DEF CallOK
<1>9. RoomOK(t)'
  BY <1>1, <1>6 DEF RoomOK, At
<1>10. CallLevel(h, t)'
  BY <1>3, <1>6 DEF CallLevel
<1>11. p # call[t].par
  <2>1. CallLevel(h, t) /\ h[p] \in Nat
    BY <1>2, <1>4 DEF Levels
  <2> QED
    BY <1>4, <2>1 DEF CallLevel
<1>12. LocksInHand' /\ lock' \in [PageIDs -> LockRecords(Threads)]
  <2> DEFINE G == Parent(t)
  <2>1. InHand(t)' = {c, p} /\ InHand(t) = {p} \cup Parent(t)
    BY <1>4, <1>6 DEF InHand, Parent
  <2>2. /\ InHand(t)' = (InHand(t) \cup {c}) \ G
        /\ {c} \in SUBSET PageIDs /\ G \in SUBSET PageIDs
        /\ \A q \in {c} : q \notin InHand(t) /\ CanFix(t, q)
    BY <1>1, <1>3, <1>4, <1>11, <2>1 DEF c, Parent
  <2>3. lock' = [q \in PageIDs |->
                    IF q \in G THEN Unlocked(IF q \in {c} THEN Fixed(t, q) ELSE lock[q], t)
                               ELSE IF q \in {c} THEN Fixed(t, q) ELSE lock[q]]
    BY <1>1, <1>4 DEF Unfixed, c
  <2>4. call'[t].op = call[t].op
    BY <1>4, <1>6
  <2> HIDE DEF G
  <2> QED
    BY <1>5, <2>2, <2>3, <2>4, LocksFollow
<1>13. ASSUME NEW q \in unsaved'
       PROVE  \/ call'[t].op = "insert" /\ Owns(t, q)'
              \/ q \in unsaved /\ ~(call[t].op = "insert" /\ Owns(t, q))
  <2>1. q \in unsaved /\ q \in PageIDs /\ q # NoPage /\ q \notin DirtyParent(t)
    BY <1>1, <1>4
  <2>2. ASSUME Owns(t, q)
        PROVE  Owns(t, q)'
    <3>1. q = p /\ call[t].bfDirty
      BY <1>1, <1>4, <2>1, <2>2 DEF Owns, At, DirtyParent, Parent
    <3> QED
      BY <1>6, <3>1 DEF Owns
  <2> QED
    BY <1>6, <2>1, <2>2
<1>14. \A q \in Used' : Fits(nodes'[q]) /\ NodeLevel(h, q)'
  <2>1. \A q \in Used : NodeLevel(h, q)' <=> NodeLevel(h, q)
    BY <1>1, <1>7 DEF NodeLevel, root
  <2> QED
    BY <1>1, <1>2, <1>7, <2>1 DEF Levels, TreeInv
<1>15. size' \in size..Cardinality(PageIDs) /\ unsaved' \subseteq PageIDs
  BY <1>1, HandUsed DEF TreeInv, TypeOK
<1> HIDE DEF p
<1> QED
  BY <1>1, <1>2, <1>5, <1>8, <1>9, <1>10, <1>12, <1>13, <1>14, <1>15, StepKeeps

LEMMA SplitKeeps ==
  ASSUME TreeInv, NEW t \in Threads, Split(t)
  PROVE  /\ TreeInv'
         /\ \A h \in [PageIDs -> Nat] : Levels(h) =>
               \E g \in [PageIDs -> Nat] : /\ Levels(g)' /\ g[size] = h[call[t].page]
                                          /\ \A q \in Used : g[q] = h[q]
<1> DEFINE p == call[t].page
           n == nodes[p]
<1>1. /\ call \in [Threads -> Call] /\ CallOK(t) /\ RoomOK(t) /\ call[t] \in Call
      /\ call[t].pc = "insert"
      /\ lock \in [PageIDs -> LockRecords(Threads)] /\ answer' \in [Threads -> Answers]
      /\ nodes \in [PageIDs -> Node] /\ \A q \in PageIDs : NodeOK(nodes[q])
      /\ unsaved \subseteq PageIDs
      /\ IsFull(n) /\ size \in PageIDs /\ CanWrLock(lock[size], t)
      /\ nodes' = [nodes EXCEPT ![p] = LeftHalf(n), ![size] = RightHalf(n)]
      /\ unsaved' = unsaved \cup {p, size}
      /\ call' = [call EXCEPT ![t].pc = "separate", ![t].new = size, ![t].sep = Separator(n)]
      /\ lock' = [lock EXCEPT ![size] = WrLocked(@, t)] /\ size' = size + 1
  BY DEF TreeInv, TypeOK, NodeOK, Split, At
<1>2. SUFFICES ASSUME NEW h \in [PageIDs -> Nat], Levels(h)
      PROVE  /\ TreeInv'
             /\ \E g \in [PageIDs -> Nat] : /\ Levels(g)' /\ g[size] = h[p]
                                            /\ \A q \in Used : g[q] = h[q]
  BY DEF TreeInv
<1>3. /\ p \in Used /\ p \in PageIDs /\ NoPage \notin PageIDs /\ NoPage \notin Used
      /\ Used \subseteq PageIDs /\ call[t].op = "insert" /\ call[t].new = NoPage
      /\ call[t].par \in Used \cup {NoPage} /\ call[t].key \in Keys /\ call[t].tid \in TIDs
      /\ call[t].par = NoPage => p = root
  BY <1>1, HandUsed DEF CallOK, NoPage
<1>4. /\ size \notin Used /\ size # root /\ Used' = Used \cup {size} /\ size \in Nat
      /\ size # NoPage /\ p # size
  BY <1>1, <1>3, HandUsed DEF Used, root, NoPage, TreeInv, TypeOK
<1>5. /\ NodeOK(LeftHalf(n)) /\ NodeOK(RightHalf(n))
      /\ LeftHalf(n).leaf = n.leaf /\ RightHalf(n).leaf = n.leaf
      /\ Count(LeftHalf(n)) < Full(n) /\ Count(RightHalf(n)) < Full(n)
      /\ Separator(n) \in Keys
      /\ \A j \in DOMAIN LeftHalf(n).children :
            \E i \in DOMAIN n.children : LeftHalf(n).children[j] = n.children[i]
      /\ \A j \in DOMAIN RightHalf(n).children :
            \E i \in DOMAIN n.children : RightHalf(n).children[j] = n.children[i]
  BY <1>1, <1>3, HalvesOK
<1>6. /\ nodes' \in [PageIDs -> Node] /\ \A q \in PageIDs : NodeOK(nodes'[q])
      /\ nodes'[p] = LeftHalf(n) /\ nodes'[size] = RightHalf(n)
      /\ \A q \in PageIDs \ {p, size} : nodes'[q] = nodes[q]
  BY <1>1, <1>3, <1>4, <1>5 DEF NodeOK
<1>7. ASSUME NEW m, NodeOK(m), m.leaf = n.leaf, Count(m) < Full(n)
      PROVE  Fits(m) /\ ~IsFull(m)
  <2>1. Full(m) = Full(n)
    BY <1>7 DEF Full
  <2>2. Full(m) \in Nat
    BY BTreeAssumption DEF Full
  <2>3. Count(m) \in Nat
    <3>1. m \in Node
      BY <1>7 DEF NodeOK
    <3>2. Len(m.keys) \in Nat /\ Len(m.children) \in Nat
      BY <3>1 DEF Node
    <3> QED
      BY <3>2 DEF Count
  <2>4. IsFull(m) <=> Count(m) = Full(m)
    BY DEF IsFull, Full
  <2> QED
    BY <1>7, <2>1, <2>2, <2>3, <2>4 DEF Fits
<1>8. /\ call' \in [Threads -> Call] /\ \A u \in Threads \ {t} : call'[u] = call[u]
      /\ call'[t] = [call[t] EXCEPT !.pc = "separate", !.new = size, !.sep = Separator(n)]
  BY <1>1, <1>5 DEF Call, Labels
<1>9. /\ call'[t].pc = "separate" /\ call'[t].op = "insert" /\ call'[t].new = size
      /\ call'[t].key = call[t].key /\ call'[t].tid = call[t].tid
      /\ call'[t].par = call[t].par /\ call'[t].page = p /\ call'[t].sep = Separator(n)
      /\ call'[t].parDirty = call[t].parDirty /\ call'[t].bfDirty = call[t].bfDirty
  BY <1>1, <1>3, <1>8 DEF Call
<1>10. CallOK(t)'
  BY <1>3, <1>4, <1>5, <1>9 DEF CallOK
<1>11. RoomOK(t)'
  <2>1. ASSUME call[t].par # NoPage
        PROVE  /\ ~nodes'[call[t].par].leaf /\ ~IsFull(nodes'[call[t].par])
    <3>1. ~nodes[call[t].par].leaf /\ ~IsFull(nodes[call[t].par])
      BY <1>1, <2>1 DEF RoomOK
    <3>2. call[t].par # p
      BY <1>1, <3>1
    <3>3. call[t].par \in PageIDs \ {p, size}
      BY <1>3, <1>4, <2>1, <3>2
    <3> QED
      BY <1>6, <3>1, <3>3
  <2>2. ~IsFull(nodes'[p]) /\ ~IsFull(nodes'[size])
    BY <1>5, <1>6, <1>7
  <2> QED
    BY <1>9, <2>1, <2>2 DEF RoomOK
<1>12. PICK g \in [PageIDs -> Nat] : g[size] = h[p] /\ \A q \in Used : g[q] = h[q]
  <2> DEFINE g == [h EXCEPT ![size] = h[p]]
  <2>1. g \in [PageIDs -> Nat] /\ g[size] = h[p] /\ \A q \in Used : g[q] = h[q]
    BY <1>1, <1>3, <1>4
  <2> QED
    BY <2>1
<1>13. CallLevel(g, t)'
  <2>1. call[t].par # NoPage => h[call[t].par] = h[p] + 1
    BY <1>2 DEF Levels, CallLevel
  <2>2. call[t].par # NoPage => g[call[t].par] = g[p] + 1
    BY <1>3, <1>12, <2>1
  <2>3. g[size] = g[p]
    BY <1>3, <1>12
  <2> QED
    BY <1>9, <2>2, <2>3 DEF CallLevel
<1>14. ASSUME NEW q \in Used'
       PROVE  Fits(nodes'[q]) /\ NodeLevel(g, q)'
  <2>1. /\ \A r \in Used : NodeLevel(h, r) /\ Fits(nodes[r])
        /\ \A c \in Used \ {root} : g[c] = h[c] /\ c \in Used' \ {root}
    BY <1>2, <1>4, <1>12 DEF Levels, TreeInv
  <2>2. CASE q \in {p, size}
    <3>1. /\ nodes'[q].leaf = n.leaf /\ Fits(nodes'[q]) /\ g[q] = h[p]
          /\ \A j \in DOMAIN nodes'[q].children :
                \E i \in DOMAIN n.children : nodes'[q].children[j] = n.children[i]
      <4>1. CASE q = p
        BY <1>3, <1>5, <1>6, <1>7, <1>12, <4>1
      <4>2. CASE q = size
        BY <1>5, <1>6, <1>7, <1>12, <4>2
      <4> QED
        BY <2>2, <4>1, <4>2
    <3>2. NodeLevel(h, p)
      BY <1>3, <2>1
    <3>3. nodes'[q].leaf <=> g[q] = 0
      BY <3>1, <3>2 DEF NodeLevel
    <3>4. \A i \in DOMAIN n.children : n.children[i] \in Used \ {root} /\ h[n.children[i]] + 1 = h[p]
      BY <3>2 DEF NodeLevel
    <3>5. \A j \in DOMAIN nodes'[q].children :
             nodes'[q].children[j] \in Used' \ {root} /\ g[nodes'[q].children[j]] + 1 = g[q]
      BY <2>1, <3>1, <3>4
    <3> QED
      BY <3>1, <3>3, <3>5 DEF NodeLevel, root
  <2>3. CASE q \notin {p, size}
    <3>1. q \in Used /\ nodes'[q] = nodes[q] /\ g[q] = h[q]
      BY <1>3, <1>4, <1>6, <1>12, <2>3
    <3>2. NodeLevel(h, q) /\ Fits(nodes[q])
      BY <2>1, <3>1
    <3>3. nodes'[q].leaf <=> g[q] = 0
      BY <3>1, <3>2 DEF NodeLevel
    <3>4. \A i \in DOMAIN nodes'[q].children :
             nodes'[q].children[i] \in Used' \ {root} /\ g[nodes'[q].children[i]] + 1 = g[q]
      BY <2>1, <3>1, <3>2 DEF NodeLevel
    <3> QED
      BY <3>1, <3>2, <3>3, <3>4 DEF NodeLevel, root
  <2> QED
    BY <2>2, <2>3
<1>15. LocksInHand' /\ lock' \in [PageIDs -> LockRecords(Threads)]
  <2>1. InHand(t)' = InHand(t) \cup {size}
    BY <1>3, <1>4, <1>9 DEF InHand
  <2>2. size \notin InHand(t)
    BY <1>4, HandUsed
  <2>3. /\ InHand(t)' = (InHand(t) \cup {size}) \ {}
        /\ {size} \in SUBSET PageIDs /\ {} \in SUBSET PageIDs
        /\ \A q \in {size} : q \notin InHand(t) /\ CanFix(t, q)
    BY <1>1, <1>3, <2>1, <2>2 DEF CanFix
  <2>4. lock' = [q \in PageIDs |->
                    IF q \in {} THEN Unlocked(IF q \in {size} THEN Fixed(t, q) ELSE lock[q], t)
                               ELSE IF q \in {size} THEN Fixed(t, q) ELSE lock[q]]
    BY <1>1, <1>3 DEF Fixed
  <2>5. call'[t].op = call[t].op
    BY <1>3, <1>9
  <2> QED
    BY <1>8, <2>3, <2>4, <2>5, LocksFollow
<1>16. ASSUME NEW q \in unsaved'
       PROVE  \/ call'[t].op = "insert" /\ Owns(t, q)'
              \/ q \in unsaved /\ ~(call[t].op = "insert" /\ Owns(t, q))
  <2>1. CASE q \in {p, size}
    BY <1>9, <2>1 DEF Owns, At
  <2>2. CASE q \notin {p, size}
    <3>1. q \in unsaved /\ q # NoPage
      BY <1>1, <1>3, <2>2
    <3>2. Owns(t, q) => Owns(t, q)'
      BY <1>3, <1>9, <3>1 DEF Owns, At
    <3> QED
      BY <1>9, <3>1, <3>2
  <2> QED
    BY <2>1, <2>2
<1>17. /\ size' \in size..Cardinality(PageIDs) /\ unsaved' \subseteq PageIDs
       /\ answer' \in [Threads -> Answers]
  <2>1. size' \in size..Cardinality(PageIDs)
    <3>1. size \in PageIDs /\ size' = size + 1
      BY <1>1
    <3>2. PageIDs = 0..(Cardinality(PageIDs) - 1) /\ Cardinality(PageIDs) \in Nat
      BY HandUsed
    <3> QED
      BY ONLY <3>1, <3>2
  <2>2. unsaved' \subseteq PageIDs
    BY <1>1, <1>3
  <2>3. answer' \in [Threads -> Answers]
    BY <1>1, <1>3
  <2> QED
    BY <2>1, <2>2, <2>3
<1>18. \A q \in Used : nodes'[q] # nodes[q] => q \in InHand(t) /\ call[t].op # "lookup"
  BY <1>3, <1>4, <1>6 DEF InHand
<1>19. \A q \in Used : g[q] # h[q] => q \in InHand(t) /\ call[t].op # "lookup"
  BY <1>12
<1> HIDE DEF p, n
<1> QED
  <2>1. h \in [PageIDs -> Nat] /\ Levels(h)
    BY <1>2
  <2>2. g \in [PageIDs -> Nat] /\ (\A q \in Used' : NodeLevel(g, q)') /\ CallLevel(g, t)'
    BY <1>12, <1>13, <1>14
  <2>3. /\ call' \in [Threads -> Call] /\ \A u \in Threads \ {t} : call'[u] = call[u]
        /\ nodes' \in [PageIDs -> Node] /\ \A q \in PageIDs : NodeOK(nodes'[q])
    BY <1>6, <1>8
  <2>4. \A q \in Used' : Fits(nodes'[q])
    BY <1>14
  <2>5. TreeInv' /\ Levels(g)'
    BY ONLY TreeInv, <1>10, <1>11, <1>15, <1>16, <1>17, <1>18, <1>19, <2>1, <2>2, <2>3, <2>4,
            t \in Threads, StepKeeps
  <2> QED
    BY <1>12, <2>5

(***************************************************************************)
(* Choose, after a node p has been split into p and new and par is their   *)
(* parent: what becomes of the call, its locks and the unsaved pages.      *)
(***************************************************************************)
LEMMA ChooseLocals ==
  ASSUME call \in [Threads -> Call], NEW t \in Threads, NEW p \in PageIDs, NEW par \in PageIDs,
         call[t].pc = "separate", call[t].op = "insert", call[t].new \in PageIDs,
         call' = [call EXCEPT ![t].pc = "insert", ![t].page = Chosen(t, p), ![t].par = par,
                              ![t].new = NoPage, ![t].sep = 0,
                              ![t].bfDirty = TRUE, ![t].parDirty = TRUE]
  PROVE  /\ call' \in [Threads -> Call] /\ \A u \in Threads \ {t} : call'[u] = call[u]
         /\ Chosen(t, p) \in {p, call[t].new}
         /\ call'[t].pc = "insert" /\ call'[t].op = "insert" /\ call'[t].new = NoPage
         /\ call'[t].key = call[t].key /\ call'[t].tid = call[t].tid
         /\ call'[t].par = par /\ call'[t].page = Chosen(t, p)
         /\ call'[t].parDirty = TRUE /\ call'[t].bfDirty = TRUE
<1> DEFINE q == Chosen(t, p)
<1>1. q \in {p, call[t].new} /\ call[t] \in Call
  BY DEF Chosen
<1> HIDE DEF q
<1> DEFINE c == [call[t] EXCEPT !.pc = "insert", !.page = q, !.par = par, !.new = NoPage,
                                !.sep = 0, !.bfDirty = TRUE, !.parDirty = TRUE]
<1>2. call' = [call EXCEPT ![t] = c]
  BY DEF q
<1>3. /\ c.pc = "insert" /\ c.new = NoPage
      /\ c.op = call[t].op /\ c.key = call[t].key /\ c.tid = call[t].tid
      /\ c.par = par /\ c.page = q /\ c.parDirty = TRUE /\ c.bfDirty = TRUE
  BY <1>1 DEF Call
<1>4. c \in Call
  <2>1. q \in PageIDs
    BY <1>1
  <2> QED
    BY <1>1, <2>1 DEF Call, Labels
<1> HIDE DEF c
<1>5. call' \in [Threads -> Call] /\ call'[t] = c /\ \A u \in Threads \ {t} : call'[u] = call[u]
  BY ONLY call \in [Threads -> Call], t \in Threads, <1>2, <1>4
<1> QED
  BY <1>1, <1>3, <1>5 DEF q

LEMMA LinkKeeps ==
  ASSUME TreeInv, NEW t \in Threads, Link(t)
  PROVE  TreeInv' /\ LevelsKept
<1>2. SUFFICES ASSUME NEW h \in [PageIDs -> Nat], Levels(h)
      PROVE  TreeInv' /\ Levels(h)'
  BY DEF TreeInv, LevelsKept
<1> DEFINE p == call[t].page
           par == call[t].par
           new == call[t].new
           n == InnerInsert(nodes[par], call[t].sep, new)
           chosen == Chosen(t, p)
           other == IF chosen = p THEN new ELSE p
<1>1. /\ call \in [Threads -> Call] /\ CallOK(t) /\ RoomOK(t) /\ call[t] \in Call
      /\ call[t].pc = "separate" /\ par # NoPage
      /\ lock \in [PageIDs -> LockRecords(Threads)] /\ answer' \in [Threads -> Answers]
      /\ nodes \in [PageIDs -> Node] /\ \A q \in PageIDs : NodeOK(nodes[q])
      /\ unsaved \subseteq PageIDs
      /\ nodes' = [nodes EXCEPT ![par] = n]
      /\ lock' = Unfixed(lock, t, {other})
      /\ unsaved' = (unsaved \cup {par}) \ {other}
      /\ size' = size
  BY DEF TreeInv, TypeOK, NodeOK, Link, Choose, At
<1>3. /\ p \in Used /\ NoPage \notin PageIDs /\ NoPage \notin Used /\ Used \subseteq PageIDs
      /\ call[t].op = "insert" /\ new \in Used \ {root, p} /\ par \in Used
      /\ call[t].key \in Keys /\ call[t].tid \in TIDs /\ call[t].sep \in Keys
  BY <1>1, HandUsed DEF CallOK, NoPage
<1>4. /\ ~nodes[par].leaf /\ ~IsFull(nodes[par]) /\ ~IsFull(nodes[p]) /\ ~IsFull(nodes[new])
  BY <1>1 DEF RoomOK, At
<1>5. /\ h[par] = h[p] + 1 /\ h[new] = h[p] /\ h[p] \in Nat
  BY <1>1, <1>2, <1>3 DEF Levels, CallLevel
<1>6. par # p /\ par # new
  BY <1>5
<1>7. /\ call' \in [Threads -> Call] /\ \A u \in Threads \ {t} : call'[u] = call[u]
      /\ chosen \in {p, new}
      /\ call'[t].pc = "insert" /\ call'[t].op = "insert" /\ call'[t].new = NoPage
      /\ call'[t].key = call[t].key /\ call'[t].tid = call[t].tid
      /\ call'[t].par = par /\ call'[t].page = chosen
      /\ call'[t].parDirty = TRUE /\ call'[t].bfDirty = TRUE
  <2>1. call' = [call EXCEPT ![t].pc = "insert", ![t].page = Chosen(t, p), ![t].par = par,
                             ![t].new = NoPage, ![t].sep = 0,
                             ![t].bfDirty = TRUE, ![t].parDirty = TRUE]
    BY DEF Link, Choose
  <2>2. p \in PageIDs /\ par \in PageIDs /\ new \in PageIDs
    BY <1>3
  <2> QED
    BY <1>1, <1>3, <2>1, <2>2, ChooseLocals
<1> HIDE DEF chosen
<1>8. /\ other \in {p, new} /\ {chosen, other} = {p, new} /\ chosen # other
      /\ chosen \in Used /\ other \in Used
  BY <1>3, <1>7
<1> HIDE DEF other
<1>9. /\ NodeOK(n) /\ ~n.leaf /\ Count(n) \in {Count(nodes[par]), Count(nodes[par]) + 1}
      /\ \A j \in DOMAIN n.children :
            n.children[j] = new \/ \E i \in DOMAIN nodes[par].children : n.children[j] = nodes[par].children[i]
  <2>0. NodeOK(nodes[par]) /\ new \in PageIDs /\ call[t].sep \in Keys /\ ~nodes[par].leaf
    BY <1>1, <1>3, <1>4
  <2>k. PICK k \in Keys : k = call[t].sep
    BY <2>0
  <2>c. PICK c \in PageIDs : c = new
    BY <2>0
  <2>m. PICK m : m = nodes[par]
    OBVIOUS
  <2>1. NodeOK(m) /\ ~m.leaf /\ m = nodes[par] /\ k = call[t].sep /\ c = new
        /\ k \in Keys /\ c \in PageIDs
    BY <2>0, <2>k, <2>c, <2>m
  <2>2. n = InnerInsert(m, k, c)
    BY <2>1
  <2> HIDE DEF n
  <2>3. /\ NodeOK(n) /\ ~n.leaf /\ Count(n) \in {Count(m), Count(m) + 1}
        /\ \A j \in DOMAIN n.children :
              n.children[j] = c \/ \E i \in DOMAIN m.children : n.children[j] = m.children[i]
    BY ONLY <2>1, <2>2, InnerInsertOK
  <2> QED
    BY <2>1, <2>3
<1> HIDE DEF n
<1>10. /\ nodes' \in [PageIDs -> Node] /\ \A q \in PageIDs : NodeOK(nodes'[q])
       /\ nodes'[par] = n /\ \A q \in PageIDs \ {par} : nodes'[q] = nodes[q]
  BY <1>1, <1>3, <1>9 DEF NodeOK
<1>11. Used' = Used
  BY <1>1 DEF Used
<1>12. CallOK(t)'
  BY <1>3, <1>7, <1>8, <1>11 DEF CallOK
<1>13. RoomOK(t)'
  <2>1. ~IsFull(nodes'[chosen])
    BY <1>3, <1>4, <1>6, <1>7, <1>10
  <2> QED
    BY <1>7, <1>9, <1>10, <2>1 DEF RoomOK, At
<1>14. CallLevel(h, t)'
  BY <1>5, <1>7 DEF CallLevel
<1>15. Fits(n)
  <2>1. Fits(nodes[par]) /\ NodeOK(nodes[par])
    BY <1>1, <1>3 DEF TreeInv
  <2>2. Full(n) = InnerOrder + 1 /\ Full(nodes[par]) = InnerOrder + 1 /\ InnerOrder \in Nat
    BY <1>4, <1>9, BTreeAssumption DEF Full
  <2>3. Count(nodes[par]) # InnerOrder + 1
    BY <1>4 DEF IsFull
  <2>4. Count(nodes[par]) \in Nat
    <3>1. nodes[par] \in Node
      BY <2>1 DEF NodeOK
    <3>2. Len(nodes[par].keys) \in Nat /\ Len(nodes[par].children) \in Nat
      BY <3>1 DEF Node
    <3> QED
      BY <3>2 DEF Count
  <2> QED
    BY <1>9, <2>1, <2>2, <2>3, <2>4 DEF Fits
<1>16. ASSUME NEW q \in Used'
       PROVE  Fits(nodes'[q]) /\ NodeLevel(h, q)'
  <2>1. q \in Used /\ NodeLevel(h, q) /\ Fits(nodes[q])
    BY <1>2, <1>11 DEF Levels, TreeInv
  <2>2. CASE q = par
    <3>1. nodes'[q] = n
      BY <1>10, <2>2
    <3>2. /\ h[q] # 0 /\ h[new] + 1 = h[q]
          /\ \A i \in DOMAIN nodes[par].children :
                nodes[par].children[i] \in Used \ {root} /\ h[nodes[par].children[i]] + 1 = h[q]
      BY <1>5, <2>1, <2>2 DEF NodeLevel
    <3>3. \A j \in DOMAIN n.children :
             n.children[j] \in Used' \ {root} /\ h[n.children[j]] + 1 = h[q]
      BY <1>3, <1>9, <1>11, <3>2
    <3> QED
      BY <1>9, <1>15, <3>1, <3>2, <3>3 DEF NodeLevel, root
  <2>3. CASE q # par
    <3>1. nodes'[q] = nodes[q]
      BY <1>3, <1>10, <2>1, <2>3
    <3> QED
      BY <1>11, <2>1, <3>1 DEF NodeLevel, root
  <2> QED
    BY <2>2, <2>3
<1>17. LocksInHand' /\ lock' \in [PageIDs -> LockRecords(Threads)]
  <2>1. InHand(t) = {p, par, new} /\ InHand(t)' = {chosen, par}
    BY <1>3, <1>7, <1>8 DEF InHand
  <2>2. /\ InHand(t)' = (InHand(t) \cup {}) \ {other}
        /\ {other} \in SUBSET PageIDs /\ {} \in SUBSET PageIDs
    BY <1>3, <1>6, <1>8, <2>1
  <2>3. lock' = [q \in PageIDs |->
                    IF q \in {other} THEN Unlocked(IF q \in {} THEN Fixed(t, q) ELSE lock[q], t)
                               ELSE IF q \in {} THEN Fixed(t, q) ELSE lock[q]]
    BY <1>1 DEF Unfixed, other, chosen
  <2>4. call'[t].op = call[t].op
    BY <1>3, <1>7
  <2> QED
    BY <1>7, <2>2, <2>3, <2>4, LocksFollow
<1>18. ASSUME NEW q \in unsaved'
       PROVE  \/ call'[t].op = "insert" /\ Owns(t, q)'
              \/ q \in unsaved /\ ~(call[t].op = "insert" /\ Owns(t, q))
  <2>1. q # other /\ (q = par \/ q \in unsaved)
    BY <1>1 DEF other, chosen
  <2>2. Owns(t, q) => q \in {p, par, new}
    BY DEF Owns
  <2>3. q \in {chosen, par} => Owns(t, q)'
    BY <1>7 DEF Owns
  <2> QED
    BY <1>7, <1>8, <2>1, <2>2, <2>3
<1>19. /\ size' \in size..Cardinality(PageIDs) /\ unsaved' \subseteq PageIDs
       /\ answer' \in [Threads -> Answers]
  BY <1>1, <1>3, HandUsed DEF TreeInv, TypeOK
<1>20. \A q \in Used : nodes'[q] # nodes[q] => q \in InHand(t) /\ call[t].op # "lookup"
  BY <1>1, <1>3, <1>10 DEF InHand
<1>21. h \in [PageIDs -> Nat] /\ Levels(h) /\ \A q \in Used : h[q] = h[q]
  BY <1>2
<1>22. /\ call' \in [Threads -> Call] /\ \A u \in Threads \ {t} : call'[u] = call[u]
       /\ nodes' \in [PageIDs -> Node] /\ \A q \in PageIDs : NodeOK(nodes'[q])
       /\ \A q \in Used' : Fits(nodes'[q])
       /\ (\A q \in Used' : NodeLevel(h, q)') /\ CallLevel(h, t)'
  BY <1>7, <1>10, <1>14, <1>16
<1> QED
  BY ONLY TreeInv, t \in Threads, <1>12, <1>13, <1>17, <1>18, <1>19, <1>20, <1>21, <1>22, StepKeeps

LEMMA GrowKeeps ==
  ASSUME TreeInv, NEW t \in Threads, Grow(t)
  PROVE  /\ TreeInv'
         /\ \A h \in [PageIDs -> Nat] : Levels(h) =>
               \E g \in [PageIDs -> Nat] :
                  /\ Levels(g)' /\ g[size] = h[root] /\ g[root] = h[root] + 1
                  /\ \A q \in Used \ {root} : g[q] = h[q]
<1> DEFINE p == call[t].page
           new == call[t].new
           n == Inner(<<call[t].sep>>, <<size, new>>)
           chosen == Chosen(t, size)
           other == IF chosen = size THEN new ELSE size
<1>1. /\ call \in [Threads -> Call] /\ CallOK(t) /\ RoomOK(t) /\ call[t] \in Call
      /\ call[t].pc = "separate" /\ call[t].par = NoPage
      /\ lock \in [PageIDs -> LockRecords(Threads)] /\ answer' \in [Threads -> Answers]
      /\ nodes \in [PageIDs -> Node] /\ \A q \in PageIDs : NodeOK(nodes[q])
      /\ unsaved \subseteq PageIDs
      /\ size \in PageIDs /\ CanWrLock(lock[size], t)
      /\ nodes' = [nodes EXCEPT ![p] = n, ![size] = nodes[p]]
      /\ lock' = Unfixed([lock EXCEPT ![size] = WrLocked(@, t)], t, {other})
      /\ unsaved' = (unsaved \cup {p, size}) \ {other}
      /\ size' = size + 1
  BY DEF TreeInv, TypeOK, NodeOK, Grow, Choose, At
<1>2. SUFFICES ASSUME NEW h \in [PageIDs -> Nat], Levels(h)
      PROVE  /\ TreeInv'
             /\ \E g \in [PageIDs -> Nat] :
                   /\ Levels(g)' /\ g[size] = h[root] /\ g[root] = h[root] + 1
                   /\ \A q \in Used \ {root} : g[q] = h[q]
  BY DEF TreeInv
<1>3. /\ p = root /\ p \in Used /\ NoPage \notin PageIDs /\ NoPage \notin Used /\ Used \subseteq PageIDs
      /\ call[t].op = "insert" /\ new \in Used \ {root, p}
      /\ call[t].key \in Keys /\ call[t].tid \in TIDs /\ call[t].sep \in Keys
  BY <1>1, HandUsed DEF CallOK, NoPage
<1>4. /\ size \notin Used /\ size # root /\ Used' = Used \cup {size} /\ size \in Nat
      /\ size # NoPage /\ p # size /\ new # size
  BY <1>1, <1>3, HandUsed DEF Used, root, NoPage, TreeInv, TypeOK
<1>5. ~IsFull(nodes[p]) /\ ~IsFull(nodes[new])
  BY <1>1 DEF RoomOK, At
<1>6. h[new] = h[p] /\ h[p] \in Nat
  BY <1>1, <1>2, <1>3 DEF Levels, CallLevel
<1>7. /\ call' \in [Threads -> Call] /\ \A u \in Threads \ {t} : call'[u] = call[u]
      /\ chosen \in {size, new}
      /\ call'[t].pc = "insert" /\ call'[t].op = "insert" /\ call'[t].new = NoPage
      /\ call'[t].key = call[t].key /\ call'[t].tid = call[t].tid
      /\ call'[t].par = p /\ call'[t].page = chosen
      /\ call'[t].parDirty = TRUE /\ call'[t].bfDirty = TRUE
  <2>1. call' = [call EXCEPT ![t].pc = "insert", ![t].page = Chosen(t, size), ![t].par = p,
                             ![t].new = NoPage, ![t].sep = 0,
                             ![t].bfDirty = TRUE, ![t].parDirty = TRUE]
    BY DEF Grow, Choose
  <2>2. p \in PageIDs /\ new \in PageIDs
    BY <1>3
  <2> QED
    BY <1>1, <1>3, <2>1, <2>2, ChooseLocals
<1> HIDE DEF chosen
<1>8. /\ other \in {size, new} /\ {chosen, other} = {size, new} /\ chosen # other
      /\ chosen \in Used' /\ other \in Used' /\ chosen # p /\ other # p
  BY <1>3, <1>4, <1>7
<1> HIDE DEF other
<1>9. /\ n.leaf = FALSE /\ NodeOK(n) /\ Count(n) = 2
      /\ \A j \in DOMAIN n.children : n.children[j] \in {size, new}
  <2>1. <<call[t].sep>> \in Seq(Keys) /\ Len(<<call[t].sep>>) = 1
    BY <1>3
  <2>2. /\ <<size, new>> \in Seq(PageIDs) /\ Len(<<size, new>>) = 2
        /\ \A j \in DOMAIN <<size, new>> : <<size, new>>[j] \in {size, new}
    <3>1. size \in PageIDs /\ new \in PageIDs
      BY <1>1, <1>3
    <3> QED
      BY <3>1
  <2> DEFINE ks == <<call[t].sep>>
             cs == <<size, new>>
  <2>3. n = [leaf |-> FALSE, keys |-> ks, children |-> cs, tids |-> << >>]
    BY DEF Inner
  <2> HIDE DEF ks, cs, n
  <2>4. ks \in Seq(Keys) /\ Len(ks) = 1 /\ cs \in Seq(PageIDs) /\ Len(cs) = 2
    BY <2>1, <2>2 DEF ks, cs
  <2>5. n \in Node /\ n.leaf = FALSE /\ n.keys = ks /\ n.children = cs /\ n.tids = << >>
    BY <2>3, <2>4 DEF Node
  <2>6. NodeOK(n) /\ Count(n) = 2
    <3>1. ~n.leaf /\ Len(n.keys) = 1 /\ Len(n.children) = 2
      BY ONLY <2>4, <2>5
    <3> QED
      BY ONLY <2>5, <3>1 DEF NodeOK, Count
  <2>7. \A j \in DOMAIN n.children : n.children[j] \in {size, new}
    BY <2>2, <2>5 DEF cs
  <2> QED
    BY <2>5, <2>6, <2>7
<1> HIDE DEF n
<1>10. Fits(n) /\ ~IsFull(n)
  <2>1. InnerOrder \in Nat /\ InnerOrder >= 2
    BY BTreeAssumption
  <2> QED
    BY <1>9, <2>1 DEF Fits, IsFull, Full
<1>11. /\ nodes' \in [PageIDs -> Node] /\ \A q \in PageIDs : NodeOK(nodes'[q])
       /\ nodes'[p] = n /\ nodes'[size] = nodes[p]
       /\ \A q \in PageIDs \ {p, size} : nodes'[q] = nodes[q]
  BY <1>1, <1>3, <1>4, <1>9 DEF NodeOK
<1>12. CallOK(t)'
  BY <1>3, <1>4, <1>7, <1>8 DEF CallOK
<1>13. RoomOK(t)'
  BY <1>7, <1>9, <1>10, <1>11 DEF RoomOK, At
<1>14. PICK g \in [PageIDs -> Nat] : /\ g[size] = h[p] /\ g[p] = h[p] + 1
                                     /\ \A q \in Used \ {p} : g[q] = h[q]
  <2> DEFINE g == [q \in PageIDs |-> IF q = size THEN h[p] ELSE IF q = p THEN h[p] + 1 ELSE h[q]]
  <2>1. /\ g \in [PageIDs -> Nat] /\ g[size] = h[p] /\ g[p] = h[p] + 1
        /\ \A q \in Used \ {p} : g[q] = h[q]
    <3>1. size \in PageIDs /\ p \in PageIDs /\ p # size
      BY <1>1, <1>3, <1>4
    <3>2. \A q \in Used \ {p} : q \in PageIDs \ {p, size}
      BY <1>3, <1>4
    <3> QED
      BY ONLY <1>6, <3>1, <3>2, h \in [PageIDs -> Nat]
  <2> QED
    BY <2>1
<1>15. g[new] = h[p] /\ g[chosen] = h[p]
  BY <1>3, <1>6, <1>7, <1>14
<1>16. CallLevel(g, t)'
  BY <1>7, <1>14, <1>15 DEF CallLevel
<1>17. ASSUME NEW q \in Used'
       PROVE  Fits(nodes'[q]) /\ NodeLevel(g, q)'
  <2>1. /\ \A r \in Used : NodeLevel(h, r) /\ Fits(nodes[r])
        /\ \A c \in Used \ {root} : g[c] = h[c] /\ c \in Used' \ {root}
    BY <1>2, <1>3, <1>4, <1>14 DEF Levels, TreeInv
  <2>2. CASE q = p
    <3>1. \A j \in DOMAIN n.children : n.children[j] \in Used' \ {root} /\ g[n.children[j]] + 1 = g[q]
      BY <1>3, <1>4, <1>9, <1>14, <1>15, <2>2
    <3>2. g[q] # 0
      BY <1>6, <1>14, <2>2
    <3> QED
      BY <1>9, <1>10, <1>11, <2>2, <3>1, <3>2 DEF NodeLevel, root
  <2>3. CASE q # p
    <3>1. PICK r \in Used : nodes'[q] = nodes[r] /\ g[q] = h[r]
      <4>1. CASE q = size
        BY <1>3, <1>11, <1>14, <4>1
      <4>2. CASE q # size
        BY <1>3, <1>4, <1>11, <1>14, <2>3, <4>2
      <4> QED
        BY <4>1, <4>2
    <3>2. NodeLevel(h, r) /\ Fits(nodes[r])
      BY <2>1
    <3>3. nodes'[q].leaf <=> g[q] = 0
      BY <3>1, <3>2 DEF NodeLevel
    <3>4. \A i \in DOMAIN nodes'[q].children :
             nodes'[q].children[i] \in Used' \ {root} /\ g[nodes'[q].children[i]] + 1 = g[q]
      BY <2>1, <3>1, <3>2 DEF NodeLevel
    <3> QED
      BY <3>1, <3>2, <3>3, <3>4 DEF NodeLevel, root
  <2> QED
    BY <2>2, <2>3
<1>18. LocksInHand' /\ lock' \in [PageIDs -> LockRecords(Threads)]
  <2>1. InHand(t) = {p, new} /\ InHand(t)' = {chosen, p}
    BY <1>1, <1>3, <1>4, <1>7, <1>8 DEF InHand
  <2>2. /\ InHand(t)' = (InHand(t) \cup {size}) \ {other}
        /\ {other} \in SUBSET PageIDs /\ {size} \in SUBSET PageIDs
    BY <1>1, <1>3, <1>8, <2>1
  <2>3. \A q \in {size} : q \notin InHand(t) /\ CanFix(t, q)
    BY <1>1, <1>3, <1>4, <2>1 DEF CanFix
  <2>4. lock' = [q \in PageIDs |->
                    IF q \in {other} THEN Unlocked(IF q \in {size} THEN Fixed(t, q) ELSE lock[q], t)
                               ELSE IF q \in {size} THEN Fixed(t, q) ELSE lock[q]]
    BY <1>1, <1>3 DEF Unfixed, Fixed, other, chosen
  <2>5. call'[t].op = call[t].op
    BY <1>3, <1>7
  <2> QED
    BY <1>7, <2>2, <2>3, <2>4, <2>5, LocksFollow
<1>19. ASSUME NEW q \in unsaved'
       PROVE  \/ call'[t].op = "insert" /\ Owns(t, q)'
              \/ q \in unsaved /\ ~(call[t].op = "insert" /\ Owns(t, q))
  <2>1. q # other /\ (q \in {p, size} \/ q \in unsaved) /\ q \in PageIDs
    BY <1>1, <1>3 DEF other, chosen
  <2>2. Owns(t, q) => q \in {p, new}
    BY <1>1, <1>3, <2>1 DEF Owns
  <2>3. q \in {chosen, p} => Owns(t, q)'
    BY <1>7 DEF Owns
  <2> QED
    BY <1>7, <1>8, <2>1, <2>2, <2>3
<1>20. /\ size' \in size..Cardinality(PageIDs) /\ unsaved' \subseteq PageIDs
       /\ answer' \in [Threads -> Answers]
  BY <1>1, <1>3, HandUsed
<1>21. /\ \A q \in Used : nodes'[q] # nodes[q] => q \in InHand(t) /\ call[t].op # "lookup"
       /\ \A q \in Used : g[q] # h[q] => q \in InHand(t) /\ call[t].op # "lookup"
  BY <1>3, <1>4, <1>11, <1>14 DEF InHand
<1>22. /\ h \in [PageIDs -> Nat] /\ Levels(h)
       /\ g \in [PageIDs -> Nat] /\ (\A q \in Used' : NodeLevel(g, q)') /\ CallLevel(g, t)'
  BY <1>2, <1>14, <1>16, <1>17
<1>23. /\ call' \in [Threads -> Call] /\ \A u \in Threads \ {t} : call'[u] = call[u]
       /\ nodes' \in [PageIDs -> Node] /\ \A q \in PageIDs : NodeOK(nodes'[q])
       /\ \A q \in Used' : Fits(nodes'[q])
  BY <1>7, <1>11, <1>17
<1>24. TreeInv' /\ Levels(g)'
  BY ONLY TreeInv, t \in Threads, <1>12, <1>13, <1>18, <1>19, <1>20, <1>21, <1>22, <1>23, StepKeeps
<1> QED
  BY <1>3, <1>14, <1>24

-----------------------------------------------------------------------------
LEMMA TreeInvInit == Init => TreeInv
<1> SUFFICES ASSUME Init PROVE TreeInv
  OBVIOUS
<1>1. /\ Cardinality(PageIDs) \in Nat \ {0} /\ PageIDs = 0..(Cardinality(PageIDs) - 1)
      /\ LeafOrder \in Nat /\ LeafOrder >= 2
  BY BTreeAssumption
<1>2. Used = {root} /\ 0 \in PageIDs
  BY <1>1 DEF Init, Used, root
<1> DEFINE n == Leaf(<< >>, << >>)
<1>3. /\ NodeOK(n) /\ Fits(n) /\ n.leaf = TRUE /\ n.children = << >>
  <2>1. << >> \in Seq(Keys) /\ << >> \in Seq(PageIDs) /\ << >> \in Seq(TIDs) /\ Len(<< >>) = 0
    OBVIOUS
  <2> QED
    BY <1>1, <2>1 DEF Leaf, NodeOK, Node, Fits, Full, Count
<1> HIDE DEF n
<1>4. nodes = [p \in PageIDs |-> n]
  BY DEF Init, n
<1>5. Idle \in Call /\ Idle.page = NoPage /\ Idle.par = NoPage /\ Idle.new = NoPage
      /\ Idle.pc = "idle" /\ Idle.op = "none"
  BY DEF Idle, Call, Labels
<1>6. \A t \in Threads : call[t] = Idle
  BY DEF Init
<1>7. TypeOK
  <2>1. nodes \in [PageIDs -> Node] /\ size \in 1..Cardinality(PageIDs) /\ unsaved \in SUBSET PageIDs
    BY <1>1, <1>3, <1>4 DEF Init, NodeOK
  <2>2. \A p \in PageIDs : IF nodes[p].leaf
                           THEN Len(nodes[p].tids) = Len(nodes[p].keys) /\ nodes[p].children = << >>
                           ELSE Len(nodes[p].children) = Len(nodes[p].keys) + 1 /\ nodes[p].tids = << >>
    BY <1>3, <1>4 DEF NodeOK
  <2>3. call \in [Threads -> Call] /\ answer \in [Threads -> Answers]
    BY <1>5 DEF Init, Answers, NotFound
  <2>4. lock \in [PageIDs -> LockRecords(Threads)]
    BY DEF Init, Free, LockRecords
  <2> QED
    BY <2>1, <2>2, <2>3, <2>4 DEF TypeOK
<1>8. LocksInHand
  <2>1. \A t \in Threads : InHand(t) = {}
    BY <1>5, <1>6 DEF InHand
  <2>2. \A p \in PageIDs : lock[p].readers = {} /\ lock[p].writers = {}
    BY DEF Init, Free
  <2> QED
    BY <2>1, <2>2 DEF LocksInHand, Exclusive
<1>9. \A t \in Threads : CallOK(t) /\ RoomOK(t)
  BY <1>5, <1>6 DEF CallOK, RoomOK, At
<1>10. (\A p \in Used : Fits(nodes[p])) /\ SavedInv
  BY <1>2, <1>3, <1>4 DEF SavedInv, Init, root
<1>11. \E h \in [PageIDs -> Nat] : Levels(h)
  <2> DEFINE h == [p \in PageIDs |-> 0]
  <2>1. h \in [PageIDs -> Nat] /\ h[0] = 0
    BY <1>2
  <2> HIDE DEF h
  <2>2. \A p \in Used : NodeLevel(h, p)
    BY <1>2, <1>3, <1>4, <2>1 DEF NodeLevel, root
  <2>3. \A t \in Threads : CallLevel(h, t)
    BY <1>5, <1>6 DEF CallLevel
  <2> QED
    BY <2>1, <2>2, <2>3 DEF Levels
<1> QED
  BY <1>7, <1>8, <1>9, <1>10, <1>11 DEF TreeInv

LEMMA TreeInvStep == TreeInv /\ [Next]_vars => TreeInv'
<1> SUFFICES ASSUME TreeInv, [Next]_vars PROVE TreeInv'
  OBVIOUS
<1>1. CASE UNCHANGED vars
  <2> USE <1>1 DEF vars
  <2>1. TypeOK' /\ LocksInHand'
    BY DEF TreeInv, TypeOK, LocksInHand, InHand
  <2>2. \A t \in Threads : CallOK(t)' /\ RoomOK(t)'
    <3>1. \A t \in Threads : CallOK(t)' <=> CallOK(t)
      BY DEF CallOK, Used
    <3>2. \A t \in Threads : RoomOK(t)' <=> RoomOK(t)
      BY DEF RoomOK, At
    <3> QED
      BY <3>1, <3>2 DEF TreeInv
  <2>3. (\A p \in Used' : Fits(nodes'[p])) /\ SavedInv'
    BY DEF TreeInv, Used, SavedInv, Owns, At
  <2>4. \E h \in [PageIDs -> Nat] : Levels(h)'
    <3>1. PICK h \in [PageIDs -> Nat] : Levels(h)
      BY DEF TreeInv
    <3>2. \A p \in Used' : NodeLevel(h, p)'
      BY <3>1 DEF Levels, NodeLevel, Used, root
    <3>3. \A t \in Threads : CallLevel(h, t)'
      BY <3>1 DEF Levels, CallLevel
    <3> QED
      BY <3>2, <3>3 DEF Levels
  <2> QED
    BY <2>1, <2>2, <2>3, <2>4 DEF TreeInv
<1>2. CASE Next
  <2>1. PICK t \in Threads : \/ \E e \in Entries : Insert(t, e[1], e[2])
                             \/ \E k \in LookedUp : Lookup(t, k)
                             \/ \E k \in Erased : Erase(t, k)
                             \/ Step(t)
    BY <1>2 DEF Next
  <2>2. ASSUME NEW e \in Entries, Insert(t, e[1], e[2]) PROVE TreeInv'
    <3>1. e[1] \in Keys /\ e[2] \in TIDs
      BY BTreeAssumption
    <3>2. Begin(t, "insert", e[1], e[2])
      BY <2>2 DEF Insert
    <3> QED
      BY <3>1, <3>2, BeginKeeps DEF AllOps
  <2>3. ASSUME NEW k \in LookedUp, Lookup(t, k) PROVE TreeInv'
    <3>1. k \in Keys /\ Begin(t, "lookup", k, NoTID) /\ "lookup" \in AllOps
      BY <2>3, BTreeAssumption DEF Lookup, AllOps
    <3> QED
      BY <3>1, BeginKeeps
  <2>4. ASSUME NEW k \in Erased, Erase(t, k) PROVE TreeInv'
    <3>1. k \in Keys /\ Begin(t, "erase", k, NoTID) /\ "erase" \in AllOps
      BY <2>4, BTreeAssumption DEF Erase, AllOps
    <3> QED
      BY <3>1, BeginKeeps
  <2>5. CASE Step(t)
    BY <2>5, FixRootKeeps, FindChildKeeps, LookupLeafKeeps, EraseLeafKeeps, SplitKeeps,
       GrowKeeps, LinkKeeps, DescendKeeps, InsertLeafKeeps DEF Step
  <2> QED
    BY <2>1, <2>2, <2>3, <2>4, <2>5
<1> QED
  BY <1>1, <1>2

LEMMA TreeInvariant == Spec => []TreeInv
<1> QED
  BY TreeInvInit, TreeInvStep, PTL DEF Spec

-----------------------------------------------------------------------------
(***************************************************************************)
(* Nodes, counter, locks and calls have their types: every array of a node *)
(* has the length its count says, after every split and insertion.         *)
(***************************************************************************)
THEOREM TreeTypesCorrect == Spec => []TypeOK
<1>1. TreeInv => TypeOK
  BY DEF TreeInv
<1> QED
  BY <1>1, TreeInvariant, PTL

(***************************************************************************)
(* A thread holds exactly the pages its call is at, exclusively unless it  *)
(* looks up: no path through insert, erase or lookup leaks a lock.         *)
(***************************************************************************)
THEOREM NoLockLeaks == Spec => []LocksInHand
<1>1. TreeInv => LocksInHand
  BY DEF TreeInv
<1> QED
  BY <1>1, TreeInvariant, PTL

(***************************************************************************)
(* The parent of a node that is split has room for the new child, and no   *)
(* node outgrows its page ("uses safe inner pages", BTree.hpp).            *)
(***************************************************************************)
THEOREM ParentsAreSafe == Spec => []SafeParents
<1>1. TreeInv => SafeParents
  <2> SUFFICES ASSUME TreeInv PROVE SafeParents
    OBVIOUS
  <2>1. ASSUME NEW t \in Threads, At(t, "separate"), call[t].par # NoPage
        PROVE  ~nodes[call[t].par].leaf /\ ~IsFull(nodes[call[t].par])
    BY <2>1 DEF TreeInv, RoomOK, At
  <2>2. \A p \in Used : Count(nodes[p]) <= IF nodes[p].leaf THEN LeafOrder ELSE InnerOrder + 1
    BY DEF TreeInv, Fits, Full
  <2> QED
    BY <2>1, <2>2 DEF SafeParents, Used
<1> QED
  BY <1>1, TreeInvariant, PTL

(***************************************************************************)
(* A page whose last change has not been unfixed as dirty is still held by *)
(* the thread that changed it: the flags bfDirty and bfParDirty forget no  *)
(* change on any way down.                                                 *)
(***************************************************************************)
THEOREM NoChangeForgotten == Spec => []ChangesSaved
<1>1. TreeInv => ChangesSaved
  <2> SUFFICES ASSUME TreeInv, NEW p \in unsaved PROVE lock[p].writers # {}
    BY DEF ChangesSaved
  <2>1. PICK t \in Threads : call[t].op = "insert" /\ Owns(t, p)
    BY DEF TreeInv, SavedInv
  <2>2. p \in PageIDs /\ p # NoPage
    BY BTreeAssumption DEF TreeInv, TypeOK, NoPage
  <2>3. p \in InHand(t)
    BY <2>1, <2>2 DEF Owns, InHand
  <2> QED
    BY <2>1, <2>2, <2>3 DEF TreeInv, LocksInHand
<1> QED
  BY <1>1, TreeInvariant, PTL

(***************************************************************************)
(* The tree is balanced: there are levels, one less from a node to each of *)
(* its children and 0 at the leaves and nowhere else, so every way from    *)
(* the root to a leaf has the same length, also while nodes are split.     *)
(***************************************************************************)
Balanced == \E h \in [PageIDs -> Nat] : \A p \in Used : NodeLevel(h, p)

THEOREM AlwaysBalanced == Spec => []Balanced
<1>1. TreeInv => Balanced
  BY DEF TreeInv, Balanced, Levels
<1> QED
  BY <1>1, TreeInvariant, PTL

-----------------------------------------------------------------------------
(***************************************************************************)
(* BTree implements Dictionary, when clients erase keys that are in the    *)
(* tree: every page has a range of keys, which says where searches go      *)
(* while other threads split nodes.  The ranges also show, whatever is     *)
(* erased, that searches end at the entries' leaves and that no call       *)
(* strays.                                                                 *)
(***************************************************************************)
\* The keys of a node are in order.
Sorted(n) == \A i, j \in DOMAIN n.keys : i < j => n.keys[i] < n.keys[j]

\* An entry of a leaf.
Entry(n, k, v) == \E i \in DOMAIN n.keys : n.keys[i] = k /\ n.tids[i] = v

LEMMA NodeKeys ==
  ASSUME NEW n, NodeOK(n)
  PROVE  /\ n.keys \in Seq(Keys) /\ Len(n.keys) \in Nat /\ DOMAIN n.keys = 1..Len(n.keys)
         /\ \A i \in 1..Len(n.keys) : n.keys[i] \in Keys /\ n.keys[i] \in Int
<1>1. n.keys \in Seq(Keys)
  BY DEF NodeOK, Node
<1>2. /\ Len(n.keys) \in Nat /\ DOMAIN n.keys = 1..Len(n.keys)
      /\ \A i \in 1..Len(n.keys) : n.keys[i] \in Keys
  BY <1>1
<1>3. \A k \in Keys : k \in Int
  BY BTreeAssumption
<1> QED
  BY <1>1, <1>2, <1>3

\* lower_bound: the index before which all keys are less, and none after.
LEMMA KeyIndexIs ==
  ASSUME NEW n, NodeOK(n), NEW k \in Keys, NEW i \in 1..(Len(n.keys) + 1),
         \A j \in 1..Len(n.keys) : n.keys[j] < k <=> j < i
  PROVE  KeyIndex(n, k) = i
<1>1. Len(n.keys) \in Nat /\ DOMAIN n.keys = 1..Len(n.keys)
  BY NodeKeys
<1>2. {j \in DOMAIN n.keys : n.keys[j] < k} = 1..(i - 1)
  BY <1>1
<1>3. Cardinality(1..(i - 1)) = i - 1
  BY <1>1, FS_Interval
<1>4. KeyIndex(n, k) = 1 + (i - 1)
  BY <1>2, <1>3 DEF KeyIndex
<1> QED
  BY <1>1, <1>4

LEMMA KeyIndexSplits ==
  ASSUME NEW n, NodeOK(n), Sorted(n), NEW k \in Keys
  PROVE  /\ KeyIndex(n, k) \in 1..(Len(n.keys) + 1)
         /\ \A j \in 1..Len(n.keys) : n.keys[j] < k <=> j < KeyIndex(n, k)
<1>1. /\ Len(n.keys) \in Nat /\ DOMAIN n.keys = 1..Len(n.keys) /\ k \in Int
      /\ \A j \in 1..Len(n.keys) : n.keys[j] \in Int
  BY NodeKeys, BTreeAssumption
<1> DEFINE D == {j \in 1..Len(n.keys) : ~(n.keys[j] < k)}
<1>2. PICK i \in 1..(Len(n.keys) + 1) : \A j \in 1..Len(n.keys) : n.keys[j] < k <=> j < i
  <2>1. CASE D = {}
    <3>1. \A j \in 1..Len(n.keys) : n.keys[j] < k /\ j < Len(n.keys) + 1
      BY <1>1, <2>1
    <3>2. Len(n.keys) + 1 \in 1..(Len(n.keys) + 1)
      BY <1>1
    <3> QED
      BY <3>1, <3>2
  <2>2. CASE D # {}
    <3>1. PICK i \in D : \A j \in D : i <= j
      <4> HIDE DEF D
      <4>1. D \in SUBSET (1..Len(n.keys))
        BY DEF D
      <4> QED
        BY <1>1, <2>2, <4>1, LeastIndex
    <3>2. ASSUME NEW j \in 1..Len(n.keys)
          PROVE  n.keys[j] < k <=> j < i
      <4>1. CASE j < i
        BY <1>1, <3>1, <4>1
      <4>2. CASE j = i
        BY <1>1, <3>1, <4>2
      <4>3. CASE j > i
        <5>1. n.keys[i] < n.keys[j] /\ ~(n.keys[i] < k) /\ i \in 1..Len(n.keys)
          BY <1>1, <3>1, <4>3 DEF Sorted
        <5> QED
          BY <1>1, <4>3, <5>1
      <4> QED
        BY <1>1, <4>1, <4>2, <4>3
    <3>3. i \in 1..(Len(n.keys) + 1)
      BY <1>1
    <3> QED
      BY <3>2, <3>3
  <2> QED
    BY <2>1, <2>2
<1>3. KeyIndex(n, k) = i
  BY <1>2, KeyIndexIs
<1> QED
  BY <1>2, <1>3

LEMMA HasKey ==
  ASSUME NEW n, NodeOK(n), Sorted(n), NEW k \in Keys
  PROVE  /\ Has(n, k) <=> \E j \in 1..Len(n.keys) : n.keys[j] = k
         /\ \A j \in 1..Len(n.keys) : n.keys[j] = k => j = KeyIndex(n, k)
<1> DEFINE i == KeyIndex(n, k)
<1>1. /\ Len(n.keys) \in Nat /\ DOMAIN n.keys = 1..Len(n.keys) /\ k \in Int
      /\ \A j \in 1..Len(n.keys) : n.keys[j] \in Int
  BY NodeKeys, BTreeAssumption
<1>2. i \in 1..(Len(n.keys) + 1) /\ \A j \in 1..Len(n.keys) : n.keys[j] < k <=> j < i
  BY KeyIndexSplits
<1> HIDE DEF i
<1>3. ASSUME NEW j \in 1..Len(n.keys), n.keys[j] = k
      PROVE  j = i
  <2>1. ~(j < i)
    BY <1>1, <1>2, <1>3
  <2>2. ASSUME i < j PROVE FALSE
    <3>1. i \in 1..Len(n.keys)
      BY <1>1, <1>2, <2>2
    <3>2. n.keys[i] < n.keys[j]
      BY <1>1, <2>2, <3>1 DEF Sorted
    <3>3. ~(n.keys[i] < k)
      BY <1>2, <3>1
    <3> QED
      BY <1>3, <3>2, <3>3
  <2> QED
    BY <1>1, <1>2, <2>1, <2>2
<1>4. Has(n, k) <=> i <= Len(n.keys) /\ n.keys[i] = k
  BY DEF Has, i
<1>5. ASSUME NEW j \in 1..Len(n.keys), n.keys[j] = k
      PROVE  Has(n, k)
  BY <1>1, <1>3, <1>4, <1>5
<1>6. ASSUME Has(n, k)
      PROVE  \E j \in 1..Len(n.keys) : n.keys[j] = k
  <2>1. i \in 1..Len(n.keys)
    BY <1>1, <1>2, <1>4, <1>6
  <2> QED
    BY <1>4, <1>6, <2>1
<1> QED
  BY <1>3, <1>5, <1>6 DEF i

\* The entry of a key in a leaf is where KeyIndex says.
LEMMA EntryAtIndex ==
  ASSUME NEW n, NodeOK(n), Sorted(n), NEW k \in Keys, NEW v
  PROVE  Entry(n, k, v) <=> Has(n, k) /\ n.tids[KeyIndex(n, k)] = v
<1>1. DOMAIN n.keys = 1..Len(n.keys) /\ Len(n.keys) \in Nat
  BY NodeKeys
<1>2. ASSUME Entry(n, k, v)
      PROVE  Has(n, k) /\ n.tids[KeyIndex(n, k)] = v
  <2>1. PICK i \in 1..Len(n.keys) : n.keys[i] = k /\ n.tids[i] = v
    BY <1>1, <1>2 DEF Entry
  <2> QED
    BY <2>1, HasKey
<1>3. ASSUME Has(n, k), n.tids[KeyIndex(n, k)] = v
      PROVE  Entry(n, k, v)
  <2>1. KeyIndex(n, k) \in 1..Len(n.keys) /\ n.keys[KeyIndex(n, k)] = k
    BY <1>1, <1>3, KeyIndexRange DEF Has
  <2> QED
    BY <1>1, <1>3, <2>1 DEF Entry
<1> QED
  BY <1>2, <1>3

\* Where the keys are after an insertion.
LEMMA KeyInserted ==
  ASSUME NEW s \in Seq(Keys), NEW i \in 1..(Len(s) + 1), NEW k \in Keys
  PROVE  \A j \in 1..(Len(s) + 1) :
            InsertAt(s, i, k)[j] = IF j < i THEN s[j] ELSE IF j = i THEN k ELSE s[j - 1]
BY ONLY s \in Seq(Keys), i \in 1..(Len(s) + 1), k \in Keys, InsertAtIndex

-----------------------------------------------------------------------------
\* What happens to the entries of a leaf.
LEMMA LeafInsertEntries ==
  ASSUME NEW n, NodeOK(n), n.leaf, Sorted(n), NEW k \in Keys, NEW v \in TIDs
  PROVE  LET m == LeafInsert(n, k, v) IN
         /\ Sorted(m)
         /\ \A x \in Keys : \A y : Entry(m, x, y) <=> IF x = k THEN y = v ELSE Entry(n, x, y)
<1> DEFINE m == LeafInsert(n, k, v)
           i == KeyIndex(n, k)
<1>1. /\ n.keys \in Seq(Keys) /\ n.tids \in Seq(TIDs) /\ Len(n.tids) = Len(n.keys)
      /\ Len(n.keys) \in Nat /\ DOMAIN n.keys = 1..Len(n.keys) /\ k \in Int
      /\ \A j \in 1..Len(n.keys) : n.keys[j] \in Int
  BY NodeKeys, BTreeAssumption DEF NodeOK, Node
<1>2. i \in 1..(Len(n.keys) + 1) /\ \A j \in 1..Len(n.keys) : n.keys[j] < k <=> j < i
  BY KeyIndexSplits
<1>3. CASE Has(n, k)
  <2>1. m = [n EXCEPT !.tids = [n.tids EXCEPT ![i] = v]]
    BY <1>3 DEF LeafInsert
  <2>2. m.keys = n.keys /\ m.tids = [n.tids EXCEPT ![i] = v]
    BY <2>1 DEF NodeOK, Node
  <2>3. i \in 1..Len(n.keys) /\ n.keys[i] = k
    BY <1>1, <1>2, <1>3 DEF Has
  <2>4. \A j \in 1..Len(n.keys) : m.tids[j] = IF j = i THEN v ELSE n.tids[j]
    BY <1>1, <2>2, ExceptIndex
  <2>5. \A j \in 1..Len(n.keys) : n.keys[j] = k => j = i
    BY HasKey
  <2> HIDE DEF m, i
  <2>6. Sorted(m)
    BY <2>2 DEF Sorted
  <2>7. ASSUME NEW x \in Keys, NEW y
        PROVE  Entry(m, x, y) <=> IF x = k THEN y = v ELSE Entry(n, x, y)
    <3>1. Entry(m, x, y) <=> \E j \in 1..Len(n.keys) : n.keys[j] = x /\ m.tids[j] = y
      BY <1>1, <2>2 DEF Entry
    <3>2. Entry(n, x, y) <=> \E j \in 1..Len(n.keys) : n.keys[j] = x /\ n.tids[j] = y
      BY <1>1 DEF Entry
    <3>3. CASE x = k
      BY <2>3, <2>4, <2>5, <3>1, <3>3
    <3>4. CASE x # k
      BY <2>3, <2>4, <3>1, <3>2, <3>4
    <3> QED
      BY <3>3, <3>4
  <2> QED
    BY <2>6, <2>7 DEF m
<1>4. CASE ~Has(n, k)
  <2>1. m = [n EXCEPT !.keys = InsertAt(n.keys, i, k), !.tids = InsertAt(n.tids, i, v)]
    BY <1>4 DEF LeafInsert
  <2>2. m.keys = InsertAt(n.keys, i, k) /\ m.tids = InsertAt(n.tids, i, v)
    BY <2>1 DEF NodeOK, Node
  <2> HIDE DEF m, i
  <2>3. /\ Len(m.keys) = Len(n.keys) + 1 /\ m.keys \in Seq(Keys)
        /\ \A j \in 1..(Len(n.keys) + 1) :
              m.keys[j] = IF j < i THEN n.keys[j] ELSE IF j = i THEN k ELSE n.keys[j - 1]
    <3>1. PICK s \in Seq(Keys) : s = n.keys
      BY <1>1
    <3>2. PICK at \in 1..(Len(s) + 1) : m.keys = InsertAt(s, at, k) /\ at = i
      BY <1>2, <2>2, <3>1
    <3>3. InsertAt(s, at, k) \in Seq(Keys) /\ Len(InsertAt(s, at, k)) = Len(s) + 1
      BY ONLY at \in 1..(Len(s) + 1), k \in Keys, s \in Seq(Keys), InsertAtIndex
    <3>4. \A j \in 1..(Len(s) + 1) :
             InsertAt(s, at, k)[j] = IF j < at THEN s[j] ELSE IF j = at THEN k ELSE s[j - 1]
      BY KeyInserted
    <3> QED
      BY <3>1, <3>2, <3>3, <3>4
  <2>4. \A j \in 1..(Len(n.keys) + 1) :
           m.tids[j] = IF j < i THEN n.tids[j] ELSE IF j = i THEN v ELSE n.tids[j - 1]
    <3>1. PICK s \in Seq(TIDs) : s = n.tids
      BY <1>1
    <3>2. PICK at \in 1..(Len(s) + 1) : m.tids = InsertAt(s, at, v) /\ at = i
      BY <1>1, <1>2, <2>2, <3>1
    <3>3. \A j \in 1..(Len(s) + 1) :
             InsertAt(s, at, v)[j] = IF j < at THEN s[j] ELSE IF j = at THEN v ELSE s[j - 1]
      BY ONLY at \in 1..(Len(s) + 1), v \in TIDs, s \in Seq(TIDs), InsertAtIndex
    <3> QED
      BY <1>1, <3>1, <3>2, <3>3
  <2>5. \A j \in 1..Len(n.keys) : n.keys[j] # k
    BY <1>4, HasKey
  <2>6. DOMAIN m.keys = 1..(Len(n.keys) + 1)
    BY <1>1, <2>3
  <2>7. Sorted(m)
    <3> SUFFICES ASSUME NEW a \in 1..(Len(n.keys) + 1), NEW b \in 1..(Len(n.keys) + 1), a < b
                 PROVE  m.keys[a] < m.keys[b]
      BY <2>6 DEF Sorted
    <3>1. \A c \in 1..Len(n.keys) : c < i <=> n.keys[c] < k
      BY <1>2
    <3>2. \A c \in 1..Len(n.keys) : c >= i => k < n.keys[c]
      BY <1>1, <1>2, <2>5
    <3>3. \A c, d \in 1..Len(n.keys) : c < d => n.keys[c] < n.keys[d]
      BY <1>1 DEF Sorted
    <3>4. CASE b < i
      <4>1. m.keys[b] = n.keys[b] /\ m.keys[a] = n.keys[a]
        BY <1>1, <1>2, <2>3, <3>4
      <4>2. b \in 1..Len(n.keys) /\ a \in 1..Len(n.keys)
        BY <1>1, <1>2, <3>4
      <4> QED
        BY <3>3, <4>1, <4>2
    <3>5. CASE b = i
      <4>1. m.keys[b] = k /\ m.keys[a] = n.keys[a]
        BY <2>3, <3>5
      <4>2. a \in 1..Len(n.keys) /\ a < i
        BY <1>1, <1>2, <3>5
      <4> QED
        BY <3>1, <4>1, <4>2
    <3>6. CASE b > i /\ a < i
      <4>1. m.keys[b] = n.keys[b - 1] /\ m.keys[a] = n.keys[a]
        BY <1>1, <1>2, <2>3, <3>6
      <4>2. b - 1 \in 1..Len(n.keys) /\ a \in 1..Len(n.keys) /\ b - 1 >= i
        BY <1>1, <1>2, <3>6
      <4>3. n.keys[a] < k /\ k < n.keys[b - 1]
        BY <3>1, <3>2, <3>6, <4>2
      <4> QED
        BY <1>1, <4>1, <4>2, <4>3
    <3>7. CASE b > i /\ a = i
      <4>1. m.keys[b] = n.keys[b - 1] /\ m.keys[a] = k
        BY <1>1, <1>2, <2>3, <3>7
      <4>2. b - 1 \in 1..Len(n.keys) /\ b - 1 >= i
        BY <1>1, <1>2, <3>7
      <4> QED
        BY <3>2, <4>1, <4>2
    <3>8. CASE b > i /\ a > i
      <4>1. m.keys[b] = n.keys[b - 1] /\ m.keys[a] = n.keys[a - 1]
        BY <1>1, <1>2, <2>3, <3>8
      <4>2. b - 1 \in 1..Len(n.keys) /\ a - 1 \in 1..Len(n.keys) /\ a - 1 < b - 1
        BY <1>1, <1>2, <3>8
      <4> QED
        BY <3>3, <4>1, <4>2
    <3> QED
      BY <1>1, <1>2, <3>4, <3>5, <3>6, <3>7, <3>8
  <2>8. ASSUME NEW x \in Keys, NEW y, Entry(m, x, y)
        PROVE  IF x = k THEN y = v ELSE Entry(n, x, y)
    <3>1. PICK j \in 1..(Len(n.keys) + 1) : m.keys[j] = x /\ m.tids[j] = y
      BY <2>6, <2>8 DEF Entry
    <3>2. CASE j < i
      <4>1. j \in 1..Len(n.keys) /\ n.keys[j] = x /\ n.tids[j] = y
        BY <1>1, <1>2, <2>3, <2>4, <3>1, <3>2
      <4> QED
        BY <1>1, <2>5, <4>1 DEF Entry
    <3>3. CASE j = i
      BY <2>3, <2>4, <3>1, <3>3
    <3>4. CASE j > i
      <4>1. j - 1 \in 1..Len(n.keys) /\ n.keys[j - 1] = x /\ n.tids[j - 1] = y
        <5>1. j - 1 \in 1..Len(n.keys) /\ ~(j < i) /\ j # i
          BY <1>1, <1>2, <3>4
        <5> QED
          BY <2>3, <2>4, <3>1, <5>1
      <4> QED
        BY <1>1, <2>5, <4>1 DEF Entry
    <3> QED
      BY <1>1, <1>2, <3>2, <3>3, <3>4
  <2>9. ASSUME NEW x \in Keys, NEW y, IF x = k THEN y = v ELSE Entry(n, x, y)
        PROVE  Entry(m, x, y)
    <3>1. CASE x = k
      <4>1. i \in 1..(Len(n.keys) + 1) /\ m.keys[i] = k /\ m.tids[i] = v
        BY <1>2, <2>3, <2>4
      <4> QED
        BY <2>6, <2>9, <3>1, <4>1 DEF Entry
    <3>2. CASE x # k
      <4>1. PICK j \in 1..Len(n.keys) : n.keys[j] = x /\ n.tids[j] = y
        BY <1>1, <2>9, <3>2 DEF Entry
      <4>2. CASE j < i
        <5>1. j \in 1..(Len(n.keys) + 1) /\ m.keys[j] = x /\ m.tids[j] = y
          BY <1>1, <2>3, <2>4, <4>1, <4>2
        <5> QED
          BY <2>6, <5>1 DEF Entry
      <4>3. CASE j >= i
        <5>1. j + 1 \in 1..(Len(n.keys) + 1) /\ j + 1 > i /\ (j + 1) - 1 = j
          BY <1>1, <1>2, <4>3
        <5>2. m.keys[j + 1] = x /\ m.tids[j + 1] = y
          BY <1>2, <2>3, <2>4, <4>1, <5>1
        <5> QED
          BY <2>6, <5>1, <5>2 DEF Entry
      <4> QED
        BY <1>1, <1>2, <4>2, <4>3
    <3> QED
      BY <3>1, <3>2
  <2> QED
    BY <2>7, <2>8, <2>9 DEF m
<1> QED
  BY <1>3, <1>4

\* Erasing leaves the keys of a leaf in order, whatever key is erased.
LEMMA LeafRemoveSorted ==
  ASSUME NEW n, NodeOK(n), n.leaf, Sorted(n), NEW k \in Keys
  PROVE  /\ Sorted(LeafRemove(n, k))
         /\ ToSet(LeafRemove(n, k).keys) \subseteq ToSet(n.keys)
<1> DEFINE m == LeafRemove(n, k)
           i == KeyIndex(n, k)
<1>1. /\ n.keys \in Seq(Keys) /\ n.tids \in Seq(TIDs)
      /\ Len(n.keys) \in Nat /\ DOMAIN n.keys = 1..Len(n.keys)
      /\ \A j \in 1..Len(n.keys) : n.keys[j] \in Int
  BY NodeKeys DEF NodeOK, Node
<1>2. i \in 1..(Len(n.keys) + 1)
  BY KeyIndexRange
<1>3. CASE i > Len(n.keys)
  BY <1>3 DEF LeafRemove
<1>4. CASE i <= Len(n.keys)
  <2>1. m = [n EXCEPT !.keys = RemoveAt(n.keys, i), !.tids = RemoveAt(n.tids, i)]
    BY <1>1, <1>2, <1>4 DEF LeafRemove
  <2>2. m.keys = RemoveAt(n.keys, i) /\ i \in 1..Len(n.keys)
    BY <1>1, <1>2, <1>4, <2>1 DEF NodeOK, Node
  <2> HIDE DEF m, i
  <2>3. /\ m.keys \in Seq(Keys) /\ Len(m.keys) = Len(n.keys) - 1
        /\ \A j \in 1..(Len(n.keys) - 1) : m.keys[j] = IF j < i THEN n.keys[j] ELSE n.keys[j + 1]
    <3>1. PICK s \in Seq(Keys) : s = n.keys
      BY <1>1
    <3>2. m.keys = RemoveAt(s, i) /\ i \in 1..Len(s)
      BY <2>2, <3>1
    <3>3. /\ RemoveAt(s, i) \in Seq(Keys) /\ Len(RemoveAt(s, i)) = Len(s) - 1
          /\ \A j \in 1..(Len(s) - 1) : RemoveAt(s, i)[j] = IF j < i THEN s[j] ELSE s[j + 1]
      BY ONLY <3>2, s \in Seq(Keys), RemoveAtIndex
    <3> QED
      BY <3>1, <3>2, <3>3
  <2>4. DOMAIN m.keys = 1..(Len(n.keys) - 1)
    BY <2>3
  <2> DEFINE Old(j) == IF j < i THEN j ELSE j + 1
  <2>5. ASSUME NEW j \in 1..(Len(n.keys) - 1)
        PROVE  Old(j) \in 1..Len(n.keys) /\ m.keys[j] = n.keys[Old(j)]
    BY <1>1, <2>2, <2>3
  <2>6. ASSUME NEW a \in 1..(Len(n.keys) - 1), NEW b \in 1..(Len(n.keys) - 1), a < b
        PROVE  m.keys[a] < m.keys[b]
    <3>1. Old(a) < Old(b)
      BY <1>1, <2>2, <2>6
    <3> HIDE DEF Old
    <3> QED
      BY <1>1, <2>5, <3>1 DEF Sorted
  <2>7. Sorted(m)
    BY <2>4, <2>6 DEF Sorted
  <2> HIDE DEF Old
  <2>8. ToSet(m.keys) \subseteq ToSet(n.keys)
    BY <1>1, <2>4, <2>5 DEF ToSet
  <2> QED
    BY <2>7, <2>8 DEF m
<1> QED
  BY <1>1, <1>2, <1>3, <1>4

LEMMA LeafRemoveEntries ==
  ASSUME NEW n, NodeOK(n), n.leaf, Sorted(n), NEW k \in Keys, Has(n, k)
  PROVE  LET m == LeafRemove(n, k) IN
         /\ Sorted(m)
         /\ \A x \in Keys : \A y : Entry(m, x, y) <=> x # k /\ Entry(n, x, y)
<1> DEFINE m == LeafRemove(n, k)
           i == KeyIndex(n, k)
<1>1. /\ n.keys \in Seq(Keys) /\ n.tids \in Seq(TIDs) /\ Len(n.tids) = Len(n.keys)
      /\ Len(n.keys) \in Nat /\ DOMAIN n.keys = 1..Len(n.keys) /\ k \in Int
      /\ \A j \in 1..Len(n.keys) : n.keys[j] \in Int
  BY NodeKeys, BTreeAssumption DEF NodeOK, Node
<1>2. i \in 1..Len(n.keys) /\ n.keys[i] = k
  BY <1>1, KeyIndexRange DEF Has
<1>3. m = [n EXCEPT !.keys = RemoveAt(n.keys, i), !.tids = RemoveAt(n.tids, i)]
  BY <1>1, <1>2 DEF LeafRemove
<1>4. m.keys = RemoveAt(n.keys, i) /\ m.tids = RemoveAt(n.tids, i)
  BY <1>3 DEF NodeOK, Node
<1>5. \A j \in 1..Len(n.keys) : n.keys[j] = k => j = i
  BY HasKey
<1> HIDE DEF m, i
<1>6. /\ m.keys \in Seq(Keys) /\ Len(m.keys) = Len(n.keys) - 1
      /\ \A j \in 1..(Len(n.keys) - 1) : m.keys[j] = IF j < i THEN n.keys[j] ELSE n.keys[j + 1]
  <2>1. PICK s \in Seq(Keys) : s = n.keys
    BY <1>1
  <2>2. m.keys = RemoveAt(s, i) /\ i \in 1..Len(s)
    BY <1>2, <1>4, <2>1
  <2>3. /\ RemoveAt(s, i) \in Seq(Keys) /\ Len(RemoveAt(s, i)) = Len(s) - 1
        /\ \A j \in 1..(Len(s) - 1) : RemoveAt(s, i)[j] = IF j < i THEN s[j] ELSE s[j + 1]
    BY ONLY <2>2, s \in Seq(Keys), RemoveAtIndex
  <2> QED
    BY <2>1, <2>2, <2>3
<1>7. \A j \in 1..(Len(n.keys) - 1) : m.tids[j] = IF j < i THEN n.tids[j] ELSE n.tids[j + 1]
  <2>1. PICK s \in Seq(TIDs) : s = n.tids
    BY <1>1
  <2>2. m.tids = RemoveAt(s, i) /\ i \in 1..Len(s) /\ Len(s) = Len(n.keys)
    BY <1>1, <1>2, <1>4, <2>1
  <2>3. \A j \in 1..(Len(s) - 1) : RemoveAt(s, i)[j] = IF j < i THEN s[j] ELSE s[j + 1]
    BY ONLY <2>2, s \in Seq(TIDs), RemoveAtIndex
  <2> QED
    BY <2>1, <2>2, <2>3
<1>8. DOMAIN m.keys = 1..(Len(n.keys) - 1)
  BY <1>6
<1> DEFINE Old(j) == IF j < i THEN j ELSE j + 1
<1>9. ASSUME NEW j \in 1..(Len(n.keys) - 1)
      PROVE  /\ Old(j) \in 1..Len(n.keys) /\ Old(j) # i
             /\ m.keys[j] = n.keys[Old(j)] /\ m.tids[j] = n.tids[Old(j)]
  BY <1>1, <1>2, <1>6, <1>7
<1>10. Sorted(m)
  BY LeafRemoveSorted DEF m
<1>11. ASSUME NEW x \in Keys, NEW y, Entry(m, x, y)
       PROVE  x # k /\ Entry(n, x, y)
  <2>1. PICK j \in 1..(Len(n.keys) - 1) : m.keys[j] = x /\ m.tids[j] = y
    BY <1>8, <1>11 DEF Entry
  <2> HIDE DEF Old
  <2>2. Old(j) \in 1..Len(n.keys) /\ Old(j) # i /\ n.keys[Old(j)] = x /\ n.tids[Old(j)] = y
    BY <1>9, <2>1
  <2> QED
    BY <1>1, <1>5, <2>2 DEF Entry
<1>12. ASSUME NEW x \in Keys, NEW y, x # k, Entry(n, x, y)
       PROVE  Entry(m, x, y)
  <2>1. PICK j \in 1..Len(n.keys) : n.keys[j] = x /\ n.tids[j] = y
    BY <1>1, <1>12 DEF Entry
  <2>2. j # i
    BY <1>2, <1>12, <2>1
  <2>3. PICK l \in 1..(Len(n.keys) - 1) : Old(l) = j
    <3>1. CASE j < i
      <4>1. j \in 1..(Len(n.keys) - 1) /\ Old(j) = j
        BY <1>1, <1>2, <3>1
      <4> QED
        BY <4>1
    <3>2. CASE ~(j < i)
      <4>1. j - 1 \in 1..(Len(n.keys) - 1) /\ Old(j - 1) = j
        BY <1>1, <1>2, <2>2, <3>2
      <4> QED
        BY <4>1
    <3> QED
      BY <3>1, <3>2
  <2> HIDE DEF Old
  <2>4. m.keys[l] = x /\ m.tids[l] = y
    BY <1>9, <2>1, <2>3
  <2> QED
    BY <1>8, <2>4 DEF Entry
<1> QED
  BY <1>10, <1>11, <1>12 DEF m

\* A separator and a child get into an inner node: whose index is where.
LEMMA InnerInsertIndex ==
  ASSUME NEW n, NodeOK(n), ~n.leaf, Sorted(n), NEW k \in Keys, ~Has(n, k), NEW c \in PageIDs
  PROVE  LET m == InnerInsert(n, k, c)
             i == KeyIndex(n, k) IN
         /\ Sorted(m)
         /\ \A j \in DOMAIN m.keys : m.keys[j] = k \/ \E l \in DOMAIN n.keys : m.keys[j] = n.keys[l]
         /\ \A x \in Keys : KeyIndex(m, x) = IF x <= k THEN KeyIndex(n, x) ELSE KeyIndex(n, x) + 1
         /\ \A x \in Keys : x <= k => KeyIndex(n, x) <= i
         /\ \A x \in Keys : x > k => KeyIndex(n, x) >= i
         /\ i \in 1..Len(n.children) /\ Len(n.children) \in Nat
         /\ DOMAIN n.children = 1..Len(n.children) /\ DOMAIN m.children = 1..(Len(n.children) + 1)
         /\ \A j \in 1..(Len(n.children) + 1) :
               m.children[j] = IF j <= i THEN n.children[j] ELSE IF j = i + 1 THEN c ELSE n.children[j - 1]
<1> DEFINE m == InnerInsert(n, k, c)
           i == KeyIndex(n, k)
<1>1. /\ n.keys \in Seq(Keys) /\ n.children \in Seq(PageIDs) /\ Len(n.children) = Len(n.keys) + 1
      /\ Len(n.keys) \in Nat /\ DOMAIN n.keys = 1..Len(n.keys) /\ k \in Int
      /\ \A j \in 1..Len(n.keys) : n.keys[j] \in Int
  BY NodeKeys, BTreeAssumption DEF NodeOK, Node
<1>2. i \in 1..(Len(n.keys) + 1) /\ \A j \in 1..Len(n.keys) : n.keys[j] < k <=> j < i
  BY KeyIndexSplits
<1>3. \A j \in 1..Len(n.keys) : n.keys[j] # k
  BY HasKey
<1>4. m = [n EXCEPT !.keys = InsertAt(n.keys, i, k), !.children = InsertAt(n.children, i + 1, c)]
  BY DEF InnerInsert
<1>5. m.keys = InsertAt(n.keys, i, k) /\ m.children = InsertAt(n.children, i + 1, c)
  BY <1>4 DEF NodeOK, Node
<1>6. NodeOK(m)
  BY InnerInsertOK
<1> HIDE DEF m, i
<1>7. /\ Len(m.keys) = Len(n.keys) + 1 /\ m.keys \in Seq(Keys)
      /\ \A j \in 1..(Len(n.keys) + 1) :
            m.keys[j] = IF j < i THEN n.keys[j] ELSE IF j = i THEN k ELSE n.keys[j - 1]
  <2>1. PICK s \in Seq(Keys) : s = n.keys
    BY <1>1
  <2>2. PICK at \in 1..(Len(s) + 1) : m.keys = InsertAt(s, at, k) /\ at = i
    BY <1>2, <1>5, <2>1
  <2>3. InsertAt(s, at, k) \in Seq(Keys) /\ Len(InsertAt(s, at, k)) = Len(s) + 1
    BY ONLY at \in 1..(Len(s) + 1), k \in Keys, s \in Seq(Keys), InsertAtIndex
  <2>4. \A j \in 1..(Len(s) + 1) :
           InsertAt(s, at, k)[j] = IF j < at THEN s[j] ELSE IF j = at THEN k ELSE s[j - 1]
    BY KeyInserted
  <2> QED
    BY <2>1, <2>2, <2>3, <2>4
<1>8. /\ Len(m.children) = Len(n.children) + 1 /\ m.children \in Seq(PageIDs)
      /\ \A j \in 1..(Len(n.children) + 1) :
            m.children[j] = IF j < i + 1 THEN n.children[j]
                            ELSE IF j = i + 1 THEN c ELSE n.children[j - 1]
  <2>1. PICK s \in Seq(PageIDs) : s = n.children
    BY <1>1
  <2>2. PICK at \in 1..(Len(s) + 1) : m.children = InsertAt(s, at, c) /\ at = i + 1
    BY <1>1, <1>2, <1>5, <2>1
  <2>3. /\ InsertAt(s, at, c) \in Seq(PageIDs) /\ Len(InsertAt(s, at, c)) = Len(s) + 1
        /\ \A j \in 1..(Len(s) + 1) :
              InsertAt(s, at, c)[j] = IF j < at THEN s[j] ELSE IF j = at THEN c ELSE s[j - 1]
    BY ONLY at \in 1..(Len(s) + 1), c \in PageIDs, s \in Seq(PageIDs), InsertAtIndex
  <2> QED
    BY <2>1, <2>2, <2>3
<1>9. DOMAIN m.keys = 1..(Len(n.keys) + 1)
  BY <1>7
<1>10. \A a, b \in 1..Len(n.keys) : a < b => n.keys[a] < n.keys[b]
  BY <1>1 DEF Sorted
<1>11. \A a \in 1..Len(n.keys) : IF a < i THEN n.keys[a] < k ELSE k < n.keys[a]
  BY <1>1, <1>2, <1>3
<1>12. Sorted(m)
  <2> SUFFICES ASSUME NEW a \in 1..(Len(n.keys) + 1), NEW b \in 1..(Len(n.keys) + 1), a < b
               PROVE  m.keys[a] < m.keys[b]
    BY <1>9 DEF Sorted
  <2>1. CASE b < i
    <3>1. m.keys[b] = n.keys[b] /\ m.keys[a] = n.keys[a]
      BY <1>1, <1>2, <1>7, <2>1
    <3>2. b \in 1..Len(n.keys) /\ a \in 1..Len(n.keys)
      BY <1>1, <1>2, <2>1
    <3> QED
      BY <1>10, <3>1, <3>2
  <2>2. CASE b = i
    <3>1. m.keys[b] = k /\ m.keys[a] = n.keys[a] /\ a \in 1..Len(n.keys) /\ a < i
      BY <1>1, <1>2, <1>7, <2>2
    <3> QED
      BY <1>11, <3>1
  <2>3. CASE b > i
    <3>1. m.keys[b] = n.keys[b - 1] /\ b - 1 \in 1..Len(n.keys) /\ b - 1 >= i
      BY <1>1, <1>2, <1>7, <2>3
    <3>2. CASE a < i
      <4>1. m.keys[a] = n.keys[a] /\ a \in 1..Len(n.keys) /\ a < b - 1
        BY <1>1, <1>2, <1>7, <2>3, <3>2
      <4> QED
        BY <1>10, <3>1, <4>1
    <3>3. CASE a = i
      <4>1. m.keys[a] = k /\ ~(b - 1 < i)
        BY <1>1, <1>2, <1>7, <2>3, <3>3
      <4> QED
        BY <1>11, <3>1, <4>1
    <3>4. CASE a > i
      <4>1. m.keys[a] = n.keys[a - 1] /\ a - 1 \in 1..Len(n.keys) /\ a - 1 < b - 1
        BY <1>1, <1>2, <1>7, <3>4
      <4> QED
        BY <1>10, <3>1, <4>1
    <3> QED
      BY <1>1, <1>2, <3>2, <3>3, <3>4
  <2> QED
    BY <1>1, <1>2, <2>1, <2>2, <2>3
<1>13. ASSUME NEW x \in Keys
       PROVE  /\ KeyIndex(m, x) = IF x <= k THEN KeyIndex(n, x) ELSE KeyIndex(n, x) + 1
              /\ x <= k => KeyIndex(n, x) <= i
              /\ x > k => KeyIndex(n, x) >= i
  <2> DEFINE e == KeyIndex(n, x)
  <2>1. /\ e \in 1..(Len(n.keys) + 1) /\ \A j \in 1..Len(n.keys) : n.keys[j] < x <=> j < e
        /\ x \in Int
    BY KeyIndexSplits, BTreeAssumption
  <2> HIDE DEF e
  <2>2. ASSUME x <= k
        PROVE  e <= i
    <3>1. ASSUME i < e PROVE FALSE
      <4>1. i \in 1..Len(n.keys) /\ ~(i < i)
        BY <1>1, <1>2, <2>1, <3>1
      <4>2. n.keys[i] < x /\ k < n.keys[i] /\ n.keys[i] \in Int
        BY <1>1, <1>11, <2>1, <3>1, <4>1
      <4> QED
        BY <1>1, <2>1, <2>2, <4>2
    <3> QED
      BY <1>1, <1>2, <2>1, <3>1
  <2>3. ASSUME x > k
        PROVE  e >= i
    <3>1. ASSUME e < i PROVE FALSE
      <4>1. e \in 1..Len(n.keys) /\ ~(e < e)
        BY <1>1, <1>2, <2>1, <3>1
      <4>2. ~(n.keys[e] < x) /\ n.keys[e] < k /\ n.keys[e] \in Int
        BY <1>1, <1>11, <2>1, <3>1, <4>1
      <4> QED
        BY <1>1, <2>1, <2>3, <4>2
    <3> QED
      BY <1>1, <1>2, <2>1, <3>1
  <2>4. ASSUME x <= k
        PROVE  KeyIndex(m, x) = e
    <3>1. ASSUME NEW j \in 1..Len(m.keys)
          PROVE  m.keys[j] < x <=> j < e
      <4>1. CASE j < i
        <5>1. m.keys[j] = n.keys[j] /\ j \in 1..Len(n.keys)
          BY <1>1, <1>2, <1>7, <4>1
        <5> QED
          BY <2>1, <5>1
      <4>2. CASE j = i
        <5>1. m.keys[j] = k
          BY <1>7, <4>2
        <5> QED
          BY <1>1, <1>2, <2>1, <2>2, <2>4, <4>2, <5>1
      <4>3. CASE j > i
        <5>1. m.keys[j] = n.keys[j - 1] /\ j - 1 \in 1..Len(n.keys) /\ ~(j - 1 < i)
          BY <1>1, <1>2, <1>7, <4>3
        <5>2. k < n.keys[j - 1] /\ n.keys[j - 1] \in Int
          BY <1>1, <1>11, <5>1
        <5> QED
          BY <1>1, <1>2, <2>1, <2>2, <2>4, <4>3, <5>1, <5>2
      <4> QED
        BY <1>1, <1>2, <4>1, <4>2, <4>3
    <3>2. e \in 1..(Len(m.keys) + 1)
      BY <1>1, <1>7, <2>1
    <3> QED
      BY <1>6, <3>1, <3>2, KeyIndexIs
  <2>5. ASSUME x > k
        PROVE  KeyIndex(m, x) = e + 1
    <3>1. ASSUME NEW j \in 1..Len(m.keys)
          PROVE  m.keys[j] < x <=> j < e + 1
      <4>1. CASE j < i
        <5>1. m.keys[j] = n.keys[j] /\ j \in 1..Len(n.keys)
          BY <1>1, <1>2, <1>7, <4>1
        <5>2. n.keys[j] < k /\ n.keys[j] \in Int
          BY <1>1, <1>11, <4>1, <5>1
        <5> QED
          BY <1>1, <1>2, <2>1, <2>3, <2>5, <4>1, <5>1, <5>2
      <4>2. CASE j = i
        <5>1. m.keys[j] = k
          BY <1>7, <4>2
        <5> QED
          BY <1>1, <1>2, <2>1, <2>3, <2>5, <4>2, <5>1
      <4>3. CASE j > i
        <5>1. m.keys[j] = n.keys[j - 1] /\ j - 1 \in 1..Len(n.keys)
          BY <1>1, <1>2, <1>7, <4>3
        <5>2. n.keys[j - 1] < x <=> j - 1 < e
          BY <2>1, <5>1
        <5> QED
          BY <1>1, <2>1, <5>1, <5>2
      <4> QED
        BY <1>1, <1>2, <4>1, <4>2, <4>3
    <3>2. e + 1 \in 1..(Len(m.keys) + 1)
      BY <1>1, <1>7, <2>1
    <3> QED
      BY <1>6, <3>1, <3>2, KeyIndexIs
  <2> QED
    BY <1>1, <2>1, <2>2, <2>3, <2>4, <2>5 DEF e
<1>14. ASSUME NEW j \in DOMAIN m.keys
       PROVE  m.keys[j] = k \/ \E l \in DOMAIN n.keys : m.keys[j] = n.keys[l]
  <2>1. j \in 1..(Len(n.keys) + 1)
    BY <1>9
  <2>2. CASE j < i
    <3>1. m.keys[j] = n.keys[j] /\ j \in DOMAIN n.keys
      BY <1>1, <1>2, <1>7, <2>1, <2>2
    <3> QED
      BY <3>1
  <2>3. CASE j = i
    BY <1>7, <2>1, <2>3
  <2>4. CASE j > i
    <3>1. m.keys[j] = n.keys[j - 1] /\ j - 1 \in DOMAIN n.keys
      BY <1>1, <1>2, <1>7, <2>1, <2>4
    <3> QED
      BY <3>1
  <2> QED
    BY <1>1, <1>2, <2>1, <2>2, <2>3, <2>4
<1>15. /\ i \in 1..Len(n.children) /\ Len(n.children) \in Nat
       /\ DOMAIN n.children = 1..Len(n.children) /\ DOMAIN m.children = 1..(Len(n.children) + 1)
  BY <1>1, <1>2, <1>8
<1>16. \A j \in 1..(Len(n.children) + 1) :
          m.children[j] = IF j <= i THEN n.children[j] ELSE IF j = i + 1 THEN c ELSE n.children[j - 1]
  BY <1>1, <1>2, <1>8
<1> QED
  BY <1>12, <1>13, <1>14, <1>15, <1>16 DEF m, i

(***************************************************************************)
(* A node that is split: the keys of its halves, on both sides of the      *)
(* separator, and where searches in the halves lead.                       *)
(***************************************************************************)
LEMMA HalfKeys ==
  ASSUME NEW n, NodeOK(n), IsFull(n)
  PROVE  /\ Keep(n) \in 1..Len(n.keys) /\ Separator(n) = n.keys[Keep(n)]
         /\ n.leaf => Keep(n) + 1 \in 1..Len(n.keys)
         /\ Len(LeftHalf(n).keys) = IF n.leaf THEN Keep(n) ELSE Keep(n) - 1
         /\ \A j \in 1..Len(LeftHalf(n).keys) : LeftHalf(n).keys[j] = n.keys[j]
         /\ Len(RightHalf(n).keys) = Len(n.keys) - Keep(n)
         /\ \A j \in 1..Len(RightHalf(n).keys) : RightHalf(n).keys[j] = n.keys[Keep(n) + j]
<1> DEFINE k == Keep(n)
<1>1. /\ n.keys \in Seq(Keys) /\ n.children \in Seq(PageIDs) /\ n.tids \in Seq(TIDs)
      /\ Len(n.keys) \in Nat /\ n.leaf \in BOOLEAN
  BY DEF NodeOK, Node
<1>2. Count(n) = Full(n) /\ Full(n) \in Nat /\ Full(n) >= 2
  BY <1>1, BTreeAssumption DEF IsFull, Full
<1>3. k \in 1..(Count(n) - 1)
  BY <1>2, Halved DEF Keep
<1>4. Count(n) = IF n.leaf THEN Len(n.keys) ELSE Len(n.keys) + 1
  BY DEF Count, NodeOK
<1>5. k \in 1..Len(n.keys) /\ (n.leaf => k + 1 \in 1..Len(n.keys))
  BY <1>1, <1>2, <1>3, <1>4
<1> DEFINE e == IF n.leaf THEN k ELSE k - 1
           lk == SubSeq(n.keys, 1, e)
           rk == SubSeq(n.keys, k + 1, Len(n.keys))
<1>6. LeftHalf(n).keys = lk /\ RightHalf(n).keys = rk
  BY <1>1 DEF LeftHalf, RightHalf, Leaf, Inner
<1> HIDE DEF k
<1>7. e \in 0..Len(n.keys) /\ k + 1 \in 1..(Len(n.keys) + 1)
  BY <1>1, <1>5
<1> HIDE DEF e
<1>8. /\ Len(lk) = e /\ \A j \in 1..e : lk[j] = n.keys[j]
  <2>1. /\ Len(lk) = IF 1 <= e THEN e - 1 + 1 ELSE 0
        /\ \A j \in 1..(e - 1 + 1) : lk[j] = n.keys[1 + j - 1]
    <3>1. 1 \in 1..(Len(n.keys) + 1)
      BY <1>1
    <3> QED
      BY ONLY <1>1, <1>7, <3>1, SubSeqIndex
  <2> QED
    BY <1>1, <1>7, <2>1
<1>9. /\ Len(rk) = Len(n.keys) - k /\ \A j \in 1..(Len(n.keys) - k) : rk[j] = n.keys[k + j]
  <2>1. /\ Len(rk) = IF k + 1 <= Len(n.keys) THEN Len(n.keys) - (k + 1) + 1 ELSE 0
        /\ \A j \in 1..(Len(n.keys) - (k + 1) + 1) : rk[j] = n.keys[(k + 1) + j - 1]
    <3>1. Len(n.keys) \in 0..Len(n.keys)
      BY <1>1
    <3> QED
      BY ONLY <1>1, <1>7, <3>1, SubSeqIndex
  <2> QED
    BY <1>1, <1>5, <2>1
<1> HIDE DEF lk, rk
<1> QED
  BY <1>5, <1>6, <1>8, <1>9 DEF k, e, Separator

LEMMA HalvesSorted ==
  ASSUME NEW n, NodeOK(n), IsFull(n), Sorted(n)
  PROVE  /\ Sorted(LeftHalf(n)) /\ Sorted(RightHalf(n))
         /\ \A j \in DOMAIN LeftHalf(n).keys : /\ LeftHalf(n).keys[j] <= Separator(n)
                                               /\ LeftHalf(n).keys[j] \in ToSet(n.keys)
         /\ \A j \in DOMAIN RightHalf(n).keys : /\ RightHalf(n).keys[j] > Separator(n)
                                                /\ RightHalf(n).keys[j] \in ToSet(n.keys)
         /\ Separator(n) \in ToSet(n.keys)
         /\ n.leaf => \E x \in ToSet(n.keys) : x > Separator(n)
<1> DEFINE k == Keep(n)
           l == LeftHalf(n)
           r == RightHalf(n)
           sep == Separator(n)
<1>1. /\ Len(n.keys) \in Nat /\ DOMAIN n.keys = 1..Len(n.keys)
      /\ \A j \in 1..Len(n.keys) : n.keys[j] \in Int
  BY NodeKeys
<1>2. /\ k \in 1..Len(n.keys) /\ sep = n.keys[k]
      /\ n.leaf => k + 1 \in 1..Len(n.keys)
      /\ Len(l.keys) \in {k, k - 1} /\ \A j \in 1..Len(l.keys) : l.keys[j] = n.keys[j]
      /\ Len(r.keys) = Len(n.keys) - k /\ \A j \in 1..Len(r.keys) : r.keys[j] = n.keys[k + j]
  BY HalfKeys
<1>3. DOMAIN l.keys = 1..Len(l.keys) /\ DOMAIN r.keys = 1..Len(r.keys)
  BY HalvesOK, NodeKeys
<1> HIDE DEF k, l, r, sep
<1>4. \A a, b \in 1..Len(n.keys) : a < b => n.keys[a] < n.keys[b]
  BY <1>1 DEF Sorted
<1>5. \A j \in 1..Len(l.keys) : j \in 1..Len(n.keys) /\ j <= k
  BY <1>1, <1>2
<1>6. \A j \in 1..Len(r.keys) : k + j \in 1..Len(n.keys) /\ k + j > k
  BY <1>1, <1>2
<1>7. Sorted(l) /\ Sorted(r)
  <2>1. \A a, b \in 1..Len(r.keys) : a < b => k + a < k + b
    BY <1>2
  <2>2. Sorted(l)
    <3>1. \A j \in 1..Len(l.keys) : l.keys[j] = n.keys[j] /\ j \in 1..Len(n.keys)
      BY <1>2, <1>5
    <3> QED
      BY <1>3, <1>4, <3>1 DEF Sorted
  <2>3. Sorted(r)
    <3>1. \A j \in 1..Len(r.keys) : r.keys[j] = n.keys[k + j] /\ k + j \in 1..Len(n.keys)
      BY <1>2, <1>6
    <3> QED
      BY <1>3, <1>4, <2>1, <3>1 DEF Sorted
  <2> QED
    BY <2>2, <2>3
<1>8. \A j \in DOMAIN l.keys : l.keys[j] <= sep /\ l.keys[j] \in ToSet(n.keys)
  <2> SUFFICES ASSUME NEW j \in 1..Len(l.keys)
               PROVE  n.keys[j] <= n.keys[k] /\ n.keys[j] \in ToSet(n.keys)
    BY <1>2, <1>3
  <2>1. j \in 1..Len(n.keys) /\ (j < k \/ j = k)
    BY <1>2, <1>5
  <2> QED
    BY <1>1, <1>2, <1>4, <2>1 DEF ToSet
<1>9. \A j \in DOMAIN r.keys : r.keys[j] > sep /\ r.keys[j] \in ToSet(n.keys)
  BY <1>1, <1>2, <1>3, <1>4, <1>6 DEF ToSet
<1>10. sep \in ToSet(n.keys)
  BY <1>1, <1>2 DEF ToSet
<1>11. ASSUME n.leaf
       PROVE  \E x \in ToSet(n.keys) : x > sep
  <2>1. k + 1 \in 1..Len(n.keys) /\ k < k + 1
    BY <1>2, <1>11
  <2>2. n.keys[k + 1] > sep /\ n.keys[k + 1] \in ToSet(n.keys)
    BY <1>1, <1>2, <1>4, <2>1 DEF ToSet
  <2> QED
    BY <2>2
<1> QED
  BY <1>7, <1>8, <1>9, <1>10, <1>11 DEF l, r, sep

LEMMA HalvesIndex ==
  ASSUME NEW n, NodeOK(n), IsFull(n), Sorted(n), ~n.leaf, NEW x \in Keys
  PROVE  /\ x <= Separator(n) => /\ KeyIndex(n, x) <= Keep(n)
                                 /\ KeyIndex(LeftHalf(n), x) = KeyIndex(n, x)
         /\ x > Separator(n)  => /\ KeyIndex(n, x) > Keep(n)
                                 /\ KeyIndex(RightHalf(n), x) = KeyIndex(n, x) - Keep(n)
<1> DEFINE k == Keep(n)
           l == LeftHalf(n)
           r == RightHalf(n)
           sep == Separator(n)
           e == KeyIndex(n, x)
<1>1. /\ Len(n.keys) \in Nat /\ x \in Int
      /\ \A j \in 1..Len(n.keys) : n.keys[j] \in Int
  BY NodeKeys, BTreeAssumption
<1>2. /\ k \in 1..Len(n.keys) /\ sep = n.keys[k]
      /\ Len(l.keys) = k - 1 /\ \A j \in 1..Len(l.keys) : l.keys[j] = n.keys[j]
      /\ Len(r.keys) = Len(n.keys) - k /\ \A j \in 1..Len(r.keys) : r.keys[j] = n.keys[k + j]
  BY HalfKeys
<1>3. NodeOK(l) /\ NodeOK(r)
  BY HalvesOK
<1>4. e \in 1..(Len(n.keys) + 1) /\ \A j \in 1..Len(n.keys) : n.keys[j] < x <=> j < e
  BY KeyIndexSplits
<1> HIDE DEF k, l, r, sep, e
<1>5. ASSUME x <= sep
      PROVE  e <= k /\ KeyIndex(l, x) = e
  <2>1. ~(n.keys[k] < x) /\ (n.keys[k] < x <=> k < e)
    BY <1>1, <1>2, <1>4, <1>5
  <2>2. e <= k
    BY <1>1, <1>2, <1>4, <2>1
  <2>3. e \in 1..(Len(l.keys) + 1) /\ \A j \in 1..Len(l.keys) : j \in 1..Len(n.keys)
    BY <1>1, <1>2, <1>4, <2>2
  <2>4. \A j \in 1..Len(l.keys) : l.keys[j] < x <=> j < e
    BY <1>2, <1>4, <2>3
  <2> QED
    BY <1>3, <2>2, <2>3, <2>4, KeyIndexIs
<1>6. ASSUME x > sep
      PROVE  e > k /\ KeyIndex(r, x) = e - k
  <2>1. n.keys[k] < x /\ (n.keys[k] < x <=> k < e)
    BY <1>1, <1>2, <1>4, <1>6
  <2>2. PICK d \in 1..(Len(r.keys) + 1) : d = e - k
    <3>1. Len(n.keys) \in Nat /\ k \in 1..Len(n.keys) /\ Len(r.keys) = Len(n.keys) - k
      BY <1>1, <1>2
    <3>2. e \in 1..(Len(n.keys) + 1) /\ k < e
      BY <1>2, <1>4, <2>1
    <3>3. e - k \in 1..(Len(r.keys) + 1)
      BY ONLY <3>1, <3>2
    <3> QED
      BY <3>3
  <2>3. ASSUME NEW j \in 1..Len(r.keys)
        PROVE  r.keys[j] < x <=> j < d
    <3>1. k + j \in 1..Len(n.keys)
      BY <1>1, <1>2
    <3>2. r.keys[j] < x <=> k + j < e
      BY <1>2, <1>4, <3>1
    <3> QED
      BY <1>1, <1>2, <1>4, <2>2, <3>2
  <2>4. KeyIndex(r, x) = d
    BY <1>3, <2>3, KeyIndexIs
  <2> QED
    BY <2>1, <2>2, <2>4
<1> QED
  BY <1>5, <1>6 DEF k, l, r, sep, e

LEMMA HalfChildren ==
  ASSUME NEW n, NodeOK(n), IsFull(n), ~n.leaf
  PROVE  /\ Len(n.children) \in Nat /\ DOMAIN n.children = 1..Len(n.children)
         /\ Keep(n) \in 1..(Len(n.children) - 1)
         /\ DOMAIN LeftHalf(n).children = 1..Keep(n)
         /\ \A j \in 1..Keep(n) : LeftHalf(n).children[j] = n.children[j]
         /\ DOMAIN RightHalf(n).children = 1..(Len(n.children) - Keep(n))
         /\ \A j \in 1..(Len(n.children) - Keep(n)) :
               RightHalf(n).children[j] = n.children[Keep(n) + j]
<1> DEFINE k == Keep(n)
           lc == SubSeq(n.children, 1, k)
           rc == SubSeq(n.children, k + 1, Len(n.children))
<1>1. /\ n.children \in Seq(PageIDs) /\ Len(n.children) \in Nat
      /\ DOMAIN n.children = 1..Len(n.children) /\ Len(n.keys) \in Nat
      /\ Len(n.children) = Len(n.keys) + 1
  BY DEF NodeOK, Node
<1>2. k \in 1..(Len(n.children) - 1)
  BY <1>1, HalfKeys
<1>3. LeftHalf(n).children = lc /\ RightHalf(n).children = rc
  BY DEF LeftHalf, RightHalf, Inner
<1> HIDE DEF k
<1>4. /\ lc \in Seq(PageIDs) /\ Len(lc) = k /\ \A j \in 1..k : lc[j] = n.children[j]
  <2>1. 1 \in 1..(Len(n.children) + 1) /\ k \in 0..Len(n.children)
    BY <1>1, <1>2
  <2>2. /\ lc \in Seq(PageIDs) /\ Len(lc) = IF 1 <= k THEN k - 1 + 1 ELSE 0
        /\ \A j \in 1..(k - 1 + 1) : lc[j] = n.children[1 + j - 1]
    BY ONLY <1>1, <2>1, SubSeqIndex
  <2> QED
    BY <1>2, <2>2
<1>5. /\ rc \in Seq(PageIDs) /\ Len(rc) = Len(n.children) - k
      /\ \A j \in 1..(Len(n.children) - k) : rc[j] = n.children[k + j]
  <2>1. k + 1 \in 1..(Len(n.children) + 1) /\ Len(n.children) \in 0..Len(n.children)
    BY <1>1, <1>2
  <2>2. /\ rc \in Seq(PageIDs)
        /\ Len(rc) = IF k + 1 <= Len(n.children) THEN Len(n.children) - (k + 1) + 1 ELSE 0
        /\ \A j \in 1..(Len(n.children) - (k + 1) + 1) : rc[j] = n.children[(k + 1) + j - 1]
    BY ONLY <1>1, <2>1, SubSeqIndex
  <2> QED
    BY <1>1, <1>2, <2>2
<1> HIDE DEF lc, rc
<1>6. DOMAIN lc = 1..k /\ DOMAIN rc = 1..(Len(n.children) - k)
  BY <1>1, <1>2, <1>4, <1>5
<1> QED
  BY <1>1, <1>2, <1>3, <1>4, <1>5, <1>6 DEF k

LEMMA HalvesEntries ==
  ASSUME NEW n, NodeOK(n), IsFull(n), Sorted(n), n.leaf, NEW x, NEW y
  PROVE  Entry(n, x, y) <=> Entry(LeftHalf(n), x, y) \/ Entry(RightHalf(n), x, y)
<1> DEFINE k == Keep(n)
           l == LeftHalf(n)
           r == RightHalf(n)
           lt == SubSeq(n.tids, 1, k)
           rt == SubSeq(n.tids, k + 1, Len(n.tids))
<1>1. /\ n.tids \in Seq(TIDs) /\ Len(n.tids) = Len(n.keys) /\ Len(n.keys) \in Nat
      /\ DOMAIN n.keys = 1..Len(n.keys)
  BY NodeKeys DEF NodeOK, Node
<1>2. /\ k \in 1..Len(n.keys)
      /\ Len(l.keys) = k /\ \A j \in 1..Len(l.keys) : l.keys[j] = n.keys[j]
      /\ Len(r.keys) = Len(n.keys) - k /\ \A j \in 1..Len(r.keys) : r.keys[j] = n.keys[k + j]
  BY HalfKeys
<1>3. DOMAIN l.keys = 1..Len(l.keys) /\ DOMAIN r.keys = 1..Len(r.keys)
  BY HalvesOK, NodeKeys
<1>4. l.tids = lt /\ r.tids = rt
  BY DEF LeftHalf, RightHalf, Leaf
<1> HIDE DEF k, l, r
<1>5. \A j \in 1..k : lt[j] = n.tids[j]
  <2>1. 1 \in 1..(Len(n.tids) + 1) /\ k \in 0..Len(n.tids)
    BY <1>1, <1>2
  <2>2. \A j \in 1..(k - 1 + 1) : lt[j] = n.tids[1 + j - 1]
    BY ONLY <1>1, <2>1, SubSeqIndex
  <2> QED
    BY <1>2, <2>2
<1>6. \A j \in 1..(Len(n.keys) - k) : rt[j] = n.tids[k + j]
  <2>1. k + 1 \in 1..(Len(n.tids) + 1) /\ Len(n.tids) \in 0..Len(n.tids)
    BY <1>1, <1>2
  <2>2. \A j \in 1..(Len(n.tids) - (k + 1) + 1) : rt[j] = n.tids[(k + 1) + j - 1]
    BY ONLY <1>1, <2>1, SubSeqIndex
  <2> QED
    BY <1>1, <1>2, <2>2
<1> HIDE DEF lt, rt
<1>7. ASSUME NEW j \in 1..Len(n.keys), n.keys[j] = x, n.tids[j] = y
      PROVE  Entry(l, x, y) \/ Entry(r, x, y)
  <2>1. CASE j <= k
    BY <1>2, <1>3, <1>4, <1>5, <1>7, <2>1 DEF Entry
  <2>2. CASE j > k
    <3>1. j - k \in 1..Len(r.keys) /\ k + (j - k) = j
      BY <1>1, <1>2, <2>2
    <3>2. r.keys[j - k] = x /\ r.tids[j - k] = y
      BY <1>2, <1>4, <1>6, <1>7, <3>1
    <3> QED
      BY <1>3, <3>1, <3>2 DEF Entry
  <2> QED
    BY <1>2, <2>1, <2>2
<1>8. ASSUME NEW j \in 1..Len(l.keys), l.keys[j] = x, l.tids[j] = y
      PROVE  Entry(n, x, y)
  <2>1. j \in 1..Len(n.keys) /\ n.keys[j] = x /\ n.tids[j] = y
    BY <1>1, <1>2, <1>4, <1>5, <1>8
  <2> QED
    BY <1>1, <2>1 DEF Entry
<1>9. ASSUME NEW j \in 1..Len(r.keys), r.keys[j] = x, r.tids[j] = y
      PROVE  Entry(n, x, y)
  <2>1. k + j \in 1..Len(n.keys) /\ n.keys[k + j] = x /\ n.tids[k + j] = y
    BY <1>1, <1>2, <1>4, <1>6, <1>9
  <2> QED
    BY <1>1, <2>1 DEF Entry
<1>10. Entry(n, x, y) => Entry(l, x, y) \/ Entry(r, x, y)
  BY <1>1, <1>7 DEF Entry
<1>11. Entry(l, x, y) \/ Entry(r, x, y) => Entry(n, x, y)
  <2>1. Entry(l, x, y) => Entry(n, x, y)
    <3> SUFFICES ASSUME Entry(l, x, y) PROVE Entry(n, x, y)
      OBVIOUS
    <3>1. PICK j \in 1..Len(l.keys) : l.keys[j] = x /\ l.tids[j] = y
      BY <1>3 DEF Entry
    <3> QED
      BY <1>8, <3>1
  <2>2. Entry(r, x, y) => Entry(n, x, y)
    <3> SUFFICES ASSUME Entry(r, x, y) PROVE Entry(n, x, y)
      OBVIOUS
    <3>1. PICK j \in 1..Len(r.keys) : r.keys[j] = x /\ r.tids[j] = y
      BY <1>3 DEF Entry
    <3> QED
      BY <1>9, <3>1
  <2> QED
    BY <2>1, <2>2
<1> QED
  BY <1>10, <1>11 DEF l, r

-----------------------------------------------------------------------------
(***************************************************************************)
(* The invariant: w gives every page a range of keys.  That of a child is  *)
(* the part of its parent's with its index, and what the upper half of a   *)
(* child that is being split has until it is linked counts as the child's  *)
(* (InReach).  Pages of a level share no keys, and a call is at a page     *)
(* that has its key.                                                       *)
(***************************************************************************)
InReach(w, p, k) == k \in w[p] \/ \E t \in Splitting(p) : k \in w[call[t].new]

ChildRanges(w, p) ==
    \A i \in DOMAIN nodes[p].children : \A k \in Keys :
        InReach(w, nodes[p].children[i], k) <=> k \in w[p] /\ KeyIndex(nodes[p], k) = i

NodeRange(w, h, p) == /\ Sorted(nodes[p])
                      /\ ToSet(nodes[p].keys) \subseteq w[p]
                      /\ p # root => w[p] # {}
                      /\ h[p] <= h[root]
                      /\ ChildRanges(w, p)

IsChild(p, c) == \E i \in DOMAIN nodes[p].children : nodes[p].children[i] = c

CallRange(w, t) ==
    LET c == call[t] IN
    /\ c.pc \in {"find", "insert"} => c.key \in w[c.page]
    /\ c.pc = "separate" => /\ c.sep \in w[c.page]
                            /\ \A k \in w[c.page] : k <= c.sep
                            /\ \A k \in w[c.new] : k > c.sep
                            /\ c.key \in w[c.page] \cup w[c.new]
    /\ c.par # NoPage => IsChild(c.par, c.page)

Apart(w, h) == \A p, q \in Used : p # q /\ h[p] = h[q] => w[p] \cap w[q] = {}

Ranges(w, h) == /\ \A k \in Keys : InReach(w, root, k)
                /\ \A p \in Used : NodeRange(w, h, p)
                /\ Apart(w, h)
                /\ \A t \in Threads : CallRange(w, t)

SearchInv == /\ TreeInv
             /\ \E h \in [PageIDs -> Nat], w \in [PageIDs -> SUBSET Keys] :
                   Levels(h) /\ Ranges(w, h)

\* A step that leaves every page its range.
RangesKept == \A h \in [PageIDs -> Nat], w \in [PageIDs -> SUBSET Keys] :
                 Levels(h) /\ Ranges(w, h) => Ranges(w, h)'

\* A page in exclusive hand is not being split by another call.
LEMMA NotSplit ==
  ASSUME TreeInv, NEW t \in Threads, call[t].op # "lookup", NEW p \in InHand(t),
         ~(At(t, "separate") /\ call[t].page = p)
  PROVE  Splitting(p) = {}
<1> SUFFICES ASSUME NEW u \in Splitting(p)
             PROVE  FALSE
  OBVIOUS
<1>1. u \in Threads /\ call[u].page = p /\ At(u, "separate")
  BY DEF Splitting
<1>2. u \in Threads \ {t} /\ p \in InHand(u)
  BY <1>1 DEF InHand
<1> QED
  BY <1>2, NotShared

\* Nor is one that can be fixed.
LEMMA FreeNotSplit ==
  ASSUME TreeInv, NEW t \in Threads, ~At(t, "separate"), NEW p \in PageIDs, CanFix(t, p)
  PROVE  Splitting(p) = {}
<1> SUFFICES ASSUME NEW u \in Splitting(p)
             PROVE  FALSE
  OBVIOUS
<1>1. u \in Threads /\ call[u].page = p /\ At(u, "separate") /\ u # t /\ CallOK(u)
  BY DEF Splitting, TreeInv
<1>2. p \in InHand(u) /\ call[u].op # "lookup"
  <2>1. p # NoPage
    BY BTreeAssumption DEF NoPage
  <2> QED
    BY <1>1, <2>1 DEF InHand, CallOK, At
<1>3. u \in lock[p].writers
  BY <1>1, <1>2 DEF TreeInv, LocksInHand
<1> QED
  BY <1>1, <1>3 DEF CanFix, CanRdLock, CanWrLock, Free

\* What a step of t leaves within the reach of a page c that t is not splitting.
LEMMA ReachStays ==
  ASSUME NEW t \in Threads, \A u \in Threads \ {t} : call'[u] = call[u],
         NEW c, ~(At(t, "separate") /\ call[t].page = c),
         ~(At(t, "separate")' /\ call'[t].page = c),
         NEW w, NEW v, v[c] = w[c],
         \A u \in Splitting(c) : v[call[u].new] = w[call[u].new],
         NEW k
  PROVE  InReach(v, c, k)' <=> InReach(w, c, k)
<1>1. Splitting(c)' = Splitting(c) /\ \A u \in Splitting(c) : call'[u].new = call[u].new
  BY DEF Splitting, At
<1> QED
  BY <1>1 DEF InReach

\* A page that no call is splitting has no more in reach than its own range.
LEMMA ReachAlone ==
  ASSUME NEW c, Splitting(c) = {}, NEW w, NEW k
  PROVE  InReach(w, c, k) <=> k \in w[c]
BY DEF InReach

\* The pages a call of another thread has in hand are not those of a call
\* that holds them exclusively, and are in use.
LEMMA OthersHands ==
  ASSUME TreeInv, NEW t \in Threads, call[t].op # "lookup", NEW u \in Threads \ {t},
         NEW p \in InHand(t)
  PROVE  /\ call[u].page # p /\ call[u].par # p /\ call[u].new # p
         /\ call[u].par # NoPage => call[u].par \in Used
         /\ call[u].new # NoPage => call[u].new \in Used
         /\ call[u].page # NoPage => call[u].page \in Used
<1>1. InHand(u) \subseteq Used /\ p \notin InHand(u) /\ p # NoPage
  BY HandUsed, NotShared DEF InHand
<1> QED
  BY <1>1 DEF InHand

(***************************************************************************)
(* A step that splits no node and changes the keys of leaves only, within  *)
(* their ranges, keeps all ranges.                                         *)
(***************************************************************************)
LEMMA CalmRanges ==
  ASSUME TreeInv, NEW t \in Threads, \A u \in Threads \ {t} : call'[u] = call[u],
         ~At(t, "separate"), ~At(t, "separate")', size' = size,
         NEW h, NEW w, Ranges(w, h),
         \A p \in Used : \/ nodes'[p] = nodes[p]
                         \/ /\ nodes[p].leaf /\ nodes'[p].children = nodes[p].children
                            /\ Sorted(nodes'[p]) /\ ToSet(nodes'[p].keys) \subseteq w[p],
         CallRange(w, t)'
  PROVE  Ranges(w, h)'
<1>1. Used' = Used /\ root' = root
  BY DEF Used, root
<1>2. ASSUME NEW c, NEW k
      PROVE  InReach(w, c, k)' <=> InReach(w, c, k)
  BY ReachStays
<1>3. \A k \in Keys : InReach(w, root, k)'
  BY <1>1, <1>2 DEF Ranges
<1>4. ASSUME NEW p \in Used
      PROVE  NodeRange(w, h, p)'
  <2>1. NodeRange(w, h, p)
    BY DEF Ranges
  <2>2. CASE nodes'[p] = nodes[p]
    BY <1>1, <1>2, <2>1, <2>2 DEF NodeRange, ChildRanges
  <2>3. CASE /\ nodes[p].leaf /\ nodes'[p].children = nodes[p].children
             /\ Sorted(nodes'[p]) /\ ToSet(nodes'[p].keys) \subseteq w[p]
    <3>1. nodes[p].children = << >>
      BY <2>3, HandUsed DEF TreeInv, TypeOK
    <3>2. DOMAIN nodes'[p].children = {}
      BY <2>3, <3>1
    <3> QED
      BY <1>1, <2>1, <2>3, <3>2 DEF NodeRange, ChildRanges
  <2> QED
    BY <2>2, <2>3
<1>5. Apart(w, h)'
  BY <1>1 DEF Ranges, Apart
<1>6. ASSUME NEW u \in Threads
      PROVE  CallRange(w, u)'
  <2>1. CASE u # t
    <3>1. call'[u] = call[u] /\ CallRange(w, u)
      BY <2>1 DEF Ranges
    <3>2. call[u].par # NoPage => nodes'[call[u].par].children = nodes[call[u].par].children
      <4>1. call[u].par # NoPage => call[u].par \in Used
        BY HandUsed DEF InHand
      <4> QED
        BY <4>1
    <3> QED
      BY <3>1, <3>2 DEF CallRange, IsChild
  <2> QED
    BY <2>1
<1> QED
  BY <1>1, <1>3, <1>4, <1>5, <1>6 DEF Ranges

-----------------------------------------------------------------------------
\* The steps of a call that split no node.

\* The child a call goes down to has its key.
LEMMA ChildReached ==
  ASSUME TreeInv, NEW t \in Threads, call[t].pc \in {"find", "insert"},
         ~nodes[call[t].page].leaf, CanFix(t, Child(nodes[call[t].page], call[t].key)),
         NEW h \in [PageIDs -> Nat], NEW w \in [PageIDs -> SUBSET Keys], Levels(h), Ranges(w, h)
  PROVE  /\ call[t].key \in w[Child(nodes[call[t].page], call[t].key)]
         /\ IsChild(call[t].page, Child(nodes[call[t].page], call[t].key))
<1> DEFINE p == call[t].page
           k == call[t].key
           c == Child(nodes[p], k)
<1>1. CallOK(t) /\ p \in Used /\ p \in PageIDs /\ k \in Keys
  <2>1. CallOK(t)
    BY DEF TreeInv
  <2>2. p \in Used /\ k \in Keys
    BY <2>1 DEF CallOK
  <2> QED
    BY <2>1, <2>2, HandUsed
<1>2. NodeOK(nodes[p])
  BY <1>1 DEF TreeInv, TypeOK, NodeOK
<1>3. /\ KeyIndex(nodes[p], k) \in DOMAIN nodes[p].children
      /\ c = nodes[p].children[KeyIndex(nodes[p], k)]
  BY <1>2, ChildIsChild
<1>4. k \in w[p] /\ ChildRanges(w, p)
  BY <1>1 DEF Ranges, CallRange, NodeRange
<1>5. InReach(w, c, k)
  BY <1>1, <1>3, <1>4 DEF ChildRanges
<1>6. Splitting(c) = {}
  <2>1. c \in PageIDs /\ ~At(t, "separate")
    BY <1>2, ChildIsChild DEF At
  <2> QED
    BY <2>1, FreeNotSplit
<1> QED
  BY <1>3, <1>5, <1>6, ReachAlone DEF IsChild

LEMMA BeginRanges ==
  ASSUME TreeInv, NEW t \in Threads, NEW op \in AllOps, NEW k \in Keys, NEW v \in TIDs \cup {NoTID},
         Begin(t, op, k, v)
  PROVE  RangesKept
<1> SUFFICES ASSUME NEW h \in [PageIDs -> Nat], NEW w \in [PageIDs -> SUBSET Keys],
                    Levels(h), Ranges(w, h)
             PROVE  Ranges(w, h)'
  BY DEF RangesKept
<1> DEFINE c == [Idle EXCEPT !.pc = "root", !.op = op, !.key = k, !.tid = v]
<1>1. c.pc = "root" /\ c.par = NoPage
  BY DEF Idle
<1>2. call \in [Threads -> Call] /\ call' = [call EXCEPT ![t] = c]
  BY DEF TreeInv, TypeOK, Begin
<1> HIDE DEF c
<1>3. call'[t] = c /\ \A u \in Threads \ {t} : call'[u] = call[u]
  BY <1>2
<1>4. CallRange(w, t)'
  BY <1>1, <1>3 DEF CallRange
<1>5. ~At(t, "separate") /\ ~At(t, "separate")'
  BY <1>1, <1>3 DEF Begin, At
<1>6. size' = size /\ nodes' = nodes
  BY DEF Begin
<1> QED
  BY <1>3, <1>4, <1>5, <1>6, CalmRanges

LEMMA FixRootRanges ==
  ASSUME TreeInv, NEW t \in Threads, FixRoot(t)
  PROVE  RangesKept
<1> SUFFICES ASSUME NEW h \in [PageIDs -> Nat], NEW w \in [PageIDs -> SUBSET Keys],
                    Levels(h), Ranges(w, h)
             PROVE  Ranges(w, h)'
  BY DEF RangesKept
<1>1. /\ call \in [Threads -> Call] /\ CallOK(t) /\ call[t] \in Call /\ call[t].pc = "root"
      /\ root \in PageIDs
  BY HandUsed DEF TreeInv, TypeOK, FixRoot, At
<1> DEFINE l == IF call[t].op = "insert" THEN "insert" ELSE "find"
<1>2. call' = [call EXCEPT ![t] = [call[t] EXCEPT !.pc = l, !.page = root]]
  BY <1>1 DEF FixRoot, Call
<1>3. /\ call'[t].pc = l /\ call'[t].page = root /\ call'[t].key = call[t].key
      /\ call'[t].par = NoPage /\ \A u \in Threads \ {t} : call'[u] = call[u]
  BY <1>1, <1>2 DEF Call, CallOK
<1>4. call[t].key \in w[root]
  <2>1. Splitting(root) = {}
    BY <1>1, FreeNotSplit DEF FixRoot, At
  <2>2. call[t].key \in Keys
    BY <1>1 DEF CallOK
  <2> QED
    BY <2>1, <2>2, ReachAlone DEF Ranges
<1>5. CallRange(w, t)'
  BY <1>3, <1>4 DEF CallRange
<1>6. ~At(t, "separate") /\ ~At(t, "separate")'
  BY <1>1, <1>3 DEF At
<1>7. size' = size /\ nodes' = nodes
  BY DEF FixRoot
<1> QED
  BY <1>3, <1>5, <1>6, <1>7, CalmRanges

LEMMA FindChildRanges ==
  ASSUME TreeInv, NEW t \in Threads, FindChild(t)
  PROVE  RangesKept
<1> SUFFICES ASSUME NEW h \in [PageIDs -> Nat], NEW w \in [PageIDs -> SUBSET Keys],
                    Levels(h), Ranges(w, h)
             PROVE  Ranges(w, h)'
  BY DEF RangesKept
<1> DEFINE p == call[t].page
           c == Child(nodes[p], call[t].key)
<1>1. /\ call \in [Threads -> Call] /\ CallOK(t) /\ call[t] \in Call /\ call[t].pc = "find"
      /\ ~nodes[p].leaf /\ CanFix(t, c)
      /\ call' = [call EXCEPT ![t] = [call[t] EXCEPT !.page = c]]
  BY DEF TreeInv, TypeOK, FindChild, At
<1>2. call[t].key \in w[c]
  BY <1>1, ChildReached
<1> HIDE DEF c
<1>3. /\ call'[t].pc = "find" /\ call'[t].page = c /\ call'[t].key = call[t].key
      /\ call'[t].par = NoPage /\ \A u \in Threads \ {t} : call'[u] = call[u]
  BY <1>1 DEF Call, CallOK
<1>4. CallRange(w, t)'
  BY <1>2, <1>3 DEF CallRange
<1>5. ~At(t, "separate") /\ ~At(t, "separate")'
  BY <1>1, <1>3 DEF At
<1>6. size' = size /\ nodes' = nodes
  BY DEF FindChild
<1> QED
  BY <1>3, <1>4, <1>5, <1>6, CalmRanges

LEMMA DescendRanges ==
  ASSUME TreeInv, NEW t \in Threads, Descend(t)
  PROVE  RangesKept
<1> SUFFICES ASSUME NEW h \in [PageIDs -> Nat], NEW w \in [PageIDs -> SUBSET Keys],
                    Levels(h), Ranges(w, h)
             PROVE  Ranges(w, h)'
  BY DEF RangesKept
<1> DEFINE p == call[t].page
           c == Child(nodes[p], call[t].key)
<1>1. /\ call \in [Threads -> Call] /\ call[t] \in Call /\ call[t].pc = "insert"
      /\ ~nodes[p].leaf /\ CanFix(t, c) /\ size' = size /\ nodes' = nodes
      /\ call' = [call EXCEPT ![t].par = p, ![t].page = c,
                              ![t].parDirty = call[t].bfDirty, ![t].bfDirty = FALSE]
  BY DEF TreeInv, TypeOK, Descend, At
<1>2. call[t].key \in w[c] /\ IsChild(p, c)
  BY <1>1, ChildReached
<1> HIDE DEF c
<1>3. /\ \A u \in Threads \ {t} : call'[u] = call[u]
      /\ call'[t] = [call[t] EXCEPT !.par = p, !.page = c,
                                    !.parDirty = call[t].bfDirty, !.bfDirty = FALSE]
  BY <1>1 DEF Call
<1>4. /\ call'[t].pc = "insert" /\ call'[t].page = c /\ call'[t].key = call[t].key
      /\ call'[t].par = p
  BY <1>1, <1>3 DEF Call
<1>5. CallRange(w, t)'
  BY <1>1, <1>2, <1>4 DEF CallRange, IsChild
<1>6. ~At(t, "separate") /\ ~At(t, "separate")'
  BY <1>1, <1>4 DEF At
<1> QED
  BY <1>1, <1>3, <1>5, <1>6, CalmRanges

\* A call that is over has no range to keep to.
LEMMA OverRanges ==
  ASSUME call \in [Threads -> Call], NEW t \in Threads, call' = [call EXCEPT ![t] = Idle],
         NEW w
  PROVE  /\ \A u \in Threads \ {t} : call'[u] = call[u]
         /\ ~At(t, "separate")' /\ CallRange(w, t)'
<1>1. call'[t] = Idle /\ Idle.pc = "idle" /\ Idle.par = NoPage
  BY DEF Idle
<1> QED
  BY <1>1 DEF At, CallRange

LEMMA LookupLeafRanges ==
  ASSUME TreeInv, NEW t \in Threads, LookupLeaf(t)
  PROVE  RangesKept
<1> SUFFICES ASSUME NEW h \in [PageIDs -> Nat], NEW w \in [PageIDs -> SUBSET Keys],
                    Levels(h), Ranges(w, h)
             PROVE  Ranges(w, h)'
  BY DEF RangesKept
<1>1. /\ call \in [Threads -> Call] /\ call' = [call EXCEPT ![t] = Idle]
      /\ ~At(t, "separate") /\ size' = size /\ nodes' = nodes
  BY DEF TreeInv, TypeOK, LookupLeaf, At
<1>2. /\ \A u \in Threads \ {t} : call'[u] = call[u]
      /\ ~At(t, "separate")' /\ CallRange(w, t)'
  BY <1>1, OverRanges
<1> QED
  BY <1>1, <1>2, CalmRanges

\* A leaf that keeps to its range, when the call that changed it is over.
LEMMA LeafRanges ==
  ASSUME TreeInv, NEW t \in Threads, call[t].pc \in {"find", "insert"},
         nodes[call[t].page].leaf, NEW n, NodeOK(n), n.leaf, Sorted(n),
         ToSet(n.keys) \subseteq ToSet(nodes[call[t].page].keys) \cup {call[t].key},
         nodes' = [nodes EXCEPT ![call[t].page] = n],
         call' = [call EXCEPT ![t] = Idle], size' = size
  PROVE  RangesKept
<1> SUFFICES ASSUME NEW h \in [PageIDs -> Nat], NEW w \in [PageIDs -> SUBSET Keys],
                    Levels(h), Ranges(w, h)
             PROVE  Ranges(w, h)'
  BY DEF RangesKept
<1> DEFINE p == call[t].page
<1>1. /\ call \in [Threads -> Call] /\ CallOK(t) /\ nodes \in [PageIDs -> Node]
      /\ ~At(t, "separate")
  BY DEF TreeInv, TypeOK, At
<1>2. p \in Used /\ p \in PageIDs /\ Used \subseteq PageIDs
  BY <1>1, HandUsed DEF CallOK
<1>3. /\ \A u \in Threads \ {t} : call'[u] = call[u]
      /\ ~At(t, "separate")' /\ CallRange(w, t)'
  BY <1>1, OverRanges
<1>4. nodes'[p] = n /\ \A q \in PageIDs \ {p} : nodes'[q] = nodes[q]
  BY <1>1, <1>2
<1>5. n.children = nodes[p].children
  BY <1>2 DEF NodeOK, TreeInv, TypeOK
<1>6. ToSet(n.keys) \subseteq w[p]
  <2>1. call[t].key \in w[p] /\ ToSet(nodes[p].keys) \subseteq w[p]
    BY <1>2 DEF Ranges, CallRange, NodeRange
  <2> QED
    BY <2>1
<1>7. \A q \in Used : \/ nodes'[q] = nodes[q]
                      \/ /\ nodes[q].leaf /\ nodes'[q].children = nodes[q].children
                         /\ Sorted(nodes'[q]) /\ ToSet(nodes'[q].keys) \subseteq w[q]
  BY <1>2, <1>4, <1>5, <1>6
<1> QED
  BY <1>1, <1>3, <1>7, CalmRanges

-----------------------------------------------------------------------------
\* What the tree maps a key to: the entries of all leaves.
Maps(k, v) == \E p \in Leaves : Entry(nodes[p], k, v)

\* The keys of a node and its entries.
LEMMA EntryKeys ==
  ASSUME NEW n, NodeOK(n), n.leaf
  PROVE  /\ ToSet(n.keys) \subseteq Keys
         /\ \A k : k \in ToSet(n.keys) <=> \E v \in TIDs : Entry(n, k, v)
         /\ \A k, v : Entry(n, k, v) => k \in ToSet(n.keys) /\ v \in TIDs
<1>1. /\ DOMAIN n.keys = 1..Len(n.keys) /\ Len(n.tids) = Len(n.keys) /\ Len(n.keys) \in Nat
      /\ \A i \in 1..Len(n.keys) : n.keys[i] \in Keys
      /\ n.tids \in Seq(TIDs)
  BY NodeKeys DEF NodeOK, Node
<1>2. \A i \in 1..Len(n.keys) : n.tids[i] \in TIDs
  BY <1>1
<1> QED
  BY <1>1, <1>2 DEF ToSet, Entry

\* Two leaves share no key.
LEMMA SoleLeaf ==
  ASSUME TreeInv, NEW h \in [PageIDs -> Nat], NEW w \in [PageIDs -> SUBSET Keys],
         Levels(h), Ranges(w, h), NEW p \in Leaves, NEW q \in Leaves, NEW k, k \in w[p], k \in w[q]
  PROVE  p = q
<1>1. p \in Used /\ q \in Used /\ nodes[p].leaf /\ nodes[q].leaf
  BY DEF Leaves, Used
<1>2. h[p] = 0 /\ h[q] = 0
  BY <1>1 DEF Levels, NodeLevel
<1> QED
  BY <1>1, <1>2 DEF Ranges, Apart

LEMMA LeafNodes ==
  ASSUME TreeInv, NEW p \in Leaves
  PROVE  p \in Used /\ p \in PageIDs /\ NodeOK(nodes[p]) /\ nodes[p].leaf
<1>1. p \in Used /\ nodes[p].leaf
  BY DEF Leaves, Used
<1>2. p \in PageIDs
  <2>1. size \in 1..Cardinality(PageIDs)
    BY DEF TreeInv, TypeOK
  <2> QED
    BY <1>1, <2>1, BTreeAssumption DEF Used
<1> QED
  BY <1>1, <1>2 DEF TreeInv, TypeOK, NodeOK

\* The keys of a leaf are in its range.
LEMMA LeafKeysInRange ==
  ASSUME TreeInv, NEW h, NEW w, Ranges(w, h), NEW p \in Leaves
  PROVE  Sorted(nodes[p]) /\ \A k, v : Entry(nodes[p], k, v) => k \in w[p]
<1>1. p \in Used /\ NodeOK(nodes[p]) /\ nodes[p].leaf
  BY LeafNodes
<1>2. Sorted(nodes[p]) /\ ToSet(nodes[p].keys) \subseteq w[p]
  BY <1>1 DEF Ranges, NodeRange
<1> QED
  BY <1>1, <1>2, EntryKeys

\* The keys that are stored, and what they are mapped to.
DictFacts == /\ Stored \subseteq Keys
             /\ \A k : k \in Stored <=> \E v \in TIDs : Maps(k, v)
             /\ \A k, v : Maps(k, v) => k \in Stored /\ v \in TIDs /\ TIDOf(k) = v

LEMMA DictIs ==
  ASSUME SearchInv
  PROVE  DictFacts
<1>1. PICK h \in [PageIDs -> Nat], w \in [PageIDs -> SUBSET Keys] :
        TreeInv /\ Levels(h) /\ Ranges(w, h)
  BY DEF SearchInv
<1>2. ASSUME NEW p \in Leaves
      PROVE  /\ ToSet(nodes[p].keys) \subseteq Keys
             /\ \A k : k \in ToSet(nodes[p].keys) <=> \E v \in TIDs : Entry(nodes[p], k, v)
             /\ \A k, v : Entry(nodes[p], k, v) => k \in ToSet(nodes[p].keys) /\ v \in TIDs
  <2>1. NodeOK(nodes[p]) /\ nodes[p].leaf
    BY <1>1, LeafNodes
  <2> QED
    BY <2>1, EntryKeys
<1>3. Stored \subseteq Keys /\ \A k : k \in Stored <=> \E p \in Leaves : k \in ToSet(nodes[p].keys)
  BY <1>2 DEF Stored
<1>4. \A k : k \in Stored <=> \E v \in TIDs : Maps(k, v)
  BY <1>2, <1>3 DEF Maps
<1>5. ASSUME NEW k, NEW v, Maps(k, v)
      PROVE  k \in Stored /\ v \in TIDs /\ TIDOf(k) = v
  <2>1. PICK p \in Leaves : Entry(nodes[p], k, v)
    BY <1>5 DEF Maps
  <2>2. k \in ToSet(nodes[p].keys) /\ v \in TIDs /\ k \in Stored /\ k \in Keys
    BY <1>2, <1>3, <2>1
  <2>3. PICK q \in Leaves : /\ k \in ToSet(nodes[q].keys)
                            /\ TIDOf(k) = nodes[q].tids[KeyIndex(nodes[q], k)]
    <3> DEFINE q == CHOOSE r \in Leaves : k \in ToSet(nodes[r].keys)
    <3>1. q \in Leaves /\ k \in ToSet(nodes[q].keys)
      BY <2>2
    <3>2. TIDOf(k) = nodes[q].tids[KeyIndex(nodes[q], k)]
      BY DEF TIDOf
    <3> HIDE DEF q
    <3> QED
      BY <3>1, <3>2
  <2>4. p = q
    <3>1. k \in w[p]
      BY <1>1, <2>1, LeafKeysInRange
    <3>2. k \in w[q]
      BY <1>1, <1>2, <2>3, LeafKeysInRange
    <3> QED
      BY <1>1, <3>1, <3>2, SoleLeaf
  <2>5. nodes[p].tids[KeyIndex(nodes[p], k)] = v
    <3>1. NodeOK(nodes[p]) /\ Sorted(nodes[p])
      BY <1>1, LeafNodes, LeafKeysInRange
    <3> QED
      BY <2>1, <2>2, <3>1, EntryAtIndex
  <2> QED
    BY <2>2, <2>3, <2>4, <2>5
<1> QED
  BY <1>3, <1>4, <1>5 DEF DictFacts

\* The same after a step.
LEMMA DictWillBe == SearchInv' => DictFacts'
<1>1. SearchInv => DictFacts
  BY DictIs
<1> QED
  BY <1>1, PTL

\* When what keys are mapped to stays the same, so does the dictionary.
LEMMA SameDict ==
  ASSUME SearchInv, SearchInv', \A k, v : Maps(k, v)' <=> Maps(k, v)
  PROVE  Stored' = Stored /\ [k \in Stored |-> TIDOf(k)]' = [k \in Stored |-> TIDOf(k)]
<1>0. DictFacts /\ DictFacts'
  BY DictIs, DictWillBe
<1>1. \A k : k \in Stored' <=> \E v \in TIDs : Maps(k, v)'
  BY <1>0 DEF DictFacts
<1>2. Stored' = Stored
  <2>1. \A k : k \in Stored <=> \E v \in TIDs : Maps(k, v)
    BY <1>0 DEF DictFacts
  <2> QED
    BY <1>1, <2>1
<1>3. ASSUME NEW k \in Stored
      PROVE  TIDOf(k)' = TIDOf(k)
  <2>1. PICK v \in TIDs : Maps(k, v)
    BY <1>0 DEF DictFacts
  <2>2. TIDOf(k) = v
    BY <1>0, <2>1 DEF DictFacts
  <2>3. TIDOf(k)' = v
    <3>1. Maps(k, v)'
      BY <2>1
    <3> QED
      BY <1>0, <3>1 DEF DictFacts
  <2> QED
    BY <2>2, <2>3
<1> QED
  BY <1>2, <1>3

\* The leaf a call has reached says what the dictionary says of its key.
LEMMA LeafSpeaks ==
  ASSUME SearchInv, NEW t \in Threads, call[t].pc \in {"find", "insert"},
         nodes[call[t].page].leaf
  PROVE  LET p == call[t].page
             k == call[t].key IN
         /\ p \in Leaves /\ NodeOK(nodes[p]) /\ Sorted(nodes[p]) /\ k \in Keys
         /\ \A v : Maps(k, v) <=> Entry(nodes[p], k, v)
         /\ \A q \in Leaves \ {p} : \A v : ~Entry(nodes[q], k, v)
         /\ k \in Stored <=> Has(nodes[p], k)
         /\ Has(nodes[p], k) => TIDOf(k) = nodes[p].tids[KeyIndex(nodes[p], k)]
<1> DEFINE p == call[t].page
           k == call[t].key
<1>1. PICK h \in [PageIDs -> Nat], w \in [PageIDs -> SUBSET Keys] :
        TreeInv /\ Levels(h) /\ Ranges(w, h)
  BY DEF SearchInv
<1>2. p \in Leaves /\ k \in Keys /\ k \in w[p]
  <2>1. CallOK(t)
    BY <1>1 DEF TreeInv
  <2>2. p \in Used /\ k \in Keys
    BY <2>1 DEF CallOK
  <2> QED
    BY <1>1, <2>2 DEF Used, Leaves, Ranges, CallRange
<1>3. NodeOK(nodes[p]) /\ Sorted(nodes[p])
  BY <1>1, <1>2, LeafNodes, LeafKeysInRange
<1>4. ASSUME NEW q \in Leaves \ {p}, NEW v
      PROVE  ~Entry(nodes[q], k, v)
  <2>1. Entry(nodes[q], k, v) => k \in w[q]
    BY <1>1, LeafKeysInRange
  <2> QED
    BY <1>1, <1>2, <2>1, SoleLeaf
<1>5. \A v : Maps(k, v) <=> Entry(nodes[p], k, v)
  BY <1>2, <1>4 DEF Maps
<1>6. \A v : Entry(nodes[p], k, v) <=> Has(nodes[p], k) /\ nodes[p].tids[KeyIndex(nodes[p], k)] = v
  BY <1>2, <1>3, EntryAtIndex
<1>7. k \in Stored <=> Has(nodes[p], k)
  <2>1. k \in Stored <=> \E v : Maps(k, v)
    BY DictIs DEF DictFacts
  <2> QED
    BY <1>5, <1>6, <2>1
<1>8. Has(nodes[p], k) => TIDOf(k) = nodes[p].tids[KeyIndex(nodes[p], k)]
  BY <1>5, <1>6, DictIs DEF DictFacts
<1> QED
  BY <1>2, <1>3, <1>4, <1>5, <1>7, <1>8

-----------------------------------------------------------------------------
\* insert and erase, once they have reached the leaf.

\* What becomes of the map when one leaf changes.
LEMMA LeafMaps ==
  ASSUME TreeInv, NEW p \in Leaves, NEW n, n.leaf, nodes' = [nodes EXCEPT ![p] = n], size' = size,
         NEW k, NEW v
  PROVE  Maps(k, v)' <=> Entry(n, k, v) \/ \E q \in Leaves \ {p} : Entry(nodes[q], k, v)
<1>1. p \in Used /\ p \in PageIDs /\ nodes \in [PageIDs -> Node] /\ Leaves \subseteq PageIDs
  BY LeafNodes DEF TreeInv, TypeOK
<1>2. nodes'[p] = n /\ \A q \in PageIDs \ {p} : nodes'[q] = nodes[q]
  BY <1>1
<1>3. Used \subseteq PageIDs
  <2>1. size \in 1..Cardinality(PageIDs)
    BY DEF TreeInv, TypeOK
  <2> QED
    BY <2>1, BTreeAssumption DEF Used
<1>4. Leaves' = Leaves
  <2>1. \A q \in Used : nodes'[q].leaf <=> nodes[q].leaf
    BY <1>2, <1>3, LeafNodes
  <2> QED
    BY <2>1 DEF Leaves, Used
<1>5. Maps(k, v)' <=> \E q \in Leaves : Entry(nodes'[q], k, v)
  BY <1>4 DEF Maps, Entry
<1> QED
  BY <1>1, <1>2, <1>5

LEMMA InsertLeafTakesEffect ==
  ASSUME SearchInv, NEW t \in Threads, InsertLeaf(t)
  PROVE  /\ RangesKept
         /\ call[t].key \in Keys /\ call[t].tid \in TIDs
         /\ \A x, y : Maps(x, y)' <=> IF x = call[t].key THEN y = call[t].tid ELSE Maps(x, y)
<1> DEFINE p == call[t].page
           k == call[t].key
           v == call[t].tid
           n == LeafInsert(nodes[p], k, v)
<1>0. TreeInv
  BY DEF SearchInv
<1>1. /\ CallOK(t) /\ At(t, "insert") /\ nodes[p].leaf
      /\ nodes' = [nodes EXCEPT ![p] = n]
      /\ call' = [call EXCEPT ![t] = Idle] /\ size' = size
  BY <1>0 DEF TreeInv, InsertLeaf, At
<1>2. call[t].pc = "insert" /\ v \in TIDs
  BY <1>1 DEF CallOK, At
<1>3. /\ p \in Leaves /\ NodeOK(nodes[p]) /\ Sorted(nodes[p]) /\ k \in Keys
      /\ \A q \in Leaves \ {p} : \A y : ~Entry(nodes[q], k, y)
  BY <1>1, <1>2, LeafSpeaks
<1>4. NodeOK(n) /\ n.leaf
  BY <1>1, <1>2, <1>3, LeafInsertOK
<1>5. Sorted(n) /\ \A x \in Keys : \A y : Entry(n, x, y) <=> IF x = k THEN y = v ELSE Entry(nodes[p], x, y)
  BY <1>1, <1>2, <1>3, LeafInsertEntries
<1> HIDE DEF n
<1>6. ToSet(n.keys) \subseteq ToSet(nodes[p].keys) \cup {k}
  <2> SUFFICES ASSUME NEW x \in ToSet(n.keys), x # k
               PROVE  x \in ToSet(nodes[p].keys)
    OBVIOUS
  <2>1. x \in Keys /\ \E y \in TIDs : Entry(n, x, y)
    BY <1>4, EntryKeys
  <2>2. \E y \in TIDs : Entry(nodes[p], x, y)
    BY <1>5, <2>1
  <2> QED
    BY <1>1, <1>3, <2>2, EntryKeys
<1>7. RangesKept
  <2>1. call[t].pc \in {"find", "insert"}
    BY <1>2
  <2> QED
    BY <1>0, <1>1, <1>4, <1>5, <1>6, <2>1, LeafRanges
<1>8. ASSUME NEW x, NEW y
      PROVE  Maps(x, y)' <=> IF x = k THEN y = v ELSE Maps(x, y)
  <2>1. Maps(x, y)' <=> Entry(n, x, y) \/ \E q \in Leaves \ {p} : Entry(nodes[q], x, y)
    BY <1>0, <1>1, <1>3, <1>4, LeafMaps
  <2>2. Entry(n, x, y) <=> IF x = k THEN y = v ELSE Entry(nodes[p], x, y)
    <3>1. Entry(n, x, y) => x \in Keys
      BY <1>4, EntryKeys
    <3>2. Entry(nodes[p], x, y) => x \in Keys
      BY <1>1, <1>3, EntryKeys
    <3> QED
      BY <1>3, <1>5, <3>1, <3>2
  <2>3. Maps(x, y) <=> Entry(nodes[p], x, y) \/ \E q \in Leaves \ {p} : Entry(nodes[q], x, y)
    BY <1>3 DEF Maps
  <2> QED
    BY <1>3, <2>1, <2>2, <2>3
<1> QED
  BY <1>2, <1>3, <1>7, <1>8

LEMMA EraseLeafTakesEffect ==
  ASSUME SearchInv, NEW t \in Threads, EraseLeaf(t), call[t].key \in Stored
  PROVE  /\ call[t].key \in Keys
         /\ \A x, y : Maps(x, y)' <=> x # call[t].key /\ Maps(x, y)
         /\ answer' = [answer EXCEPT ![t] = [found |-> TRUE, tid |-> NoTID]]
<1> DEFINE p == call[t].page
           k == call[t].key
           n == LeafRemove(nodes[p], k)
<1>0. TreeInv
  BY DEF SearchInv
<1>1. /\ CallOK(t) /\ At(t, "find") /\ nodes[p].leaf
      /\ nodes' = [nodes EXCEPT ![p] = n]
      /\ call' = [call EXCEPT ![t] = Idle] /\ size' = size
      /\ answer' = [answer EXCEPT ![t] = [found |-> KeyIndex(nodes[p], k) <= Len(nodes[p].keys),
                                          tid |-> NoTID]]
  BY <1>0 DEF TreeInv, EraseLeaf, At
<1>2. call[t].pc \in {"find", "insert"}
  BY <1>1 DEF At
<1>3. /\ p \in Leaves /\ NodeOK(nodes[p]) /\ Sorted(nodes[p]) /\ k \in Keys
      /\ \A q \in Leaves \ {p} : \A y : ~Entry(nodes[q], k, y)
      /\ Has(nodes[p], k)
  BY <1>1, <1>2, LeafSpeaks
<1>4. NodeOK(n) /\ n.leaf
  BY <1>1, <1>3, LeafRemoveOK
<1>5. Sorted(n) /\ \A x \in Keys : \A y : Entry(n, x, y) <=> x # k /\ Entry(nodes[p], x, y)
  BY <1>1, <1>3, LeafRemoveEntries
<1> HIDE DEF n
<1>6. ASSUME NEW x, NEW y
      PROVE  Maps(x, y)' <=> x # k /\ Maps(x, y)
  <2>1. Maps(x, y)' <=> Entry(n, x, y) \/ \E q \in Leaves \ {p} : Entry(nodes[q], x, y)
    BY <1>0, <1>1, <1>3, <1>4, LeafMaps
  <2>2. Entry(n, x, y) <=> x # k /\ Entry(nodes[p], x, y)
    <3>1. Entry(n, x, y) => x \in Keys
      BY <1>4, EntryKeys
    <3>2. Entry(nodes[p], x, y) => x \in Keys
      BY <1>1, <1>3, EntryKeys
    <3> QED
      BY <1>3, <1>5, <3>1, <3>2
  <2>3. Maps(x, y) <=> Entry(nodes[p], x, y) \/ \E q \in Leaves \ {p} : Entry(nodes[q], x, y)
    BY <1>3 DEF Maps
  <2> QED
    BY <1>3, <2>1, <2>2, <2>3
<1>7. (KeyIndex(nodes[p], k) <= Len(nodes[p].keys)) = TRUE
  BY <1>3 DEF Has
<1> QED
  BY <1>1, <1>3, <1>6, <1>7

-----------------------------------------------------------------------------
\* A node is split: its range is divided at the separator.
LEMMA SplitRanges ==
  ASSUME TreeInv, NEW t \in Threads, Split(t),
         NEW h \in [PageIDs -> Nat], NEW w \in [PageIDs -> SUBSET Keys], Levels(h), Ranges(w, h),
         NEW g \in [PageIDs -> Nat], g[size] = h[call[t].page], \A q \in Used : g[q] = h[q]
  PROVE  \E v \in [PageIDs -> SUBSET Keys] : Ranges(v, g)'
<1>0. PICK p, n, new, sep : p = call[t].page /\ n = nodes[p] /\ new = size /\ sep = Separator(n)
  OBVIOUS
<1>1. /\ call \in [Threads -> Call] /\ CallOK(t) /\ call[t] \in Call /\ call[t].pc = "insert"
      /\ nodes \in [PageIDs -> Node]
      /\ IsFull(n) /\ new \in PageIDs
      /\ nodes' = [nodes EXCEPT ![p] = LeftHalf(n), ![new] = RightHalf(n)]
      /\ call' = [call EXCEPT ![t].pc = "separate", ![t].new = new, ![t].sep = sep]
      /\ size' = size + 1
  BY <1>0 DEF TreeInv, TypeOK, Split, At
<1>2. /\ p \in Used /\ p \in PageIDs /\ Used \subseteq PageIDs /\ call[t].op = "insert"
      /\ call[t].new = NoPage /\ call[t].key \in Keys /\ call[t].par \in Used \cup {NoPage}
      /\ root \in Used /\ NoPage \notin Used
  BY <1>0, <1>1, HandUsed DEF CallOK, Used, NoPage
<1>3. /\ new \notin Used /\ new # root /\ Used' = Used \cup {new} /\ p # new /\ new # NoPage
  <2>1. size \in Nat
    BY HandUsed
  <2> QED
    BY <1>0, <1>1, <1>2, <2>1 DEF Used, NoPage
<1>4. /\ nodes'[p] = LeftHalf(n) /\ nodes'[new] = RightHalf(n)
      /\ \A q \in PageIDs \ {p, new} : nodes'[q] = nodes[q]
  BY <1>1, <1>2, <1>3
<1>5. /\ \A u \in Threads \ {t} : call'[u] = call[u]
      /\ call'[t] = [call[t] EXCEPT !.pc = "separate", !.new = new, !.sep = sep]
  BY <1>1 DEF Call
<1>6. /\ call'[t].pc = "separate" /\ call'[t].page = p /\ call'[t].key = call[t].key
      /\ call'[t].par = call[t].par /\ call'[t].new = new /\ call'[t].sep = sep
  BY <1>0, <1>1, <1>5 DEF Call
<1>7. NodeOK(n) /\ NodeLevel(h, p) /\ NodeRange(w, h, p) /\ w[p] \subseteq Keys
  BY <1>0, <1>2 DEF TreeInv, TypeOK, NodeOK, Levels, Ranges
<1>8. /\ Sorted(n) /\ ToSet(n.keys) \subseteq w[p] /\ ChildRanges(w, p) /\ h[p] <= h[root]
  BY <1>0, <1>7 DEF NodeRange
<1>9. /\ Sorted(LeftHalf(n)) /\ Sorted(RightHalf(n))
      /\ \A j \in DOMAIN LeftHalf(n).keys : /\ LeftHalf(n).keys[j] <= sep
                                            /\ LeftHalf(n).keys[j] \in ToSet(n.keys)
      /\ \A j \in DOMAIN RightHalf(n).keys : /\ RightHalf(n).keys[j] > sep
                                             /\ RightHalf(n).keys[j] \in ToSet(n.keys)
      /\ sep \in ToSet(n.keys)
      /\ n.leaf => \E x \in ToSet(n.keys) : x > sep
  BY <1>0, <1>1, <1>7, <1>8, HalvesSorted
<1>10. LeftHalf(n).leaf = n.leaf /\ RightHalf(n).leaf = n.leaf /\ sep \in Keys
       /\ NodeOK(LeftHalf(n)) /\ NodeOK(RightHalf(n))
  BY <1>0, <1>1, <1>7, HalvesOK
<1>11. \A x \in Keys : x \in Int
  BY BTreeAssumption
<1>12. PICK v \in [PageIDs -> SUBSET Keys] :
         /\ v[p] = {k \in w[p] : k <= sep} /\ v[new] = {k \in w[p] : k > sep}
         /\ \A q \in PageIDs \ {p, new} : v[q] = w[q]
  <2> DEFINE v == [q \in PageIDs |-> IF q = p THEN {k \in w[p] : k <= sep}
                                     ELSE IF q = new THEN {k \in w[p] : k > sep} ELSE w[q]]
  <2>1. v \in [PageIDs -> SUBSET Keys]
    BY <1>7
  <2>2. /\ v[p] = {k \in w[p] : k <= sep} /\ v[new] = {k \in w[p] : k > sep}
        /\ \A q \in PageIDs \ {p, new} : v[q] = w[q]
    BY <1>1, <1>2, <1>3
  <2> HIDE DEF v
  <2> QED
    BY <2>1, <2>2
<1>13. \A u \in Threads \ {t} : /\ call[u].page # p /\ call[u].par # p /\ call[u].new # p
                                /\ call[u].par # NoPage => call[u].par \in Used
                                /\ call[u].new # NoPage => call[u].new \in Used
                                /\ call[u].page # NoPage => call[u].page \in Used
  <2>1. p \in InHand(t) /\ call[t].op # "lookup"
    BY <1>0, <1>2 DEF InHand
  <2> QED
    BY <2>1, OthersHands
<1>14. \A u \in Threads \ {t} : At(u, "separate") => call[u].new \in Used /\ call[u].page \in Used
  BY DEF TreeInv, CallOK, At
<1>15. \A k \in Keys : k \in w[p] <=> k \in v[p] \/ k \in v[new]
  BY <1>10, <1>11, <1>12
<1>16. ASSUME NEW c \in Used, NEW k \in Keys
       PROVE  InReach(v, c, k)' <=> InReach(w, c, k)
  <2>1. CASE c = p
    <3>1. Splitting(p) = {} /\ Splitting(p)' = {t}
      <4>1. Splitting(p) = {}
        BY <1>1, <1>13 DEF Splitting, At
      <4>2. Splitting(p)' = {t}
        <5>1. \A u \in Threads \ {t} : call'[u].page # p
          BY <1>5, <1>13
        <5>2. call'[t].pc = "separate" /\ call'[t].page = p
          BY <1>6
        <5>3. Splitting(p)' = {u \in Threads : call'[u].pc = "separate" /\ call'[u].page = p}
          BY DEF Splitting, At
        <5> QED
          BY <5>1, <5>2, <5>3
      <4> QED
        BY <4>1, <4>2
    <3>2. InReach(w, p, k) <=> k \in w[p]
      BY <3>1, ReachAlone
    <3>3. InReach(v, p, k)' <=> k \in v[p] \/ k \in v[new]
      BY <1>6, <3>1 DEF InReach
    <3> QED
      BY <1>15, <2>1, <3>2, <3>3
  <2>2. CASE c # p
    <3>1. v[c] = w[c]
      BY <1>2, <1>3, <1>12, <2>2
    <3>2. \A u \in Splitting(c) : v[call[u].new] = w[call[u].new]
      <4> SUFFICES ASSUME NEW u \in Splitting(c)
                   PROVE  call[u].new \in PageIDs \ {p, new}
        BY <1>12
      <4>1. u \in Threads \ {t} /\ At(u, "separate")
        BY <1>1 DEF Splitting, At
      <4> QED
        BY <1>2, <1>3, <1>13, <1>14, <4>1
    <3>3. ~(At(t, "separate") /\ call[t].page = c) /\ ~(At(t, "separate")' /\ call'[t].page = c)
      BY <1>0, <1>6, <2>2
    <3> QED
      BY <1>5, <3>1, <3>2, <3>3, ReachStays
  <2> QED
    BY <2>1, <2>2
<1>17. \A k \in Keys : InReach(v, root, k)'
  <2>1. \A k \in Keys : InReach(w, root, k)
    BY DEF Ranges
  <2>2. root \in PageIDs
    BY <1>2
  <2> QED
    BY <1>2, <1>16, <2>1 DEF root
<1>18. /\ sep \in v[p] /\ v[new] # {}
  <2>1. sep \in v[p]
    BY <1>8, <1>9, <1>10, <1>11, <1>12
  <2>2. CASE n.leaf
    <3>1. PICK x \in ToSet(n.keys) : x > sep
      BY <1>9, <2>2
    <3>2. x \in w[p] /\ v[new] = {k \in w[p] : k > sep}
      BY <1>8, <1>12
    <3>3. x \in v[new]
      BY <3>1, <3>2
    <3> QED
      BY <2>1, <3>3
  <2>3. CASE ~n.leaf
    <3>1. /\ Keep(n) + 1 \in DOMAIN n.children /\ Keep(n) \in Nat
      BY <1>1, <1>7, <2>3, HalfChildren
    <3>2. PICK c : c = n.children[Keep(n) + 1]
      OBVIOUS
    <3>3. c \in Used \ {root}
      BY <1>0, <1>7, <3>1, <3>2 DEF NodeLevel
    <3>4. NodeRange(w, h, c)
      BY <3>3 DEF Ranges
    <3>5. PICK k : k \in w[c]
      BY <3>3, <3>4 DEF NodeRange
    <3>6. k \in Keys /\ InReach(w, c, k)
      BY <1>2, <3>3, <3>5 DEF InReach
    <3>7. k \in w[p] /\ KeyIndex(n, k) = Keep(n) + 1
      BY <1>0, <1>8, <3>1, <3>2, <3>6 DEF ChildRanges
    <3>8. k <= sep => KeyIndex(n, k) <= Keep(n)
      BY <1>0, <1>1, <1>7, <1>8, <2>3, <3>6, HalvesIndex
    <3>9. k > sep
      BY <1>10, <1>11, <3>1, <3>6, <3>7, <3>8
    <3>10. v[new] = {x \in w[p] : x > sep}
      BY <1>12
    <3>11. k \in v[new]
      BY <3>7, <3>9, <3>10
    <3> QED
      BY <2>1, <3>11
  <2> QED
    BY <2>1, <2>2, <2>3
<1>19. /\ \A c \in Used : g[c] = h[c] /\ h[c] <= h[root] /\ g[c] <= g[root]
       /\ g[new] = h[p] /\ g[new] <= g[root]
  <2>1. \A c \in Used : h[c] <= h[root]
    BY DEF Ranges, NodeRange
  <2> QED
    BY <1>0, <1>2, <2>1
<1>20. ASSUME NEW q \in Used \ {p}
       PROVE  NodeRange(v, g, q)'
  <2>1. NodeRange(w, h, q) /\ NodeLevel(h, q)
    BY DEF Ranges, Levels
  <2>2. nodes'[q] = nodes[q] /\ v[q] = w[q]
    BY <1>2, <1>3, <1>4, <1>12
  <2>3. ASSUME NEW i \in DOMAIN nodes[q].children, NEW k \in Keys
        PROVE  InReach(v, nodes[q].children[i], k)' <=> k \in v[q] /\ KeyIndex(nodes'[q], k) = i
    <3>1. PICK c : c = nodes[q].children[i]
      OBVIOUS
    <3>2. c \in Used
      BY <2>1, <3>1 DEF NodeLevel
    <3>3. InReach(w, c, k) <=> k \in w[q] /\ KeyIndex(nodes[q], k) = i
      BY <2>1, <3>1 DEF NodeRange, ChildRanges
    <3>4. InReach(v, c, k)' <=> InReach(w, c, k)
      BY <1>16, <3>2
    <3> QED
      BY <2>2, <3>1, <3>3, <3>4
  <2> QED
    BY <1>19, <2>1, <2>2, <2>3 DEF NodeRange, ChildRanges, root
<1>21. \A i \in DOMAIN n.children : n.children[i] \in Used
  BY <1>0, <1>7 DEF NodeLevel
<1>22. NodeRange(v, g, p)'
  <2>1. ToSet(LeftHalf(n).keys) \subseteq v[p]
    BY <1>8, <1>9, <1>12 DEF ToSet
  <2>2. ASSUME NEW i \in DOMAIN LeftHalf(n).children, NEW k \in Keys,
               NEW c, c = LeftHalf(n).children[i]
        PROVE  InReach(v, c, k)' <=> k \in v[p] /\ KeyIndex(LeftHalf(n), k) = i
    <3>1. ~n.leaf
      <4> SUFFICES ASSUME n.leaf PROVE FALSE
        OBVIOUS
      <4>1. LeftHalf(n).children = << >>
        BY <1>10 DEF NodeOK
      <4> QED
        BY <2>2, <4>1
    <3>2. /\ i \in 1..Keep(n) /\ Keep(n) \in Nat /\ i \in DOMAIN n.children
          /\ c = n.children[i]
      BY <1>1, <1>7, <2>2, <3>1, HalfChildren
    <3>3. /\ k <= sep => KeyIndex(n, k) <= Keep(n) /\ KeyIndex(LeftHalf(n), k) = KeyIndex(n, k)
          /\ k > sep => KeyIndex(n, k) > Keep(n)
      BY <1>0, <1>1, <1>7, <1>8, <3>1, HalvesIndex
    <3>4. InReach(v, c, k)' <=> InReach(w, c, k)
      BY <1>16, <1>21, <3>2
    <3>5. InReach(w, c, k) <=> k \in w[p] /\ KeyIndex(n, k) = i
      BY <1>0, <1>8, <3>2 DEF ChildRanges
    <3>6. k \in v[p] <=> k \in w[p] /\ k <= sep
      BY <1>12
    <3>7. k <= sep \/ k > sep
      BY <1>10, <1>11
    <3>8. KeyIndex(n, k) = i => ~(KeyIndex(n, k) > Keep(n))
      BY <3>2
    <3> QED
      BY <3>3, <3>4, <3>5, <3>6, <3>7, <3>8
  <2>3. Sorted(LeftHalf(n)) /\ v[p] # {} /\ g[p] <= g[root]
    BY <1>2, <1>9, <1>18, <1>19
  <2> QED
    BY <1>4, <2>1, <2>2, <2>3 DEF NodeRange, ChildRanges, root
<1>23. NodeRange(v, g, new)'
  <2>1. ToSet(RightHalf(n).keys) \subseteq v[new]
    BY <1>8, <1>9, <1>12 DEF ToSet
  <2>2. ASSUME NEW i \in DOMAIN RightHalf(n).children, NEW k \in Keys,
               NEW c, c = RightHalf(n).children[i]
        PROVE  InReach(v, c, k)' <=> k \in v[new] /\ KeyIndex(RightHalf(n), k) = i
    <3>1. ~n.leaf
      <4> SUFFICES ASSUME n.leaf PROVE FALSE
        OBVIOUS
      <4>1. RightHalf(n).children = << >>
        BY <1>10 DEF NodeOK
      <4> QED
        BY <2>2, <4>1
    <3>2. /\ Keep(n) \in Nat /\ i \in Nat \ {0} /\ Keep(n) + i \in DOMAIN n.children
          /\ c = n.children[Keep(n) + i]
      <4>1. /\ Len(n.children) \in Nat /\ DOMAIN n.children = 1..Len(n.children)
            /\ Keep(n) \in 1..(Len(n.children) - 1)
            /\ DOMAIN RightHalf(n).children = 1..(Len(n.children) - Keep(n))
            /\ \A j \in 1..(Len(n.children) - Keep(n)) :
                  RightHalf(n).children[j] = n.children[Keep(n) + j]
        BY <1>1, <1>7, <3>1, HalfChildren
      <4>2. i \in 1..(Len(n.children) - Keep(n)) /\ c = n.children[Keep(n) + i]
        BY <2>2, <4>1
      <4>3. Keep(n) \in Nat /\ i \in Nat \ {0} /\ Keep(n) + i \in 1..Len(n.children)
        BY <4>1, <4>2
      <4> QED
        BY <4>1, <4>2, <4>3
    <3>3. /\ k <= sep => KeyIndex(n, k) <= Keep(n)
          /\ k > sep => KeyIndex(n, k) > Keep(n) /\ KeyIndex(RightHalf(n), k) = KeyIndex(n, k) - Keep(n)
      BY <1>0, <1>1, <1>7, <1>8, <3>1, HalvesIndex
    <3>4. InReach(v, c, k)' <=> InReach(w, c, k)
      BY <1>16, <1>21, <3>2
    <3>5. InReach(w, c, k) <=> k \in w[p] /\ KeyIndex(n, k) = Keep(n) + i
      BY <1>0, <1>8, <3>2 DEF ChildRanges
    <3>6. k \in v[new] <=> k \in w[p] /\ k > sep
      BY <1>12
    <3>7. k <= sep \/ k > sep
      BY <1>10, <1>11
    <3>8. KeyIndex(n, k) \in Int
      <4>1. KeyIndex(n, k) \in 1..(Len(n.keys) + 1)
        BY <1>7, KeyIndexRange
      <4> QED
        BY <4>1
    <3>9. KeyIndex(n, k) = Keep(n) + i => ~(KeyIndex(n, k) <= Keep(n))
      BY <3>2
    <3>10. KeyIndex(n, k) - Keep(n) = i <=> KeyIndex(n, k) = Keep(n) + i
      BY <3>2, <3>8
    <3> QED
      BY <3>3, <3>4, <3>5, <3>6, <3>7, <3>9, <3>10
  <2>3. Sorted(RightHalf(n)) /\ v[new] # {} /\ g[new] <= g[root]
    BY <1>9, <1>18, <1>19
  <2> QED
    BY <1>4, <2>1, <2>2, <2>3 DEF NodeRange, ChildRanges, root
<1>24. Apart(v, g)'
  <2> SUFFICES ASSUME NEW a \in Used', NEW b \in Used', a # b, g[a] = g[b]
               PROVE  v[a] \cap v[b] = {}
    BY DEF Apart
  <2> DEFINE Old(q) == IF q = new THEN p ELSE q
  <2>1. ASSUME NEW q \in Used'
        PROVE  /\ Old(q) \in Used /\ g[q] = h[Old(q)] /\ v[q] \subseteq w[Old(q)]
               /\ q \in {p, new} <=> Old(q) = p
    <3>1. CASE q \in {p, new}
      BY <1>2, <1>3, <1>12, <1>19, <3>1
    <3>2. CASE q \notin {p, new}
      BY <1>2, <1>3, <1>12, <1>19, <3>2
    <3> QED
      BY <3>1, <3>2
  <2>2. CASE Old(a) # Old(b)
    <3>1. w[Old(a)] \cap w[Old(b)] = {}
      BY <2>1, <2>2 DEF Ranges, Apart
    <3> QED
      BY <2>1, <3>1
  <2>3. CASE Old(a) = Old(b)
    <3>1. {a, b} = {p, new}
      BY <2>1, <2>3
    <3>2. v[p] \cap v[new] = {}
      BY <1>7, <1>10, <1>11, <1>12
    <3> QED
      BY <3>1, <3>2
  <2> QED
    BY <2>2, <2>3
<1>25. ASSUME NEW u \in Threads
       PROVE  CallRange(v, u)'
  <2>1. CASE u = t
    <3>1. call[t].key \in w[p] /\ (call[t].par # NoPage => IsChild(call[t].par, p))
      BY <1>0, <1>1 DEF Ranges, CallRange
    <3>2. call[t].key \in v[p] \cup v[new]
      BY <1>2, <1>15, <3>1
    <3>3. ASSUME call[t].par # NoPage
          PROVE  IsChild(call[t].par, p)'
      <4>1. CallLevel(h, t) /\ h[p] \in Nat
        BY <1>2 DEF Levels
      <4>2. call[t].par # p
        BY <1>0, <3>3, <4>1 DEF CallLevel
      <4>3. call[t].par \in PageIDs \ {p, new}
        BY <1>2, <1>3, <3>3, <4>2
      <4>4. nodes'[call[t].par] = nodes[call[t].par]
        BY <1>4, <4>3
      <4>5. PICK r : r = call[t].par
        OBVIOUS
      <4> QED
        BY <1>6, <3>1, <3>3, <4>4 DEF IsChild
    <3> QED
      BY <1>6, <1>12, <1>18, <2>1, <3>2, <3>3 DEF CallRange
  <2>2. CASE u # t
    <3>1. call'[u] = call[u] /\ CallRange(w, u) /\ CallOK(u)
      BY <1>5, <2>2 DEF Ranges, TreeInv
    <3>2. /\ call[u].page # NoPage => v[call[u].page] = w[call[u].page]
          /\ call[u].new # NoPage => v[call[u].new] = w[call[u].new]
          /\ call[u].par # NoPage => nodes'[call[u].par] = nodes[call[u].par]
      BY <1>2, <1>3, <1>4, <1>12, <1>13, <2>2
    <3>3. /\ call[u].pc \in {"find", "insert", "separate"} => call[u].page # NoPage
          /\ call[u].pc = "separate" => call[u].new # NoPage
      BY <1>2, <3>1 DEF CallOK
    <3> QED
      BY <3>1, <3>2, <3>3 DEF CallRange, IsChild
  <2> QED
    BY <2>1, <2>2
<1>26. \A q \in Used' : NodeRange(v, g, q)'
  BY <1>3, <1>20, <1>22, <1>23
<1>27. Ranges(v, g)'
  BY <1>17, <1>24, <1>25, <1>26 DEF Ranges, root
<1> QED
  BY <1>27

\* The halves of a leaf together have its entries.
LEMMA SplitMaps ==
  ASSUME TreeInv, NEW t \in Threads, Split(t),
         NEW h \in [PageIDs -> Nat], NEW w \in [PageIDs -> SUBSET Keys], Levels(h), Ranges(w, h),
         NEW k, NEW v
  PROVE  Maps(k, v)' <=> Maps(k, v)
<1>0. PICK p, n, new : p = call[t].page /\ n = nodes[p] /\ new = size
  OBVIOUS
<1>1. /\ CallOK(t) /\ call[t].pc = "insert" /\ nodes \in [PageIDs -> Node]
      /\ IsFull(n) /\ new \in PageIDs /\ size \in Nat
      /\ nodes' = [nodes EXCEPT ![p] = LeftHalf(n), ![new] = RightHalf(n)]
      /\ size' = size + 1
  BY <1>0, HandUsed DEF TreeInv, TypeOK, Split, At
<1>2. p \in Used /\ p \in PageIDs /\ Used \subseteq PageIDs
  BY <1>0, <1>1, HandUsed DEF CallOK
<1>3. new \notin Used /\ Used' = Used \cup {new} /\ p # new
  BY <1>0, <1>1, <1>2 DEF Used
<1>4. /\ nodes'[p] = LeftHalf(n) /\ nodes'[new] = RightHalf(n)
      /\ \A q \in PageIDs \ {p, new} : nodes'[q] = nodes[q]
  BY <1>1, <1>2, <1>3
<1>5. NodeOK(n) /\ Sorted(n)
  BY <1>0, <1>2 DEF TreeInv, TypeOK, NodeOK, Ranges, NodeRange
<1>6. LeftHalf(n).leaf = n.leaf /\ RightHalf(n).leaf = n.leaf
  BY <1>1, <1>5, HalvesOK
<1>7. n.leaf => (Entry(n, k, v) <=> Entry(LeftHalf(n), k, v) \/ Entry(RightHalf(n), k, v))
  BY <1>1, <1>5, HalvesEntries
<1> DEFINE At0(q) == nodes[q].leaf /\ Entry(nodes[q], k, v)
           At1(q) == nodes'[q].leaf /\ Entry(nodes'[q], k, v)
<1>8. (At1(p) \/ At1(new)) <=> At0(p)
  BY <1>0, <1>4, <1>6, <1>7
<1>9. \A q \in Used \ {p} : At1(q) <=> At0(q)
  BY <1>2, <1>3, <1>4
<1>10. Maps(k, v) <=> \E q \in Used : At0(q)
  BY DEF Maps, Leaves, Used
<1>11. Maps(k, v)' <=> \E q \in Used' : At1(q)
  BY DEF Maps, Leaves, Used, Entry
<1> HIDE DEF At0, At1
<1> QED
  BY <1>2, <1>3, <1>8, <1>9, <1>10, <1>11

\* Where the call goes on after a split.
LEMMA ChooseEffect ==
  ASSUME call \in [Threads -> Call], NEW t \in Threads, NEW p, NEW par, NEW l, NEW changed,
         Choose(t, p, par, l, changed)
  PROVE  /\ \A u \in Threads \ {t} : call'[u] = call[u]
         /\ call'[t].pc = "insert" /\ call'[t].key = call[t].key
         /\ call'[t].par = par /\ call'[t].page = Chosen(t, p)
<1> DEFINE q == Chosen(t, p)
           c == [call[t] EXCEPT !.pc = "insert", !.page = q, !.par = par, !.new = NoPage,
                                !.sep = 0, !.bfDirty = TRUE, !.parDirty = TRUE]
<1>1. call' = [call EXCEPT ![t].pc = "insert", ![t].page = q, ![t].par = par,
                           ![t].new = NoPage, ![t].sep = 0,
                           ![t].bfDirty = TRUE, ![t].parDirty = TRUE]
  BY DEF Choose
<1> HIDE DEF q
<1>2. call' = [call EXCEPT ![t] = c]
  BY <1>1
<1>3. c.pc = "insert" /\ c.key = call[t].key /\ c.par = par /\ c.page = q
  <2>1. call[t] \in Call
    OBVIOUS
  <2> QED
    BY <2>1 DEF Call
<1> HIDE DEF c
<1> QED
  BY <1>2, <1>3 DEF q

(***************************************************************************)
(* The upper half gets its place in the parent, next to the node that was  *)
(* split: what was in reach through that node stays in reach through both. *)
(***************************************************************************)
LEMMA LinkRanges ==
  ASSUME TreeInv, NEW t \in Threads, Link(t)
  PROVE  RangesKept
<1> SUFFICES ASSUME NEW h \in [PageIDs -> Nat], NEW w \in [PageIDs -> SUBSET Keys],
                    Levels(h), Ranges(w, h)
             PROVE  Ranges(w, h)'
  BY DEF RangesKept
<1>0. PICK p, par, new, sep, n, m :
        /\ p = call[t].page /\ par = call[t].par /\ new = call[t].new /\ sep = call[t].sep
        /\ n = nodes[par] /\ m = InnerInsert(n, sep, new)
  OBVIOUS
<1>1. /\ call \in [Threads -> Call] /\ CallOK(t) /\ RoomOK(t) /\ call[t] \in Call
      /\ call[t].pc = "separate" /\ par # NoPage
      /\ nodes \in [PageIDs -> Node] /\ nodes' = [nodes EXCEPT ![par] = m]
      /\ size' = size
  BY <1>0 DEF TreeInv, TypeOK, Link, Choose, At
<1>2. /\ p \in Used /\ p \in PageIDs /\ Used \subseteq PageIDs /\ call[t].op = "insert"
      /\ new \in Used \ {root, p} /\ par \in Used /\ call[t].key \in Keys /\ sep \in Keys
      /\ NoPage \notin Used /\ Used' = Used
  BY <1>0, <1>1, HandUsed DEF CallOK, Used, NoPage
<1>3. NodeOK(n) /\ ~n.leaf
  BY <1>0, <1>1, <1>2 DEF TreeInv, TypeOK, NodeOK, RoomOK
<1>4. h[par] = h[p] + 1 /\ h[new] = h[p] /\ h[p] \in Nat /\ par # p /\ par # new
  BY <1>0, <1>1, <1>2 DEF Levels, CallLevel
<1>5. /\ \A u \in Threads \ {t} : call'[u] = call[u]
      /\ call'[t].pc = "insert" /\ call'[t].key = call[t].key
      /\ call'[t].par = par /\ call'[t].page = IF call[t].key <= sep THEN p ELSE new
  <2>1. Choose(t, p, par, lock, {par})
    BY <1>0 DEF Link
  <2>2. /\ \A u \in Threads \ {t} : call'[u] = call[u]
        /\ call'[t].pc = "insert" /\ call'[t].key = call[t].key
        /\ call'[t].par = par /\ call'[t].page = Chosen(t, p)
    BY <1>1, <2>1, ChooseEffect
  <2> QED
    BY <1>0, <2>2 DEF Chosen
<1>6. nodes'[par] = m /\ \A q \in PageIDs \ {par} : nodes'[q] = nodes[q]
  BY <1>1, <1>2
<1>7. /\ sep \in w[p] /\ (\A k \in w[p] : k <= sep) /\ (\A k \in w[new] : k > sep)
      /\ call[t].key \in w[p] \cup w[new] /\ IsChild(par, p)
  BY <1>0, <1>1 DEF Ranges, CallRange
<1>8. Sorted(n) /\ ToSet(n.keys) \subseteq w[par] /\ ChildRanges(w, par)
  BY <1>0, <1>2 DEF Ranges, NodeRange
<1>9. \A x \in Keys : x \in Int
  BY BTreeAssumption
<1>10. w[p] \subseteq Keys /\ w[new] \subseteq Keys /\ w[par] \subseteq Keys
  BY <1>2
<1>11. PICK i \in DOMAIN n.children : n.children[i] = p
  BY <1>0, <1>7 DEF IsChild
<1>12. \A j \in DOMAIN n.children, k \in Keys :
          InReach(w, n.children[j], k) <=> k \in w[par] /\ KeyIndex(n, k) = j
  BY <1>0, <1>8 DEF ChildRanges
<1>13. \A u \in Threads \ {t} : /\ call[u].page # p /\ call[u].page # new /\ call[u].par # par
                                /\ call[u].par # NoPage => call[u].par \in Used
  <2>1. p \in InHand(t) /\ new \in InHand(t) /\ par \in InHand(t) /\ call[t].op # "lookup"
    BY <1>0, <1>1, <1>2 DEF InHand
  <2> QED
    BY <2>1, OthersHands
<1>14. /\ Splitting(p) = {t} /\ Splitting(p)' = {}
       /\ Splitting(new) = {}
  <2>1. Splitting(p) = {u \in Threads : call[u].pc = "separate" /\ call[u].page = p}
    BY DEF Splitting, At
  <2>2. Splitting(p)' = {u \in Threads : call'[u].pc = "separate" /\ call'[u].page = p}
    BY DEF Splitting, At
  <2>3. Splitting(new) = {}
    <3>1. call[t].page # new
      BY <1>0, <1>2
    <3> QED
      BY <1>13, <3>1 DEF Splitting
  <2> QED
    BY <1>0, <1>1, <1>5, <1>13, <2>1, <2>2, <2>3
<1>15. \A k \in Keys : InReach(w, p, k) <=> k \in w[p] \/ k \in w[new]
  BY <1>0, <1>14 DEF InReach
<1>16. \A k \in Keys : InReach(w, p, k)' <=> k \in w[p]
  BY <1>14 DEF InReach
<1>17. ASSUME NEW c, c # p, NEW k
       PROVE  InReach(w, c, k)' <=> InReach(w, c, k)
  <2>1. ~(At(t, "separate") /\ call[t].page = c) /\ ~(At(t, "separate")' /\ call'[t].page = c)
    BY <1>0, <1>5, <1>17 DEF At
  <2> QED
    BY <1>5, <2>1, ReachStays
<1>18. \A k \in Keys : InReach(w, new, k)' <=> k \in w[new]
  <2>1. new # p /\ \A k \in Keys : InReach(w, new, k) <=> k \in w[new]
    BY <1>2, <1>14, ReachAlone
  <2> QED
    BY <1>17, <2>1
<1>19. sep \in w[par] /\ KeyIndex(n, sep) = i /\ \A j \in DOMAIN n.children : n.children[j] = p => j = i
  BY <1>2, <1>7, <1>11, <1>12, <1>15
<1>20. p # root
  <2>1. NodeLevel(h, par)
    BY <1>2 DEF Levels
  <2> QED
    BY <1>0, <1>11, <2>1 DEF NodeLevel
<1>21. ~Has(n, sep)
  <2> SUFFICES ASSUME Has(n, sep) PROVE FALSE
    OBVIOUS
  <2>1. NodeRange(w, h, new)
    BY <1>2 DEF Ranges
  <2>2. PICK k : k \in w[new]
    BY <1>2, <2>1 DEF NodeRange
  <2>3. k \in Keys /\ k > sep /\ KeyIndex(n, k) = i
    BY <1>7, <1>10, <1>11, <1>12, <1>15, <2>2
  <2>4. i \in 1..(Len(n.keys) + 1) /\ \A j \in 1..Len(n.keys) : n.keys[j] < k <=> j < i
    BY <1>3, <1>8, <2>3, KeyIndexSplits
  <2>5. i <= Len(n.keys) /\ n.keys[i] = sep
    BY <1>19 DEF Has
  <2>6. i \in 1..Len(n.keys) /\ i \in Int
    BY <1>3, <2>4, <2>5, NodeKeys
  <2>7. ~(n.keys[i] < k)
    BY <2>4, <2>6
  <2> QED
    BY <1>2, <1>9, <2>3, <2>5, <2>7
<1>22. /\ Sorted(m)
       /\ \A j \in DOMAIN m.keys : m.keys[j] = sep \/ \E l \in DOMAIN n.keys : m.keys[j] = n.keys[l]
       /\ \A x \in Keys : KeyIndex(m, x) = IF x <= sep THEN KeyIndex(n, x) ELSE KeyIndex(n, x) + 1
       /\ \A x \in Keys : x <= sep => KeyIndex(n, x) <= i
       /\ \A x \in Keys : x > sep => KeyIndex(n, x) >= i
       /\ i \in 1..Len(n.children) /\ Len(n.children) \in Nat
       /\ DOMAIN n.children = 1..Len(n.children) /\ DOMAIN m.children = 1..(Len(n.children) + 1)
       /\ \A j \in 1..(Len(n.children) + 1) :
             m.children[j] = IF j <= i THEN n.children[j]
                             ELSE IF j = i + 1 THEN new ELSE n.children[j - 1]
  <2>1. NodeOK(n) /\ ~n.leaf /\ Sorted(n) /\ sep \in Keys /\ ~Has(n, sep) /\ new \in PageIDs
    BY <1>2, <1>3, <1>8, <1>21
  <2>2. m = InnerInsert(n, sep, new) /\ i = KeyIndex(n, sep)
    BY <1>0, <1>19
  <2>3. PICK k \in Keys, c \in PageIDs : k = sep /\ c = new
    BY <2>1
  <2>4. NodeOK(n) /\ ~n.leaf /\ Sorted(n) /\ ~Has(n, k)
    BY <2>1, <2>3
  <2>5. m = InnerInsert(n, k, c) /\ i = KeyIndex(n, k)
    BY <2>2, <2>3
  <2>6. /\ Sorted(m)
        /\ \A j \in DOMAIN m.keys : m.keys[j] = k \/ \E l \in DOMAIN n.keys : m.keys[j] = n.keys[l]
        /\ \A x \in Keys : KeyIndex(m, x) = IF x <= k THEN KeyIndex(n, x) ELSE KeyIndex(n, x) + 1
        /\ \A x \in Keys : x <= k => KeyIndex(n, x) <= i
        /\ \A x \in Keys : x > k => KeyIndex(n, x) >= i
        /\ i \in 1..Len(n.children) /\ Len(n.children) \in Nat
        /\ DOMAIN n.children = 1..Len(n.children) /\ DOMAIN m.children = 1..(Len(n.children) + 1)
        /\ \A j \in 1..(Len(n.children) + 1) :
              m.children[j] = IF j <= i THEN n.children[j]
                              ELSE IF j = i + 1 THEN c ELSE n.children[j - 1]
    <3>1. LET r == InnerInsert(n, k, c)
              e == KeyIndex(n, k) IN
          /\ Sorted(r)
          /\ \A j \in DOMAIN r.keys : r.keys[j] = k \/ \E l \in DOMAIN n.keys : r.keys[j] = n.keys[l]
          /\ \A x \in Keys : KeyIndex(r, x) = IF x <= k THEN KeyIndex(n, x) ELSE KeyIndex(n, x) + 1
          /\ \A x \in Keys : x <= k => KeyIndex(n, x) <= e
          /\ \A x \in Keys : x > k => KeyIndex(n, x) >= e
          /\ e \in 1..Len(n.children) /\ Len(n.children) \in Nat
          /\ DOMAIN n.children = 1..Len(n.children) /\ DOMAIN r.children = 1..(Len(n.children) + 1)
          /\ \A j \in 1..(Len(n.children) + 1) :
                r.children[j] = IF j <= e THEN n.children[j] ELSE IF j = e + 1 THEN c ELSE n.children[j - 1]
      BY ONLY <2>4, k \in Keys, c \in PageIDs, InnerInsertIndex
    <3> QED
      BY ONLY <2>5, <3>1
  <2> QED
    BY <2>3, <2>6
<1>23. \A k \in Keys : InReach(w, root, k)'
  BY <1>17, <1>20 DEF Ranges, root
<1>24. ASSUME NEW j \in DOMAIN m.children, NEW k \in Keys, NEW c, c = m.children[j]
       PROVE  InReach(w, c, k)' <=> k \in w[par] /\ KeyIndex(m, k) = j
  <2>0. PICK e : e = KeyIndex(n, k)
    OBVIOUS
  <2>1. /\ j \in 1..(Len(n.children) + 1) /\ e \in Int /\ (k <= sep \/ k > sep) /\ i \in Int
        /\ ~(k <= sep /\ k > sep)
    <3>1. e \in 1..(Len(n.keys) + 1)
      BY <1>3, <2>0, KeyIndexRange
    <3> QED
      BY <1>2, <1>9, <1>22, <3>1
  <2>2. /\ k <= sep => KeyIndex(m, k) = e /\ e <= i
        /\ k > sep => KeyIndex(m, k) = e + 1 /\ e >= i
    BY <1>22, <2>0, <2>1
  <2>3. CASE j < i
    <3>1. c = n.children[j] /\ j \in DOMAIN n.children
      BY <1>22, <1>24, <2>1, <2>3
    <3>2. c # p
      BY <1>19, <2>1, <2>3, <3>1
    <3>3. InReach(w, c, k)' <=> k \in w[par] /\ e = j
      BY <1>12, <1>17, <2>0, <3>1, <3>2
    <3>4. KeyIndex(m, k) = j <=> e = j
      BY <2>1, <2>2, <2>3
    <3> QED
      BY <3>3, <3>4
  <2>4. CASE j = i
    <3>1. c = p
      BY <1>11, <1>22, <1>24, <2>1, <2>4
    <3>2. InReach(w, c, k)' <=> k \in w[p]
      BY <1>16, <3>1
    <3>3. k \in w[p] <=> InReach(w, p, k) /\ k <= sep
      BY <1>7, <1>15, <2>1
    <3>4. InReach(w, p, k) <=> k \in w[par] /\ e = i
      BY <1>11, <1>12, <2>0
    <3>5. KeyIndex(m, k) = j <=> e = i /\ k <= sep
      BY <2>1, <2>2, <2>4
    <3> QED
      BY <3>2, <3>3, <3>4, <3>5
  <2>5. CASE j = i + 1
    <3>1. c = new
      BY <1>22, <1>24, <2>1, <2>5
    <3>2. InReach(w, c, k)' <=> k \in w[new]
      BY <1>18, <3>1
    <3>3. k \in w[new] <=> InReach(w, p, k) /\ k > sep
      BY <1>7, <1>15, <2>1
    <3>4. InReach(w, p, k) <=> k \in w[par] /\ e = i
      BY <1>11, <1>12, <2>0
    <3>5. KeyIndex(m, k) = j <=> e = i /\ k > sep
      BY <2>1, <2>2, <2>5
    <3> QED
      BY <3>2, <3>3, <3>4, <3>5
  <2>6. CASE j > i + 1
    <3>0. ~(j <= i) /\ j # i + 1 /\ j - 1 \in 1..Len(n.children)
      BY <1>22, <2>1, <2>6
    <3>1. c = n.children[j - 1] /\ j - 1 \in DOMAIN n.children
      <4>1. m.children[j] = IF j <= i THEN n.children[j]
                            ELSE IF j = i + 1 THEN new ELSE n.children[j - 1]
        BY <1>22, <2>1
      <4> QED
        BY <1>22, <1>24, <3>0, <4>1
    <3>2. c # p
      BY <1>19, <2>1, <2>6, <3>1
    <3>3. InReach(w, c, k)' <=> k \in w[par] /\ e = j - 1
      BY <1>12, <1>17, <2>0, <3>1, <3>2
    <3>4. KeyIndex(m, k) = j <=> e = j - 1
      BY <2>1, <2>2, <2>6
    <3> QED
      BY <3>3, <3>4
  <2> QED
    BY <2>1, <2>3, <2>4, <2>5, <2>6
<1>25. \A q \in Used : h[q] <= h[root]
  BY DEF Ranges, NodeRange
<1>26. NodeRange(w, h, par)'
  <2>1. ToSet(m.keys) \subseteq w[par]
    BY <1>8, <1>19, <1>22 DEF ToSet
  <2>2. par # root => w[par] # {}
    BY <1>19
  <2> QED
    BY <1>2, <1>6, <1>22, <1>24, <1>25, <2>1, <2>2 DEF NodeRange, ChildRanges, root
<1>27. ASSUME NEW q \in Used \ {par}
       PROVE  NodeRange(w, h, q)'
  <2>1. NodeRange(w, h, q) /\ NodeLevel(h, q) /\ nodes'[q] = nodes[q]
    BY <1>2, <1>6 DEF Ranges, Levels
  <2>2. ASSUME NEW j \in DOMAIN nodes[q].children, NEW k \in Keys
        PROVE  InReach(w, nodes[q].children[j], k)' <=> k \in w[q] /\ KeyIndex(nodes'[q], k) = j
    <3>1. PICK c : c = nodes[q].children[j]
      OBVIOUS
    <3>2. \A x \in Keys : InReach(w, c, x) <=> x \in w[q] /\ KeyIndex(nodes[q], x) = j
      BY <2>1, <3>1 DEF NodeRange, ChildRanges
    <3>3. ASSUME c = p PROVE FALSE
      <4>1. h[q] = h[p] + 1
        BY <2>1, <3>1, <3>3 DEF NodeLevel
      <4>2. w[q] \cap w[par] = {}
        BY <1>2, <1>4, <4>1 DEF Ranges, Apart
      <4>3. sep \in w[q]
        BY <1>2, <1>7, <1>15, <3>2, <3>3
      <4> QED
        BY <1>19, <4>2, <4>3
    <3>4. InReach(w, c, k)' <=> InReach(w, c, k)
      BY <1>17, <3>3
    <3> QED
      BY <2>1, <3>1, <3>2, <3>4
  <2> QED
    BY <2>1, <2>2 DEF NodeRange, ChildRanges, root
<1>28. Apart(w, h)'
  BY <1>2 DEF Ranges, Apart
<1>29. ASSUME NEW u \in Threads
       PROVE  CallRange(w, u)'
  <2>1. CASE u = t
    <3>1. call[t].key \in w[call'[t].page]
      <4>1. CASE call[t].key <= sep
        BY <1>2, <1>5, <1>7, <1>9, <4>1
      <4>2. CASE ~(call[t].key <= sep)
        BY <1>2, <1>5, <1>7, <1>9, <4>2
      <4> QED
        BY <4>1, <4>2
    <3>2. \E j \in DOMAIN m.children : m.children[j] = call'[t].page
      <4>1. i \in DOMAIN m.children /\ m.children[i] = p
        BY <1>11, <1>22
      <4>2. i + 1 \in DOMAIN m.children /\ m.children[i + 1] = new
        BY <1>22
      <4> QED
        BY <1>5, <4>1, <4>2
    <3> QED
      BY <1>5, <1>6, <2>1, <3>1, <3>2 DEF CallRange, IsChild
  <2>2. CASE u # t
    <3>1. call'[u] = call[u] /\ CallRange(w, u)
      BY <1>5, <2>2 DEF Ranges
    <3>2. call[u].par # NoPage => nodes'[call[u].par] = nodes[call[u].par]
      BY <1>2, <1>6, <1>13, <2>2
    <3> QED
      BY <3>1, <3>2 DEF CallRange, IsChild
  <2> QED
    BY <2>1, <2>2
<1> QED
  BY <1>2, <1>23, <1>26, <1>27, <1>28, <1>29 DEF Ranges, root

(***************************************************************************)
(* The root has been split: its lower half moves to a new page, and all    *)
(* keys are in the range of the new root.                                  *)
(***************************************************************************)
LEMMA GrowRanges ==
  ASSUME TreeInv, NEW t \in Threads, Grow(t),
         NEW h \in [PageIDs -> Nat], NEW w \in [PageIDs -> SUBSET Keys], Levels(h), Ranges(w, h),
         NEW g \in [PageIDs -> Nat], g[size] = h[root], g[root] = h[root] + 1,
         \A q \in Used \ {root} : g[q] = h[q]
  PROVE  \E v \in [PageIDs -> SUBSET Keys] : Ranges(v, g)'
<1>0. PICK p, n, s, new, sep, m :
        /\ p = root /\ n = nodes[p] /\ s = size /\ new = call[t].new /\ sep = call[t].sep
        /\ m = Inner(<<sep>>, <<s, new>>)
  OBVIOUS
<1>1. /\ call \in [Threads -> Call] /\ CallOK(t) /\ call[t] \in Call
      /\ call[t].pc = "separate" /\ call[t].par = NoPage /\ call[t].page = p
      /\ nodes \in [PageIDs -> Node] /\ s \in PageIDs /\ s \in Nat
      /\ nodes' = [nodes EXCEPT ![p] = m, ![s] = n]
      /\ size' = size + 1
  <2>1. call[t].page = root /\ size \in Nat
    BY HandUsed DEF Grow, TreeInv, CallOK, At
  <2> QED
    BY <1>0, <2>1 DEF TreeInv, TypeOK, Grow, At
<1>2. /\ p \in Used /\ p \in PageIDs /\ Used \subseteq PageIDs /\ call[t].op = "insert"
      /\ new \in Used \ {p} /\ call[t].key \in Keys /\ sep \in Keys
      /\ NoPage \notin Used
  BY <1>0, <1>1, HandUsed DEF CallOK, Used, NoPage
<1>3. /\ s \notin Used /\ s # p /\ s # new /\ Used' = Used \cup {s} /\ s # NoPage /\ p # NoPage
  BY <1>0, <1>1, <1>2 DEF Used, NoPage
<1>4. /\ nodes'[p] = m /\ nodes'[s] = n
      /\ \A q \in PageIDs \ {p, s} : nodes'[q] = nodes[q]
  BY <1>1, <1>2, <1>3
<1>5. /\ \A u \in Threads \ {t} : call'[u] = call[u]
      /\ call'[t].pc = "insert" /\ call'[t].key = call[t].key
      /\ call'[t].par = p /\ call'[t].page = IF call[t].key <= sep THEN s ELSE new
  <2>1. Choose(t, s, p, [lock EXCEPT ![s] = WrLocked(@, t)], {p, s})
    BY <1>0, <1>1 DEF Grow
  <2>2. /\ \A u \in Threads \ {t} : call'[u] = call[u]
        /\ call'[t].pc = "insert" /\ call'[t].key = call[t].key
        /\ call'[t].par = p /\ call'[t].page = Chosen(t, s)
    BY <1>1, <2>1, ChooseEffect
  <2> QED
    BY <1>0, <2>2 DEF Chosen
<1>6. NodeOK(n) /\ NodeLevel(h, p) /\ NodeRange(w, h, p) /\ w[p] \subseteq Keys /\ w[new] \subseteq Keys
  BY <1>0, <1>2 DEF TreeInv, TypeOK, NodeOK, Levels, Ranges
<1>7. /\ sep \in w[p] /\ (\A k \in w[p] : k <= sep) /\ (\A k \in w[new] : k > sep)
      /\ call[t].key \in w[p] \cup w[new]
  BY <1>0, <1>1 DEF Ranges, CallRange
<1>8. Sorted(n) /\ ToSet(n.keys) \subseteq w[p] /\ ChildRanges(w, p)
  BY <1>0, <1>6 DEF NodeRange
<1>9. \A x \in Keys : x \in Int
  BY BTreeAssumption
<1>10. h[new] = h[p] /\ h[p] \in Nat /\ h[p] = h[root]
  BY <1>0, <1>1, <1>2 DEF Levels, CallLevel
<1>11. PICK v \in [PageIDs -> SUBSET Keys] :
         v[p] = Keys /\ v[s] = w[p] /\ \A q \in PageIDs \ {p, s} : v[q] = w[q]
  <2> DEFINE v == [q \in PageIDs |-> IF q = p THEN Keys ELSE IF q = s THEN w[p] ELSE w[q]]
  <2>1. v \in [PageIDs -> SUBSET Keys]
    BY <1>6
  <2>2. v[p] = Keys /\ v[s] = w[p] /\ \A q \in PageIDs \ {p, s} : v[q] = w[q]
    BY <1>1, <1>2, <1>3
  <2> HIDE DEF v
  <2> QED
    BY <2>1, <2>2
<1>12. \A u \in Threads \ {t} : /\ call[u].page \notin {p, new} /\ call[u].par # p /\ call[u].new # p
                                /\ call[u].par # NoPage => call[u].par \in Used
                                /\ call[u].new # NoPage => call[u].new \in Used
                                /\ call[u].page # NoPage => call[u].page \in Used
  <2>1. p \in InHand(t) /\ new \in InHand(t) /\ call[t].op # "lookup"
    BY <1>0, <1>1, <1>2, <1>3 DEF InHand
  <2> QED
    BY <2>1, OthersHands
<1>13. /\ Splitting(p) = {t} /\ Splitting(p)' = {} /\ Splitting(new) = {}
       /\ Splitting(s) = {} /\ Splitting(s)' = {}
  <2>1. \A q : /\ Splitting(q) = {u \in Threads : call[u].pc = "separate" /\ call[u].page = q}
               /\ Splitting(q)' = {u \in Threads : call'[u].pc = "separate" /\ call'[u].page = q}
    BY DEF Splitting, At
  <2>2. \A u \in Threads \ {t} : call[u].page # s
    BY <1>3, <1>12
  <2> QED
    BY <1>1, <1>2, <1>3, <1>5, <1>12, <2>1, <2>2
<1>14. \A k \in Keys : k \in w[p] \/ k \in w[new]
  <2>1. \A k \in Keys : InReach(w, p, k)
    BY <1>0 DEF Ranges
  <2> QED
    BY <1>0, <1>13, <2>1 DEF InReach
<1>15. ASSUME NEW c \in Used \ {p}, NEW k
       PROVE  InReach(v, c, k)' <=> InReach(w, c, k)
  <2>1. v[c] = w[c]
    BY <1>2, <1>3, <1>11
  <2>2. \A u \in Splitting(c) : v[call[u].new] = w[call[u].new]
    <3> SUFFICES ASSUME NEW u \in Splitting(c)
                 PROVE  call[u].new \in PageIDs \ {p, s}
      BY <1>11
    <3>1. u \in Threads \ {t} /\ call[u].pc = "separate"
      BY <1>1, <1>15 DEF Splitting, At
    <3>2. call[u].new \in Used
      BY <3>1 DEF TreeInv, CallOK
    <3> QED
      BY <1>2, <1>3, <1>12, <3>1, <3>2
  <2>3. ~(At(t, "separate") /\ call[t].page = c) /\ ~(At(t, "separate")' /\ call'[t].page = c)
    BY <1>1, <1>5, <1>15 DEF At
  <2> QED
    BY <1>5, <2>1, <2>2, <2>3, ReachStays
<1>16. /\ \A k \in Keys : InReach(v, root, k)'
       /\ \A k \in Keys : InReach(v, s, k)' <=> k \in w[p]
       /\ \A k \in Keys : InReach(v, new, k)' <=> k \in w[new]
  <2>1. \A k \in Keys : InReach(v, p, k)'
    BY <1>11 DEF InReach
  <2>2. \A k \in Keys : InReach(v, s, k)' <=> k \in w[p]
    BY <1>11, <1>13 DEF InReach
  <2>3. \A k \in Keys : InReach(w, new, k) <=> k \in w[new]
    BY <1>13 DEF InReach
  <2> QED
    BY <1>0, <1>2, <1>15, <2>1, <2>2, <2>3 DEF root
<1>17. /\ NodeOK(m) /\ Len(m.keys) = 1 /\ m.keys[1] = sep /\ DOMAIN m.keys = {1}
       /\ DOMAIN m.children = {1, 2} /\ m.children[1] = s /\ m.children[2] = new
  BY <1>0, <1>1, <1>2 DEF NodeOK, Node, Inner
<1>18. \A k \in Keys : KeyIndex(m, k) = IF k <= sep THEN 1 ELSE 2
  <2> SUFFICES ASSUME NEW k \in Keys PROVE KeyIndex(m, k) = IF k <= sep THEN 1 ELSE 2
    OBVIOUS
  <2>1. CASE k <= sep
    <3>1. 1 \in 1..(Len(m.keys) + 1) /\ \A j \in 1..Len(m.keys) : m.keys[j] < k <=> j < 1
      BY <1>2, <1>9, <1>17, <2>1
    <3>2. KeyIndex(m, k) = 1
      BY <1>17, <3>1, KeyIndexIs
    <3> QED
      BY <2>1, <3>2
  <2>2. CASE ~(k <= sep)
    <3>1. 2 \in 1..(Len(m.keys) + 1) /\ \A j \in 1..Len(m.keys) : m.keys[j] < k <=> j < 2
      BY <1>2, <1>9, <1>17, <2>2
    <3>2. KeyIndex(m, k) = 2
      BY <1>17, <3>1, KeyIndexIs
    <3> QED
      BY <2>2, <3>2
  <2> QED
    BY <2>1, <2>2
<1>19. /\ g[s] = h[p] /\ g[p] = h[p] + 1 /\ \A q \in Used \ {p} : g[q] = h[q] /\ h[q] <= h[p]
       /\ \A q \in Used' : g[q] <= g[p] /\ (q # p => g[q] # g[p])
  <2>1. g[s] = h[p] /\ g[p] = h[p] + 1
    BY <1>0
  <2>2. ASSUME NEW q \in Used \ {p} PROVE g[q] = h[q] /\ h[q] <= h[p] /\ h[q] \in Nat
    <3>1. NodeRange(w, h, q)
      BY DEF Ranges
    <3> QED
      BY <1>0, <1>2, <3>1 DEF NodeRange
  <2> QED
    BY <1>3, <1>10, <2>1, <2>2
<1>20. NodeRange(v, g, p)'
  <2>1. Sorted(m) /\ ToSet(m.keys) \subseteq v[p]
    BY <1>2, <1>11, <1>17 DEF Sorted, ToSet
  <2>2. ASSUME NEW i \in DOMAIN m.children, NEW k \in Keys, NEW c, c = m.children[i]
        PROVE  InReach(v, c, k)' <=> k \in v[p] /\ KeyIndex(m, k) = i
    <3>1. k \in v[p] /\ (k \in w[p] <=> k <= sep) /\ (k \in w[new] <=> ~(k <= sep))
      BY <1>2, <1>7, <1>9, <1>11, <1>14
    <3>2. CASE i = 1
      BY <1>16, <1>17, <1>18, <2>2, <3>1, <3>2
    <3>3. CASE i = 2
      BY <1>16, <1>17, <1>18, <2>2, <3>1, <3>3
    <3> QED
      BY <1>17, <3>2, <3>3
  <2>3. g[p] <= g[root] /\ p = root
    BY <1>0, <1>2, <1>19
  <2> QED
    BY <1>4, <2>1, <2>2, <2>3 DEF NodeRange, ChildRanges, root
<1>21. NodeRange(v, g, s)'
  <2>1. ToSet(n.keys) \subseteq v[s] /\ v[s] # {} /\ g[s] <= g[root]
    BY <1>0, <1>3, <1>7, <1>8, <1>11, <1>19
  <2>2. ASSUME NEW i \in DOMAIN n.children, NEW k \in Keys, NEW c, c = n.children[i]
        PROVE  InReach(v, c, k)' <=> k \in v[s] /\ KeyIndex(n, k) = i
    <3>1. c \in Used \ {p}
      BY <1>0, <1>6, <2>2 DEF NodeLevel
    <3>2. InReach(w, c, k) <=> k \in w[p] /\ KeyIndex(n, k) = i
      BY <1>0, <1>8, <2>2 DEF ChildRanges
    <3> QED
      BY <1>11, <1>15, <3>1, <3>2
  <2> QED
    BY <1>4, <1>8, <2>1, <2>2 DEF NodeRange, ChildRanges, root
<1>22. ASSUME NEW q \in Used \ {p}
       PROVE  NodeRange(v, g, q)'
  <2>1. NodeRange(w, h, q) /\ NodeLevel(h, q)
    BY DEF Ranges, Levels
  <2>2. nodes'[q] = nodes[q] /\ v[q] = w[q] /\ g[q] <= g[root]
    BY <1>0, <1>2, <1>3, <1>4, <1>11, <1>19
  <2>3. ASSUME NEW i \in DOMAIN nodes[q].children, NEW k \in Keys
        PROVE  InReach(v, nodes[q].children[i], k)' <=> k \in v[q] /\ KeyIndex(nodes'[q], k) = i
    <3>1. PICK c : c = nodes[q].children[i]
      OBVIOUS
    <3>2. c \in Used \ {p}
      BY <1>0, <2>1, <3>1 DEF NodeLevel
    <3>3. InReach(w, c, k) <=> k \in w[q] /\ KeyIndex(nodes[q], k) = i
      BY <2>1, <3>1 DEF NodeRange, ChildRanges
    <3>4. InReach(v, c, k)' <=> InReach(w, c, k)
      BY <1>15, <3>2
    <3> QED
      BY <2>2, <3>1, <3>3, <3>4
  <2> QED
    BY <2>1, <2>2, <2>3 DEF NodeRange, ChildRanges, root
<1>23. Apart(v, g)'
  <2> SUFFICES ASSUME NEW a \in Used', NEW b \in Used', a # b, g[a] = g[b]
               PROVE  v[a] \cap v[b] = {}
    BY DEF Apart
  <2>1. PICK x \in Used, y \in Used :
          /\ x = (IF a = s THEN p ELSE a) /\ y = (IF b = s THEN p ELSE b)
    BY <1>2, <1>3
  <2>2. a # p /\ b # p
    BY <1>19
  <2>3. x # y /\ h[x] = h[y] /\ v[a] = w[x] /\ v[b] = w[y]
    BY <1>2, <1>3, <1>11, <1>19, <2>1, <2>2
  <2> QED
    BY <2>3 DEF Ranges, Apart
<1>24. ASSUME NEW u \in Threads
       PROVE  CallRange(v, u)'
  <2>1. CASE u = t
    <3>1. call[t].key \in v[call'[t].page]
      <4>1. call[t].key \in w[p] <=> call[t].key <= sep
        BY <1>2, <1>7, <1>9
      <4>2. v[new] = w[new]
        BY <1>2, <1>3, <1>11
      <4> QED
        BY <1>5, <1>7, <1>11, <4>1, <4>2
    <3>2. \E j \in DOMAIN m.children : m.children[j] = call'[t].page
      BY <1>5, <1>17
    <3> QED
      BY <1>4, <1>5, <2>1, <3>1, <3>2 DEF CallRange, IsChild
  <2>2. CASE u # t
    <3>1. call'[u] = call[u] /\ CallRange(w, u) /\ CallOK(u)
      BY <1>5, <2>2 DEF Ranges, TreeInv
    <3>2. /\ call[u].page # NoPage => v[call[u].page] = w[call[u].page]
          /\ call[u].new # NoPage => v[call[u].new] = w[call[u].new]
          /\ call[u].par # NoPage => nodes'[call[u].par] = nodes[call[u].par]
      BY <1>2, <1>3, <1>4, <1>11, <1>12, <2>2
    <3>3. /\ call[u].pc \in {"find", "insert", "separate"} => call[u].page # NoPage
          /\ call[u].pc = "separate" => call[u].new # NoPage
      BY <1>2, <3>1 DEF CallOK
    <3> QED
      BY <3>1, <3>2, <3>3 DEF CallRange, IsChild
  <2> QED
    BY <2>1, <2>2
<1>25. \A q \in Used' : NodeRange(v, g, q)'
  BY <1>3, <1>20, <1>21, <1>22
<1>26. Ranges(v, g)'
  BY <1>16, <1>23, <1>24, <1>25 DEF Ranges, root
<1> QED
  BY <1>26

\* Inner nodes map no keys.
LEMMA LinkMaps ==
  ASSUME TreeInv, NEW t \in Threads, Link(t), NEW k, NEW v
  PROVE  Maps(k, v)' <=> Maps(k, v)
<1>0. PICK par, n, m : /\ par = call[t].par /\ n = nodes[par]
                       /\ m = InnerInsert(n, call[t].sep, call[t].new)
  OBVIOUS
<1>1. /\ CallOK(t) /\ RoomOK(t) /\ call[t].pc = "separate" /\ par # NoPage
      /\ nodes \in [PageIDs -> Node] /\ nodes' = [nodes EXCEPT ![par] = m] /\ size' = size
  BY <1>0 DEF TreeInv, TypeOK, Link, At
<1>2. /\ par \in Used /\ Used \subseteq PageIDs /\ call[t].sep \in Keys /\ call[t].new \in PageIDs
  BY <1>0, <1>1, HandUsed DEF CallOK
<1>3. NodeOK(n) /\ ~n.leaf
  BY <1>0, <1>1, <1>2 DEF TreeInv, TypeOK, NodeOK, RoomOK
<1>4. ~m.leaf
  BY <1>0, <1>2, <1>3, InnerInsertOK
<1> DEFINE At0(q) == nodes[q].leaf /\ Entry(nodes[q], k, v)
           At1(q) == nodes'[q].leaf /\ Entry(nodes'[q], k, v)
<1>5. Used' = Used /\ \A q \in Used : At1(q) <=> At0(q)
  BY <1>0, <1>1, <1>2, <1>3, <1>4 DEF Used
<1>6. Maps(k, v) <=> \E q \in Used : At0(q)
  BY DEF Maps, Leaves, Used
<1>7. Maps(k, v)' <=> \E q \in Used' : At1(q)
  BY DEF Maps, Leaves, Used, Entry
<1> HIDE DEF At0, At1
<1> QED
  BY <1>5, <1>6, <1>7

\* What the root maps keys to moves with its lower half.
LEMMA GrowMaps ==
  ASSUME TreeInv, NEW t \in Threads, Grow(t), NEW k, NEW v
  PROVE  Maps(k, v)' <=> Maps(k, v)
<1>0. PICK p, n, s, m : /\ p = call[t].page /\ n = nodes[p] /\ s = size
                        /\ m = Inner(<<call[t].sep>>, <<s, call[t].new>>)
  OBVIOUS
<1>1. /\ CallOK(t) /\ call[t].pc = "separate" /\ nodes \in [PageIDs -> Node]
      /\ s \in PageIDs /\ size \in Nat
      /\ nodes' = [nodes EXCEPT ![p] = m, ![s] = n] /\ size' = size + 1
  BY <1>0, HandUsed DEF TreeInv, TypeOK, Grow, At
<1>2. p \in Used /\ p \in PageIDs /\ Used \subseteq PageIDs
  BY <1>0, <1>1, HandUsed DEF CallOK
<1>3. s \notin Used /\ Used' = Used \cup {s} /\ p # s
  BY <1>0, <1>1, <1>2 DEF Used
<1>4. /\ nodes'[p] = m /\ nodes'[s] = n /\ ~m.leaf
      /\ \A q \in PageIDs \ {p, s} : nodes'[q] = nodes[q]
  BY <1>0, <1>1, <1>2, <1>3 DEF Inner
<1> DEFINE At0(q) == nodes[q].leaf /\ Entry(nodes[q], k, v)
           At1(q) == nodes'[q].leaf /\ Entry(nodes'[q], k, v)
<1>5. ~At1(p) /\ (At1(s) <=> At0(p)) /\ \A q \in Used \ {p} : At1(q) <=> At0(q)
  BY <1>0, <1>2, <1>3, <1>4
<1>6. Maps(k, v) <=> \E q \in Used : At0(q)
  BY DEF Maps, Leaves, Used
<1>7. Maps(k, v)' <=> \E q \in Used' : At1(q)
  BY DEF Maps, Leaves, Used, Entry
<1> HIDE DEF At0, At1
<1> QED
  BY <1>2, <1>3, <1>5, <1>6, <1>7

-----------------------------------------------------------------------------
(***************************************************************************)
(* The invariant holds, and what each step does to the map.                *)
(***************************************************************************)
LEMMA SearchKept ==
  ASSUME SearchInv, TreeInv', LevelsKept, RangesKept
  PROVE  SearchInv'
<1>1. PICK h \in [PageIDs -> Nat], w \in [PageIDs -> SUBSET Keys] : Levels(h) /\ Ranges(w, h)
  BY DEF SearchInv
<1>2. Levels(h)' /\ Ranges(w, h)'
  BY <1>1 DEF LevelsKept, RangesKept
<1> QED
  BY <1>2 DEF SearchInv

LEMMA SameNodes ==
  ASSUME nodes' = nodes, size' = size
  PROVE  \A k, v : Maps(k, v)' <=> Maps(k, v)
BY DEF Maps, Leaves, Entry

\* The steps at which no call takes effect on the map.
Quiet(t) == \/ \E op \in AllOps, k \in Keys, v \in TIDs \cup {NoTID} :
                  (op = "insert" => v \in TIDs) /\ Begin(t, op, k, v)
            \/ FixRoot(t) \/ FindChild(t) \/ LookupLeaf(t)
            \/ Split(t) \/ Grow(t) \/ Link(t) \/ Descend(t)

LEMMA QuietKeeps ==
  ASSUME SearchInv, NEW t \in Threads, Quiet(t)
  PROVE  SearchInv' /\ \A k, v : Maps(k, v)' <=> Maps(k, v)
<1>0. TreeInv
  BY DEF SearchInv
<1>1. ASSUME NEW op \in AllOps, NEW k \in Keys, NEW v \in TIDs \cup {NoTID},
             op = "insert" => v \in TIDs, Begin(t, op, k, v)
      PROVE  SearchInv' /\ \A x, y : Maps(x, y)' <=> Maps(x, y)
  <2>1. TreeInv' /\ LevelsKept /\ RangesKept
    BY <1>0, <1>1, BeginKeeps, BeginRanges
  <2>2. nodes' = nodes /\ size' = size
    BY <1>1 DEF Begin
  <2> QED
    BY <2>1, <2>2, SearchKept, SameNodes
<1>2. CASE FixRoot(t)
  <2>1. TreeInv' /\ LevelsKept /\ RangesKept
    BY <1>0, <1>2, FixRootKeeps, FixRootRanges
  <2>2. nodes' = nodes /\ size' = size
    BY <1>2 DEF FixRoot
  <2> QED
    BY <2>1, <2>2, SearchKept, SameNodes
<1>3. CASE FindChild(t)
  <2>1. TreeInv' /\ LevelsKept /\ RangesKept
    BY <1>0, <1>3, FindChildKeeps, FindChildRanges
  <2>2. nodes' = nodes /\ size' = size
    BY <1>3 DEF FindChild
  <2> QED
    BY <2>1, <2>2, SearchKept, SameNodes
<1>4. CASE LookupLeaf(t)
  <2>1. TreeInv' /\ LevelsKept /\ RangesKept
    BY <1>0, <1>4, LookupLeafKeeps, LookupLeafRanges
  <2>2. nodes' = nodes /\ size' = size
    BY <1>4 DEF LookupLeaf
  <2> QED
    BY <2>1, <2>2, SearchKept, SameNodes
<1>5. CASE Descend(t)
  <2>1. TreeInv' /\ LevelsKept /\ RangesKept
    BY <1>0, <1>5, DescendKeeps, DescendRanges
  <2>2. nodes' = nodes /\ size' = size
    BY <1>5 DEF Descend
  <2> QED
    BY <2>1, <2>2, SearchKept, SameNodes
<1>6. CASE Link(t)
  <2>1. TreeInv' /\ LevelsKept /\ RangesKept
    BY <1>0, <1>6, LinkKeeps, LinkRanges
  <2> QED
    BY <1>0, <1>6, <2>1, SearchKept, LinkMaps
<1>7. PICK h \in [PageIDs -> Nat], w \in [PageIDs -> SUBSET Keys] : Levels(h) /\ Ranges(w, h)
  BY DEF SearchInv
<1>8. CASE Split(t)
  <2>1. PICK g \in [PageIDs -> Nat] : /\ Levels(g)' /\ g[size] = h[call[t].page]
                                      /\ \A q \in Used : g[q] = h[q]
    BY <1>0, <1>7, <1>8, SplitKeeps
  <2>2. TreeInv'
    BY <1>0, <1>8, SplitKeeps
  <2>3. \E v \in [PageIDs -> SUBSET Keys] : Ranges(v, g)'
    BY <1>0, <1>7, <1>8, <2>1, SplitRanges
  <2>4. SearchInv'
    BY <2>1, <2>2, <2>3 DEF SearchInv
  <2> QED
    BY <1>0, <1>7, <1>8, <2>4, SplitMaps
<1>9. CASE Grow(t)
  <2>1. PICK g \in [PageIDs -> Nat] : /\ Levels(g)' /\ g[size] = h[root] /\ g[root] = h[root] + 1
                                      /\ \A q \in Used \ {root} : g[q] = h[q]
    BY <1>0, <1>7, <1>9, GrowKeeps
  <2>2. TreeInv'
    BY <1>0, <1>9, GrowKeeps
  <2>3. \E v \in [PageIDs -> SUBSET Keys] : Ranges(v, g)'
    BY <1>0, <1>7, <1>9, <2>1, GrowRanges
  <2>4. SearchInv'
    BY <2>1, <2>2, <2>3 DEF SearchInv
  <2> QED
    BY <1>0, <1>9, <2>4, GrowMaps
<1> QED
  BY <1>1, <1>2, <1>3, <1>4, <1>5, <1>6, <1>8, <1>9 DEF Quiet

LEMMA InsertLeafSearch ==
  ASSUME SearchInv, NEW t \in Threads, InsertLeaf(t)
  PROVE  SearchInv'
<1>1. TreeInv' /\ LevelsKept
  BY InsertLeafKeeps DEF SearchInv
<1> QED
  BY <1>1, InsertLeafTakesEffect, SearchKept

LEMMA EraseLeafSearch ==
  ASSUME SearchInv, NEW t \in Threads, EraseLeaf(t)
  PROVE  SearchInv'
<1> DEFINE p == call[t].page
           n == LeafRemove(nodes[p], call[t].key)
<1>1. TreeInv /\ TreeInv' /\ LevelsKept
  BY EraseLeafKeeps DEF SearchInv
<1>2. /\ CallOK(t) /\ call[t].pc \in {"find", "insert"} /\ nodes[p].leaf
      /\ nodes' = [nodes EXCEPT ![p] = n]
      /\ call' = [call EXCEPT ![t] = Idle] /\ size' = size
  BY <1>1 DEF TreeInv, EraseLeaf, At
<1>3. call[t].key \in Keys /\ p \in Used /\ p \in PageIDs
  BY <1>1, <1>2, HandUsed DEF CallOK
<1>4. NodeOK(nodes[p]) /\ Sorted(nodes[p])
  BY <1>1, <1>3 DEF SearchInv, Ranges, NodeRange, TreeInv, TypeOK, NodeOK
<1>5. NodeOK(n) /\ n.leaf /\ Sorted(n) /\ ToSet(n.keys) \subseteq ToSet(nodes[p].keys)
  BY <1>2, <1>3, <1>4, LeafRemoveOK, LeafRemoveSorted
<1> HIDE DEF n
<1>6. RangesKept
  BY <1>1, <1>2, <1>5, LeafRanges
<1> QED
  BY <1>1, <1>6, SearchKept

\* A step that changes nothing.
LEMMA StutterSearch ==
  ASSUME SearchInv, UNCHANGED vars
  PROVE  SearchInv'
<1>1. nodes' = nodes /\ size' = size /\ call' = call
  BY DEF vars
<1>2. PICK h \in [PageIDs -> Nat], w \in [PageIDs -> SUBSET Keys] : Levels(h) /\ Ranges(w, h)
  BY DEF SearchInv
<1>3. TreeInv' /\ Used' = Used
  BY <1>1, TreeInvStep DEF SearchInv, Used
<1>4. Levels(h)'
  BY <1>1, <1>2, <1>3 DEF Levels, NodeLevel, CallLevel, root
<1>5. \A c, k : InReach(w, c, k)' <=> InReach(w, c, k)
  BY <1>1 DEF InReach, Splitting, At
<1>6. \A p \in Used' : NodeRange(w, h, p)'
  BY <1>1, <1>2, <1>3, <1>5 DEF Ranges, NodeRange, ChildRanges, root
<1>7. \A t \in Threads : CallRange(w, t)'
  BY <1>1, <1>2 DEF Ranges, CallRange, IsChild
<1>8. Ranges(w, h)'
  BY <1>2, <1>3, <1>5, <1>6, <1>7 DEF Ranges, Apart, root
<1> QED
  BY <1>3, <1>4, <1>8 DEF SearchInv

-----------------------------------------------------------------------------
(***************************************************************************)
(* Clients erase what they know to be in the tree: nobody else erases it   *)
(* before they have.                                                       *)
(***************************************************************************)
ErasesKnown ==
    \A t \in Threads : call[t].op = "erase" =>
        /\ call[t].key \in Stored
        /\ \A u \in Threads \ {t} : call[u].op = "erase" => call[u].key # call[t].key

KnownInv == SearchInv /\ ErasesKnown

\* What the dictionary sees of the tree.
Dict == [k \in Stored |-> TIDOf(k)]
Request == [t \in Threads |-> Requested(t)]

\* What the dictionary sees of a step at which no call ends or begins.
LEMMA RequestStays ==
  ASSUME NEW t \in Threads, \A u \in Threads \ {t} : call'[u] = call[u],
         call'[t].op = call[t].op, call'[t].key = call[t].key, call'[t].tid = call[t].tid
  PROVE  Request' = Request
<1>1. \A u \in Threads : Requested(u)' = Requested(u)
  BY DEF Requested
<1> QED
  BY <1>1 DEF Request

LEMMA RequestOver ==
  ASSUME call \in [Threads -> Call], NEW t \in Threads, call' = [call EXCEPT ![t] = Idle]
  PROVE  Request' = [Request EXCEPT ![t] = [op |-> "none", key |-> 0, tid |-> NoTID]]
<1>1. \A u \in Threads \ {t} : call'[u] = call[u]
  OBVIOUS
<1>2. call'[t] = Idle
  OBVIOUS
<1>3. \A u \in Threads \ {t} : Requested(u)' = Requested(u)
  BY <1>1 DEF Requested
<1>4. Requested(t)' = [op |-> "none", key |-> 0, tid |-> NoTID]
  BY <1>2 DEF Requested, Idle
<1> QED
  BY <1>3, <1>4 DEF Request

\* The operations of the calls after a step on the way down.
LEMMA WayDown ==
  ASSUME TreeInv, NEW t \in Threads,
         FixRoot(t) \/ FindChild(t) \/ Split(t) \/ Grow(t) \/ Link(t) \/ Descend(t)
  PROVE  /\ \A u \in Threads \ {t} : call'[u] = call[u]
         /\ call'[t].op = call[t].op /\ call'[t].key = call[t].key /\ call'[t].tid = call[t].tid
         /\ answer' = answer
<1>1. call \in [Threads -> Call] /\ CallOK(t)
  BY DEF TreeInv, TypeOK
<1>2. CASE FixRoot(t)
  BY <1>1, <1>2 DEF FixRoot, Call
<1>3. CASE FindChild(t)
  BY <1>1, <1>3 DEF FindChild, Call
<1>4. CASE Split(t)
  BY <1>1, <1>4 DEF Split, Call
<1>5. CASE Descend(t)
  BY <1>1, <1>5 DEF Descend, Call
<1>6. ASSUME NEW p, NEW par, NEW l, NEW changed, Choose(t, p, par, l, changed)
      PROVE  /\ \A u \in Threads \ {t} : call'[u] = call[u]
             /\ call'[t].op = call[t].op /\ call'[t].key = call[t].key /\ call'[t].tid = call[t].tid
  BY <1>1, <1>6 DEF Choose, Call
<1>7. CASE Grow(t)
  BY <1>6, <1>7 DEF Grow
<1>8. CASE Link(t)
  BY <1>6, <1>8 DEF Link
<1> QED
  BY <1>2, <1>3, <1>4, <1>5, <1>7, <1>8

\* The dictionary after an insertion and after an erasure.
LEMMA DictInserted ==
  ASSUME SearchInv, SearchInv', NEW k, NEW v \in TIDs,
         \A x, y : Maps(x, y)' <=> IF x = k THEN y = v ELSE Maps(x, y)
  PROVE  /\ Stored' = Stored \cup {k}
         /\ Dict' = [j \in Stored \cup {k} |-> IF j = k THEN v ELSE Dict[j]]
<1>0. DictFacts /\ DictFacts'
  BY DictIs, DictWillBe
<1>1. \A x : x \in Stored' <=> \E y \in TIDs : Maps(x, y)'
  BY <1>0 DEF DictFacts
<1>2. \A x : x \in Stored <=> \E y \in TIDs : Maps(x, y)
  BY <1>0 DEF DictFacts
<1>3. Stored' = Stored \cup {k}
  BY <1>1, <1>2
<1>4. ASSUME NEW x \in Stored', NEW y, Maps(x, y)'
      PROVE  TIDOf(x)' = y
  BY <1>0, <1>4 DEF DictFacts
<1>5. TIDOf(k)' = v
  BY <1>3, <1>4
<1>6. ASSUME NEW x \in Stored, x # k
      PROVE  TIDOf(x)' = TIDOf(x)
  <2>1. PICK y \in TIDs : Maps(x, y)
    BY <1>2
  <2>2. TIDOf(x) = y
    BY <1>0, <2>1 DEF DictFacts
  <2>3. Maps(x, y)'
    BY <1>6, <2>1
  <2> QED
    BY <1>3, <1>4, <2>2, <2>3
<1> QED
  BY <1>3, <1>5, <1>6 DEF Dict

LEMMA DictErased ==
  ASSUME SearchInv, SearchInv', NEW k,
         \A x, y : Maps(x, y)' <=> x # k /\ Maps(x, y)
  PROVE  /\ Stored' = Stored \ {k}
         /\ Dict' = [j \in Stored \ {k} |-> Dict[j]]
<1>0. DictFacts /\ DictFacts'
  BY DictIs, DictWillBe
<1>1. \A x : x \in Stored' <=> \E y \in TIDs : Maps(x, y)'
  BY <1>0 DEF DictFacts
<1>2. \A x : x \in Stored <=> \E y \in TIDs : Maps(x, y)
  BY <1>0 DEF DictFacts
<1>3. Stored' = Stored \ {k}
  BY <1>1, <1>2
<1>4. ASSUME NEW x \in Stored', NEW y, Maps(x, y)'
      PROVE  TIDOf(x)' = y
  BY <1>0, <1>4 DEF DictFacts
<1>5. ASSUME NEW x \in Stored, x # k
      PROVE  TIDOf(x)' = TIDOf(x)
  <2>1. PICK y \in TIDs : Maps(x, y)
    BY <1>2
  <2>2. TIDOf(x) = y
    BY <1>0, <2>1 DEF DictFacts
  <2>3. Maps(x, y)'
    BY <1>5, <2>1
  <2> QED
    BY <1>3, <1>4, <1>5, <2>2, <2>3
<1> QED
  BY <1>3, <1>5 DEF Dict

LEMMA QuietDict ==
  ASSUME SearchInv, NEW t \in Threads, Quiet(t)
  PROVE  SearchInv' /\ Stored' = Stored /\ Dict' = Dict
BY QuietKeeps, SameDict DEF Dict

\* Keys that are being erased stay in the tree as long as others erase others.
LEMMA ErasesStayKnown ==
  ASSUME ErasesKnown, NEW t \in Threads, \A u \in Threads \ {t} : call'[u] = call[u],
         \A u \in Threads \ {t} : call[u].op = "erase" => call[u].key \in Stored',
         call'[t].op = "erase" => /\ call'[t].key \in Stored'
                                  /\ \A u \in Threads \ {t} :
                                        call[u].op = "erase" => call[u].key # call'[t].key
  PROVE  ErasesKnown'
<1> SUFFICES ASSUME NEW u \in Threads, call'[u].op = "erase"
             PROVE  /\ call'[u].key \in Stored'
                    /\ \A x \in Threads \ {u} : call'[x].op = "erase" => call'[x].key # call'[u].key
  BY DEF ErasesKnown
<1>1. CASE u = t
  BY <1>1
<1>2. CASE u # t
  <2>1. call'[u] = call[u] /\ call[u].op = "erase" /\ call[u].key \in Stored'
    BY <1>2
  <2>2. ASSUME NEW x \in Threads \ {u}, call'[x].op = "erase"
        PROVE  call'[x].key # call'[u].key
    <3>1. CASE x = t
      BY <1>2, <2>1, <2>2, <3>1
    <3>2. CASE x # t
      BY <2>1, <2>2, <3>2 DEF ErasesKnown
    <3> QED
      BY <3>1, <3>2
  <2> QED
    BY <2>1, <2>2
<1> QED
  BY <1>1, <1>2

-----------------------------------------------------------------------------
(***************************************************************************)
(* Every step keeps the invariant and is a step of the dictionary or one   *)
(* it does not see.                                                        *)
(***************************************************************************)
Mapped == Dictionary!Next \/ UNCHANGED Dictionary!vars

LEMMA BeginMapped ==
  ASSUME KnownInv, NEW t \in Threads, NEW op \in AllOps, NEW k \in Keys, NEW v \in TIDs \cup {NoTID},
         op = "insert" => v \in TIDs, Begin(t, op, k, v),
         op = "erase" => /\ k \in Stored
                         /\ \A u \in Threads : call[u].op = "erase" => call[u].key # k
  PROVE  KnownInv' /\ Mapped
<1>1. Quiet(t) /\ SearchInv /\ ErasesKnown
  BY DEF Quiet, KnownInv
<1>2. SearchInv' /\ Stored' = Stored /\ Dict' = Dict
  BY <1>1, QuietDict
<1>3. /\ call \in [Threads -> Call] /\ CallOK(t) /\ call[t].pc = "idle"
      /\ call' = [call EXCEPT ![t] = [Idle EXCEPT !.pc = "root", !.op = op, !.key = k, !.tid = v]]
      /\ answer' = [answer EXCEPT ![t] = NotFound]
  BY <1>1 DEF SearchInv, TreeInv, TypeOK, Begin, At
<1>4. /\ \A u \in Threads \ {t} : call'[u] = call[u]
      /\ call'[t].op = op /\ call'[t].key = k /\ call'[t].tid = v
      /\ call[t] = Idle
  BY <1>3 DEF CallOK, Idle
<1>5. ErasesKnown'
  <2>1. \A u \in Threads \ {t} : call[u].op = "erase" => call[u].key \in Stored'
    BY <1>1, <1>2 DEF ErasesKnown
  <2>2. call'[t].op = "erase" => /\ call'[t].key \in Stored'
                                 /\ \A u \in Threads \ {t} :
                                       call[u].op = "erase" => call[u].key # call'[t].key
    BY <1>2, <1>4
  <2> QED
    BY <1>1, <1>4, <2>1, <2>2, ErasesStayKnown
<1>6. Request' = [Request EXCEPT ![t] = [op |-> op, key |-> k, tid |-> v]]
  <2>1. \A u \in Threads \ {t} : Requested(u)' = Requested(u)
    BY <1>4 DEF Requested
  <2>2. Requested(t)' = [op |-> op, key |-> k, tid |-> v]
    BY <1>4 DEF Requested
  <2> QED
    BY <2>1, <2>2 DEF Request
<1>7. Dictionary!Ask(t)
  <2>1. Request[t] = [op |-> "none", key |-> 0, tid |-> NoTID]
    BY <1>4 DEF Request, Requested, Idle
  <2>2. [op |-> op, key |-> k, tid |-> v] \in Dictionary!Requests
    BY DEF Dictionary!Requests, AllOps
  <2> QED
    BY <1>2, <1>3, <1>6, <2>1, <2>2
       DEF Dictionary!Ask, Dictionary!NoRequest, Dictionary!NotFound, NotFound, Request, Dict
<1> QED
  BY <1>2, <1>5, <1>7 DEF KnownInv, Mapped, Dictionary!Next

LEMMA WayDownMapped ==
  ASSUME KnownInv, NEW t \in Threads,
         FixRoot(t) \/ FindChild(t) \/ Split(t) \/ Grow(t) \/ Link(t) \/ Descend(t)
  PROVE  KnownInv' /\ Mapped
<1>1. Quiet(t) /\ SearchInv /\ ErasesKnown /\ TreeInv
  BY DEF Quiet, KnownInv, SearchInv
<1>2. SearchInv' /\ Stored' = Stored /\ Dict' = Dict
  BY <1>1, QuietDict
<1>3. /\ \A u \in Threads \ {t} : call'[u] = call[u]
      /\ call'[t].op = call[t].op /\ call'[t].key = call[t].key /\ call'[t].tid = call[t].tid
      /\ answer' = answer
  BY <1>1, WayDown
<1>4. ErasesKnown'
  <2>1. \A u \in Threads \ {t} : call[u].op = "erase" => call[u].key \in Stored'
    BY <1>1, <1>2 DEF ErasesKnown
  <2>2. call'[t].op = "erase" => /\ call'[t].key \in Stored'
                                 /\ \A u \in Threads \ {t} :
                                       call[u].op = "erase" => call[u].key # call'[t].key
    BY <1>1, <1>2, <1>3 DEF ErasesKnown
  <2> QED
    BY <1>1, <1>3, <2>1, <2>2, ErasesStayKnown
<1>5. Request' = Request
  BY <1>3, RequestStays
<1>6. UNCHANGED Dictionary!vars
  BY <1>2, <1>3, <1>5 DEF Dictionary!vars, Dict, Request
<1> QED
  BY <1>2, <1>4, <1>6 DEF KnownInv, Mapped

\* What a call that ends leaves of the others.
LEMMA OverKnown ==
  ASSUME ErasesKnown, call \in [Threads -> Call], NEW t \in Threads,
         call' = [call EXCEPT ![t] = Idle],
         \A u \in Threads \ {t} : call[u].op = "erase" => call[u].key \in Stored'
  PROVE  ErasesKnown'
<1>1. (\A u \in Threads \ {t} : call'[u] = call[u]) /\ call'[t].op # "erase"
  BY DEF Idle
<1> QED
  BY <1>1, ErasesStayKnown

LEMMA LookupLeafMapped ==
  ASSUME KnownInv, NEW t \in Threads, LookupLeaf(t)
  PROVE  KnownInv' /\ Mapped
<1>1. Quiet(t) /\ SearchInv /\ ErasesKnown /\ TreeInv
  BY DEF Quiet, KnownInv, SearchInv
<1>2. SearchInv' /\ Stored' = Stored /\ Dict' = Dict
  BY <1>1, QuietDict
<1>3. PICK p, k, n : p = call[t].page /\ k = call[t].key /\ n = nodes[p]
  OBVIOUS
<1>4. /\ call \in [Threads -> Call] /\ call[t].pc = "find" /\ call[t].op = "lookup" /\ n.leaf
      /\ call' = [call EXCEPT ![t] = Idle]
      /\ answer' = [answer EXCEPT ![t] = IF Has(n, k)
                                         THEN [found |-> TRUE, tid |-> n.tids[KeyIndex(n, k)]]
                                         ELSE NotFound]
  BY <1>1, <1>3 DEF TreeInv, TypeOK, LookupLeaf, At
<1>5. /\ k \in Stored <=> Has(n, k)
      /\ Has(n, k) => TIDOf(k) = n.tids[KeyIndex(n, k)]
  BY <1>1, <1>3, <1>4, LeafSpeaks
<1>6. ErasesKnown'
  BY <1>1, <1>2, <1>4, OverKnown DEF ErasesKnown
<1>7. Request' = [Request EXCEPT ![t] = [op |-> "none", key |-> 0, tid |-> NoTID]]
  BY <1>4, RequestOver
<1>8. Request[t].op = "lookup" /\ Request[t].key = k
  BY <1>3, <1>4 DEF Request, Requested
<1>9. answer' = [answer EXCEPT ![t] = IF k \in DOMAIN Dict
                                      THEN [found |-> TRUE, tid |-> Dict[k]] ELSE NotFound]
  BY <1>4, <1>5 DEF Dict
<1>10. Dictionary!Lookup(t)
  BY <1>2, <1>7, <1>8, <1>9 DEF Dictionary!Lookup, Dictionary!Does, Dictionary!NoRequest,
     Dictionary!NotFound, NotFound, Request, Dict
<1> QED
  BY <1>2, <1>6, <1>10 DEF KnownInv, Mapped, Dictionary!Next

LEMMA InsertLeafMapped ==
  ASSUME KnownInv, NEW t \in Threads, InsertLeaf(t)
  PROVE  KnownInv' /\ Mapped
<1>1. SearchInv /\ ErasesKnown /\ TreeInv
  BY DEF KnownInv, SearchInv
<1>2. PICK k, v : k = call[t].key /\ v = call[t].tid
  OBVIOUS
<1>3. /\ call \in [Threads -> Call] /\ call[t].pc = "insert" /\ CallOK(t)
      /\ call' = [call EXCEPT ![t] = Idle] /\ answer' = answer
  BY <1>1 DEF TreeInv, TypeOK, InsertLeaf, At
<1>4. /\ SearchInv' /\ v \in TIDs
      /\ \A x, y : Maps(x, y)' <=> IF x = k THEN y = v ELSE Maps(x, y)
  BY <1>1, <1>2, InsertLeafSearch, InsertLeafTakesEffect
<1>5. /\ Stored' = Stored \cup {k}
      /\ Dict' = [j \in Stored \cup {k} |-> IF j = k THEN v ELSE Dict[j]]
  BY <1>1, <1>4, DictInserted
<1>6. ErasesKnown'
  BY <1>1, <1>3, <1>5, OverKnown DEF ErasesKnown
<1>7. Request' = [Request EXCEPT ![t] = [op |-> "none", key |-> 0, tid |-> NoTID]]
  BY <1>3, RequestOver
<1>8. Request[t].op = "insert" /\ Request[t].key = k /\ Request[t].tid = v
  BY <1>2, <1>3 DEF Request, Requested, CallOK
<1>9. DOMAIN Dict = Stored
  BY DEF Dict
<1>10. Dictionary!Insert(t)
  BY <1>3, <1>5, <1>7, <1>8, <1>9 DEF Dictionary!Insert, Dictionary!Does, Dictionary!NoRequest,
     Request, Dict
<1> QED
  BY <1>4, <1>6, <1>10 DEF KnownInv, Mapped, Dictionary!Next

LEMMA EraseLeafMapped ==
  ASSUME KnownInv, NEW t \in Threads, EraseLeaf(t)
  PROVE  KnownInv' /\ Mapped
<1>1. SearchInv /\ ErasesKnown /\ TreeInv
  BY DEF KnownInv, SearchInv
<1>2. PICK k : k = call[t].key
  OBVIOUS
<1>3. /\ call \in [Threads -> Call] /\ call[t].op = "erase"
      /\ call' = [call EXCEPT ![t] = Idle]
  BY <1>1 DEF TreeInv, TypeOK, EraseLeaf, At
<1>4. k \in Stored
  BY <1>1, <1>2, <1>3 DEF ErasesKnown
<1>5. /\ SearchInv'
      /\ \A x, y : Maps(x, y)' <=> x # k /\ Maps(x, y)
      /\ answer' = [answer EXCEPT ![t] = [found |-> TRUE, tid |-> NoTID]]
  BY <1>1, <1>2, <1>4, EraseLeafSearch, EraseLeafTakesEffect
<1>6. /\ Stored' = Stored \ {k}
      /\ Dict' = [j \in Stored \ {k} |-> Dict[j]]
  BY <1>1, <1>5, DictErased
<1>7. ErasesKnown'
  BY <1>1, <1>2, <1>3, <1>6, OverKnown DEF ErasesKnown
<1>8. Request' = [Request EXCEPT ![t] = [op |-> "none", key |-> 0, tid |-> NoTID]]
  BY <1>3, RequestOver
<1>9. Request[t].op = "erase" /\ Request[t].key = k
  BY <1>2, <1>3 DEF Request, Requested
<1>10. DOMAIN Dict = Stored
  BY DEF Dict
<1>11. Dictionary!Erase(t)
  BY <1>4, <1>5, <1>6, <1>8, <1>9, <1>10 DEF Dictionary!Erase, Dictionary!Does,
     Dictionary!NoRequest, Request, Dict
<1> QED
  BY <1>5, <1>7, <1>11 DEF KnownInv, Mapped, Dictionary!Next

LEMMA StutterMapped ==
  ASSUME KnownInv, UNCHANGED vars
  PROVE  KnownInv' /\ Mapped
<1>1. /\ nodes' = nodes /\ size' = size /\ call' = call /\ answer' = answer
      /\ SearchInv /\ ErasesKnown
  BY DEF vars, KnownInv
<1>2. SearchInv'
  BY <1>1, StutterSearch
<1>3. \A k, v : Maps(k, v)' <=> Maps(k, v)
  BY <1>1, SameNodes
<1>4. Stored' = Stored /\ Dict' = Dict
  BY <1>1, <1>2, <1>3, SameDict DEF Dict
<1>5. ErasesKnown'
  BY <1>1, <1>4 DEF ErasesKnown
<1>6. Request' = Request
  BY <1>1 DEF Request, Requested
<1> QED
  BY <1>1, <1>2, <1>4, <1>5, <1>6 DEF KnownInv, Mapped, Dictionary!vars, Dict, Request

LEMMA KnownInvInit == Init => KnownInv /\ Dictionary!Init
<1> SUFFICES ASSUME Init PROVE KnownInv /\ Dictionary!Init
  OBVIOUS
<1>1. /\ TreeInv /\ size = 1 /\ \A p \in PageIDs : nodes[p] = Leaf(<< >>, << >>)
      /\ \A t \in Threads : call[t] = Idle
      /\ answer = [t \in Threads |-> NotFound]
  BY TreeInvInit DEF Init
<1>2. Used = {root} /\ root \in PageIDs
  BY <1>1, HandUsed, BTreeAssumption DEF Used, root
<1>3. nodes[root].keys = << >> /\ nodes[root].children = << >> /\ nodes[root].leaf
  BY <1>1, <1>2 DEF Leaf
<1>4. PICK h \in [PageIDs -> Nat], w \in [PageIDs -> SUBSET Keys] : h[root] = 0 /\ w[root] = Keys
  <2>1. [p \in PageIDs |-> 0] \in [PageIDs -> Nat] /\ [p \in PageIDs |-> 0][root] = 0
    BY <1>2
  <2>2. [p \in PageIDs |-> Keys] \in [PageIDs -> SUBSET Keys] /\ [p \in PageIDs |-> Keys][root] = Keys
    BY <1>2
  <2> QED
    BY <2>1, <2>2
<1>5. Levels(h)
  BY <1>1, <1>2, <1>3, <1>4 DEF Levels, NodeLevel, CallLevel, Idle
<1>6. Ranges(w, h)
  <2>1. \A k \in Keys : InReach(w, root, k)
    BY <1>4 DEF InReach
  <2>2. NodeRange(w, h, root)
    BY <1>3, <1>4 DEF NodeRange, Sorted, ToSet, ChildRanges
  <2>3. \A t \in Threads : CallRange(w, t)
    BY <1>1 DEF CallRange, Idle
  <2> QED
    BY <1>2, <2>1, <2>2, <2>3 DEF Ranges, Apart
<1>7. KnownInv
  BY <1>1, <1>5, <1>6 DEF KnownInv, SearchInv, ErasesKnown, Idle
<1>8. Dictionary!Init
  <2>1. Leaves = {root}
    BY <1>2, <1>3 DEF Leaves, Used
  <2>2. Stored = {}
    BY <1>3, <2>1 DEF Stored, ToSet
  <2>3. [k \in Stored |-> TIDOf(k)] = [k \in {} |-> NoTID]
    BY <2>2
  <2>4. [t \in Threads |-> Requested(t)] = [t \in Threads |-> [op |-> "none", key |-> 0, tid |-> NoTID]]
    BY <1>1 DEF Requested, Idle
  <2> QED
    BY <1>1, <2>3, <2>4 DEF Dictionary!Init, Dictionary!NoRequest, Dictionary!NotFound, NotFound
<1> QED
  BY <1>7, <1>8

LEMMA KnownInvStep ==
  ASSUME ~EraseAbsent, KnownInv, [Next]_vars
  PROVE  KnownInv' /\ Mapped
<1>1. CASE UNCHANGED vars
  BY <1>1, StutterMapped
<1>2. CASE Next
  <2>1. PICK t \in Threads : \/ \E e \in Entries : Insert(t, e[1], e[2])
                             \/ \E k \in LookedUp : Lookup(t, k)
                             \/ \E k \in Erased : Erase(t, k)
                             \/ Step(t)
    BY <1>2 DEF Next
  <2>2. ASSUME NEW e \in Entries, Insert(t, e[1], e[2]) PROVE KnownInv' /\ Mapped
    <3>1. /\ e[1] \in Keys /\ e[2] \in TIDs /\ e[2] \in TIDs \cup {NoTID}
          /\ Begin(t, "insert", e[1], e[2]) /\ "insert" \in AllOps
      BY <2>2, BTreeAssumption DEF Insert, AllOps
    <3> QED
      BY <3>1, BeginMapped
  <2>3. ASSUME NEW k \in LookedUp, Lookup(t, k) PROVE KnownInv' /\ Mapped
    <3>1. k \in Keys /\ Begin(t, "lookup", k, NoTID) /\ "lookup" \in AllOps
      BY <2>3, BTreeAssumption DEF Lookup, AllOps
    <3> QED
      BY <3>1, BeginMapped
  <2>4. ASSUME NEW k \in Erased, Erase(t, k) PROVE KnownInv' /\ Mapped
    <3>1. /\ k \in Keys /\ Begin(t, "erase", k, NoTID) /\ "erase" \in AllOps
          /\ k \in Stored /\ \A u \in Threads : call[u].op = "erase" => call[u].key # k
      BY <2>4, BTreeAssumption DEF Erase, AllOps
    <3> QED
      BY <3>1, BeginMapped
  <2>5. CASE Step(t)
    BY <2>5, WayDownMapped, LookupLeafMapped, InsertLeafMapped, EraseLeafMapped DEF Step
  <2> QED
    BY <2>1, <2>2, <2>3, <2>4, <2>5
<1> QED
  BY <1>1, <1>2

(***************************************************************************)
(* The tree is a dictionary for the threads that share it, as long as they *)
(* erase keys that are in it: however insertions, splits, erasures and     *)
(* lookups interleave, insert takes effect when the entry gets into its    *)
(* leaf, erase when it leaves it and lookup when the leaf is read.         *)
(***************************************************************************)
THEOREM TreeIsADictionary ==
  ASSUME ~EraseAbsent
  PROVE  Spec => ImplementsDictionary
<1>1. KnownInv /\ [Next]_vars => KnownInv' /\ [Dictionary!Next]_(Dictionary!vars)
  BY KnownInvStep DEF Mapped
<1> QED
  BY <1>1, KnownInvInit, PTL DEF Spec, ImplementsDictionary, Dictionary!Spec

-----------------------------------------------------------------------------
(***************************************************************************)
(* The ranges are an invariant whatever keys clients erase.                *)
(***************************************************************************)
LEMMA SearchInvStep == SearchInv /\ [Next]_vars => SearchInv'
<1> SUFFICES ASSUME SearchInv, [Next]_vars PROVE SearchInv'
  OBVIOUS
<1>1. CASE UNCHANGED vars
  BY <1>1, StutterSearch
<1>2. CASE Next
  <2>1. PICK t \in Threads : \/ \E e \in Entries : Insert(t, e[1], e[2])
                             \/ \E k \in LookedUp : Lookup(t, k)
                             \/ \E k \in Erased : Erase(t, k)
                             \/ Step(t)
    BY <1>2 DEF Next
  <2>2. ASSUME NEW e \in Entries, Insert(t, e[1], e[2]) PROVE Quiet(t)
    <3>1. /\ e[1] \in Keys /\ e[2] \in TIDs /\ e[2] \in TIDs \cup {NoTID}
          /\ Begin(t, "insert", e[1], e[2]) /\ "insert" \in AllOps
      BY <2>2, BTreeAssumption DEF Insert, AllOps
    <3> QED
      BY <3>1 DEF Quiet
  <2>3. ASSUME NEW k \in LookedUp, Lookup(t, k) PROVE Quiet(t)
    <3>1. k \in Keys /\ Begin(t, "lookup", k, NoTID) /\ "lookup" \in AllOps
      BY <2>3, BTreeAssumption DEF Lookup, AllOps
    <3> QED
      BY <3>1 DEF Quiet
  <2>4. ASSUME NEW k \in Erased, Erase(t, k) PROVE Quiet(t)
    <3>1. k \in Keys /\ Begin(t, "erase", k, NoTID) /\ "erase" \in AllOps
      BY <2>4, BTreeAssumption DEF Erase, AllOps
    <3> QED
      BY <3>1 DEF Quiet
  <2>5. Step(t) => Quiet(t) \/ InsertLeaf(t) \/ EraseLeaf(t)
    BY DEF Step, Quiet
  <2> QED
    BY <2>1, <2>2, <2>3, <2>4, <2>5, QuietKeeps, InsertLeafSearch, EraseLeafSearch
<1> QED
  BY <1>1, <1>2

LEMMA SearchInvariant == Spec => []SearchInv
<1>1. Init => SearchInv
  BY KnownInvInit DEF KnownInv
<1> QED
  BY <1>1, SearchInvStep, PTL DEF Spec

-----------------------------------------------------------------------------
(***************************************************************************)
(* The way of a key ends in the leaf that has the key in its range: every  *)
(* step of it goes down, or from a page that is being split to its upper   *)
(* half, so that it meets no page twice before that leaf.                  *)
(***************************************************************************)

\* Way(k) is what its equation says (there is such a function).
LEMMA WayIs ==
  ASSUME size \in Nat, NEW k
  PROVE  Way(k)[0] = root /\ \A d \in 1..size : Way(k)[d] = NextPage(Way(k)[d - 1], k)
<1> DEFINE Onward(q) == NextPage(q, k)
           Is(f, n) == f = [d \in 0..n |-> IF d = 0 THEN root ELSE Onward(f[d - 1])]
           Bad == {n \in 1..size : ~\E f : Is(f, n)}
<1>1. Way(k) = CHOOSE f : Is(f, size)
  BY DEF Way
<1> HIDE DEF Onward
<1>2. \E f : Is(f, 0)
  <2>1. Is([d \in 0..0 |-> root], 0)
    OBVIOUS
  <2> QED
    BY <2>1
<1>3. ASSUME NEW n \in 1..size, NEW f, Is(f, n - 1)
      PROVE  \E g : Is(g, n)
  <2> DEFINE g == [d \in 0..n |-> IF d = n THEN Onward(f[n - 1]) ELSE f[d]]
  <2>1. n - 1 \in Nat /\ 0 \in 0..(n - 1) /\ n - 1 \in 0..(n - 1)
    OBVIOUS
  <2>2. f = [d \in 0..(n - 1) |-> IF d = 0 THEN root ELSE Onward(f[d - 1])]
    BY <1>3
  <2>3. ASSUME NEW d \in 0..n
        PROVE  g[d] = IF d = 0 THEN root ELSE Onward(g[d - 1])
    <3>1. CASE d = n
      <4>1. g[d] = Onward(f[n - 1]) /\ d # 0 /\ n - 1 \in 0..n /\ n - 1 # n
        BY <3>1
      <4>2. g[d - 1] = f[n - 1]
        BY <3>1, <4>1
      <4> QED
        BY <4>1, <4>2
    <3>2. CASE d # n
      <4>1. d \in 0..(n - 1) /\ g[d] = f[d]
        BY <3>2
      <4>2. f[d] = IF d = 0 THEN root ELSE Onward(f[d - 1])
        BY <2>2, <4>1
      <4>3. d # 0 => g[d - 1] = f[d - 1]
        BY <4>1
      <4> QED
        BY <4>1, <4>2, <4>3
    <3> QED
      BY <3>1, <3>2
  <2>4. g = [d \in 0..n |-> g[d]]
    OBVIOUS
  <2>5. g = [d \in 0..n |-> IF d = 0 THEN root ELSE Onward(g[d - 1])]
    <3> HIDE DEF g
    <3> QED
      BY <2>3, <2>4
  <2>6. Is(g, n)
    BY <2>5
  <2> HIDE DEF g, Is
  <2> QED
    BY <2>6
<1> HIDE DEF Is
<1>4. Bad = {}
  <2> SUFFICES ASSUME Bad # {} PROVE FALSE
    OBVIOUS
  <2>1. PICK n \in Bad : \A m \in Bad : n <= m
    <3>1. Bad \in SUBSET (1..size)
      OBVIOUS
    <3> HIDE DEF Bad
    <3> QED
      BY <3>1, LeastIndex
  <2>2. n \in 1..size /\ n - 1 \notin Bad /\ (n - 1 = 0 \/ n - 1 \in 1..size)
    BY <2>1
  <2>3. \E f : Is(f, n - 1)
    BY <1>2, <2>2
  <2> QED
    BY <1>3, <2>1, <2>2, <2>3
<1>5. \E f : Is(f, size)
  BY <1>2, <1>4
<1>6. Is(Way(k), size)
  BY <1>1, <1>5
<1>7. Way(k) = [d \in 0..size |-> IF d = 0 THEN root ELSE Onward(Way(k)[d - 1])]
  BY <1>6 DEF Is
<1> DEFINE W == Way(k)
<1> HIDE DEF W
<1>8. W = [d \in 0..size |-> IF d = 0 THEN root ELSE Onward(W[d - 1])]
  BY <1>7 DEF W
<1>9. W[0] = root /\ \A d \in 1..size : W[d] = Onward(W[d - 1])
  <2>1. 0 \in 0..size /\ \A d \in 1..size : d \in 0..size /\ d # 0
    OBVIOUS
  <2> QED
    BY <1>8, <2>1
<1> QED
  BY <1>9 DEF W, Onward

LEMMA UsedPages ==
  ASSUME TreeInv
  PROVE  Used \subseteq PageIDs /\ size \in Nat /\ size >= 1 /\ root \in Used /\ NoPage \notin Used
<1>1. size \in 1..Cardinality(PageIDs)
  BY DEF TreeInv, TypeOK
<1> QED
  BY <1>1, BTreeAssumption DEF Used, root, NoPage

\* A page has its range and that of its unlinked upper half, which are apart.
LEMMA HalfAbove ==
  ASSUME TreeInv, NEW h \in [PageIDs -> Nat], NEW w \in [PageIDs -> SUBSET Keys],
         Levels(h), Ranges(w, h), NEW p, NEW t \in Splitting(p)
  PROVE  /\ Splitting(p) = {t} /\ call[t].op # "lookup" /\ call[t].page = p
         /\ p \in InHand(t) /\ call[t].new \in InHand(t)
         /\ p \in Used /\ call[t].new \in Used /\ call[t].new # root /\ call[t].new # p
         /\ h[call[t].new] = h[p]
         /\ call[t].sep \in Int /\ call[t].key \in Keys
         /\ \A k \in w[p] : k <= call[t].sep
         /\ \A k \in w[call[t].new] : k > call[t].sep
         /\ InReach(w, p, call[t].key)
<1>1. t \in Threads /\ call[t].page = p /\ call[t].pc = "separate" /\ CallOK(t)
  BY DEF Splitting, At, TreeInv
<1>2. /\ p \in Used /\ call[t].new \in Used /\ call[t].new # root /\ call[t].new # p
      /\ call[t].op # "lookup" /\ call[t].sep \in Int /\ call[t].key \in Keys
  BY <1>1, BTreeAssumption DEF CallOK
<1>3. NoPage \notin Used
  BY UsedPages
<1>4. p \in InHand(t) /\ call[t].new \in InHand(t)
  BY <1>1, <1>2, <1>3 DEF InHand
<1>5. ASSUME NEW u \in Splitting(p), u # t PROVE FALSE
  <2>1. u \in Threads \ {t} /\ call[u].page = p
    BY <1>5 DEF Splitting
  <2>2. p \in InHand(u)
    BY <1>2, <1>3, <2>1 DEF InHand
  <2> QED
    BY <1>1, <1>2, <1>4, <2>1, <2>2, NotShared
<1>6. h[call[t].new] = h[p]
  BY <1>1, <1>2, <1>3 DEF Levels, CallLevel
<1>7. /\ \A k \in w[p] : k <= call[t].sep
      /\ \A k \in w[call[t].new] : k > call[t].sep
      /\ call[t].key \in w[p] \cup w[call[t].new]
  BY <1>1 DEF Ranges, CallRange
<1>8. InReach(w, p, call[t].key)
  BY <1>7 DEF InReach
<1> QED
  BY <1>1, <1>2, <1>4, <1>5, <1>6, <1>7, <1>8

\* A step of the way of a key.
LEMMA NextInReach ==
  ASSUME TreeInv, NEW h \in [PageIDs -> Nat], NEW w \in [PageIDs -> SUBSET Keys],
         Levels(h), Ranges(w, h), NEW k \in Keys, NEW p \in Used, InReach(w, p, k)
  PROVE  LET q == NextPage(p, k) IN
         /\ q \in Used /\ InReach(w, q, k)
         /\ \/ k \in w[p] /\ nodes[p].leaf /\ q = p
            \/ /\ k \in w[p] /\ h[p] = h[q] + 1
               /\ KeyIndex(nodes[p], k) \in DOMAIN nodes[p].children
               /\ q = nodes[p].children[KeyIndex(nodes[p], k)]
            \/ k \notin w[p] /\ k \in w[q] /\ h[q] = h[p]
<1> DEFINE q == NextPage(p, k)
           onward == {call[t].new : t \in {u \in Splitting(p) : k > call[u].sep}}
<1>1. q = IF onward # {} THEN CHOOSE x \in onward : TRUE
          ELSE IF nodes[p].leaf THEN p ELSE Child(nodes[p], k)
  BY DEF NextPage
<1>2. /\ NodeOK(nodes[p]) /\ NodeLevel(h, p) /\ ChildRanges(w, p)
      /\ h[p] \in Nat /\ k \in Int
  <2>1. p \in PageIDs
    BY UsedPages
  <2> QED
    BY <2>1, BTreeAssumption DEF TreeInv, TypeOK, NodeOK, Levels, Ranges, NodeRange
<1> HIDE DEF q
<1>3. CASE k \in w[p]
  <2>1. onward = {}
    <3>1. ASSUME NEW t \in Splitting(p), k > call[t].sep PROVE FALSE
      <4>1. call[t].sep \in Int /\ k <= call[t].sep
        BY <1>3, HalfAbove
      <4> QED
        BY <1>2, <3>1, <4>1
    <3> QED
      BY <3>1
  <2>2. CASE nodes[p].leaf
    BY <1>1, <1>3, <2>1, <2>2 DEF q
  <2>3. CASE ~nodes[p].leaf
    <3>1. /\ q = nodes[p].children[KeyIndex(nodes[p], k)]
          /\ KeyIndex(nodes[p], k) \in DOMAIN nodes[p].children
      BY <1>1, <1>2, <2>1, <2>3, ChildIsChild
    <3>2. q \in Used /\ h[p] = h[q] + 1
      <4>1. q \in Used /\ h[q] + 1 = h[p]
        BY <1>2, <3>1 DEF NodeLevel
      <4> QED
        BY <4>1
    <3>3. InReach(w, q, k)
      BY <1>2, <1>3, <3>1 DEF ChildRanges
    <3> QED
      BY <1>3, <3>1, <3>2, <3>3 DEF q
  <2> QED
    BY <2>2, <2>3
<1>4. CASE k \notin w[p]
  <2>1. PICK t \in Splitting(p) : k \in w[call[t].new]
    BY <1>4 DEF InReach
  <2>2. /\ Splitting(p) = {t} /\ call[t].new \in Used /\ h[call[t].new] = h[p]
        /\ k > call[t].sep
    BY <2>1, HalfAbove
  <2>3. onward = {call[t].new}
    BY <2>2
  <2> HIDE DEF onward
  <2>4. q = call[t].new
    BY <1>1, <2>3
  <2>5. InReach(w, q, k)
    BY <2>1, <2>4 DEF InReach
  <2> QED
    BY <1>4, <2>1, <2>2, <2>4, <2>5 DEF q
<1> QED
  BY <1>3, <1>4

\* All pages on the way of a key have it in reach.
LEMMA WayInReach ==
  ASSUME TreeInv, NEW h \in [PageIDs -> Nat], NEW w \in [PageIDs -> SUBSET Keys],
         Levels(h), Ranges(w, h), NEW k \in Keys
  PROVE  \A d \in 0..size : Way(k)[d] \in Used /\ InReach(w, Way(k)[d], k)
<1> DEFINE W == Way(k)
           Good(d) == W[d] \in Used /\ InReach(w, W[d], k)
           Bad == {d \in 1..size : ~Good(d)}
<1>1. size \in Nat
  BY UsedPages
<1>2. W[0] = root /\ \A d \in 1..size : W[d] = NextPage(W[d - 1], k)
  BY <1>1, WayIs
<1> HIDE DEF W
<1>3. Good(0)
  BY <1>2, UsedPages DEF Ranges
<1>4. ASSUME NEW d \in 1..size, Good(d - 1) PROVE Good(d)
  BY <1>2, <1>4, NextInReach
<1> HIDE DEF Good
<1>5. Bad = {}
  <2> SUFFICES ASSUME Bad # {} PROVE FALSE
    OBVIOUS
  <2>1. PICK d \in Bad : \A e \in Bad : d <= e
    <3>1. Bad \in SUBSET (1..size)
      OBVIOUS
    <3> HIDE DEF Bad
    <3> QED
      BY <1>1, <3>1, LeastIndex
  <2>2. d \in 1..size /\ d - 1 \notin Bad /\ (d - 1 = 0 \/ d - 1 \in 1..size)
    BY <1>1, <2>1
  <2>3. Good(d - 1)
    BY <1>3, <2>2
  <2> QED
    BY <1>4, <2>1, <2>2, <2>3
<1> QED
  BY <1>1, <1>3, <1>5 DEF Good, W

\* How far a page is from the leaf of a key.
Distance(w, h, k, p) == IF k \in w[p] THEN 2 * h[p] ELSE 2 * h[p] + 1

\* A search gets nearer to the leaf with each step, until it is there.
LEMMA WayGoesDown ==
  ASSUME TreeInv, NEW h \in [PageIDs -> Nat], NEW w \in [PageIDs -> SUBSET Keys],
         Levels(h), Ranges(w, h), NEW k \in Keys
  PROVE  LET Dist(d) == Distance(w, h, k, Way(k)[d]) IN
         /\ \A d \in 0..size : Dist(d) \in Nat
         /\ \A e, d \in 0..size : e < d => Dist(d) < Dist(e) \/ (Dist(d) = 0 /\ Dist(e) = 0)
<1> DEFINE W == Way(k)
           Dist(d) == Distance(w, h, k, W[d])
           Nearer(e, d) == Dist(d) < Dist(e) \/ (Dist(d) = 0 /\ Dist(e) = 0)
           Bad == {d \in 1..size : \E e \in 0..(d - 1) : ~Nearer(e, d)}
<1>1. size \in Nat
  BY UsedPages
<1>2. W[0] = root /\ \A d \in 1..size : W[d] = NextPage(W[d - 1], k)
  BY <1>1, WayIs
<1>3. \A d \in 0..size : W[d] \in Used /\ InReach(w, W[d], k)
  BY WayInReach
<1> HIDE DEF W
<1>4. ASSUME NEW d \in 0..size
      PROVE  Dist(d) \in Nat
  <2>1. h[W[d]] \in Nat
    BY <1>3, UsedPages
  <2> QED
    BY <2>1 DEF Distance
<1>5. ASSUME NEW d \in 1..size
      PROVE  Nearer(d - 1, d)
  <2>1. d - 1 \in 0..size /\ d \in 0..size
    BY <1>1
  <2> DEFINE p == W[d - 1]
             q == W[d]
  <2>2. p \in Used /\ InReach(w, p, k) /\ q = NextPage(p, k) /\ q \in Used
    BY <1>2, <1>3, <2>1
  <2> HIDE DEF p, q
  <2>3. h[p] \in Nat /\ h[q] \in Nat
    BY <2>2, UsedPages
  <2>4. \/ k \in w[p] /\ nodes[p].leaf /\ q = p
        \/ k \in w[p] /\ h[p] = h[q] + 1
        \/ k \notin w[p] /\ k \in w[q] /\ h[q] = h[p]
    BY <2>2, NextInReach
  <2>5. nodes[p].leaf => h[p] = 0
    BY <2>2 DEF Levels, NodeLevel
  <2>6. \/ Distance(w, h, k, q) < Distance(w, h, k, p)
        \/ Distance(w, h, k, q) = 0 /\ Distance(w, h, k, p) = 0
    BY <2>3, <2>4, <2>5 DEF Distance
  <2> QED
    BY <2>6 DEF p, q
<1> HIDE DEF Dist
<1>6. Bad = {}
  <2> SUFFICES ASSUME Bad # {} PROVE FALSE
    OBVIOUS
  <2>1. PICK d \in Bad : \A e \in Bad : d <= e
    <3>1. Bad \in SUBSET (1..size)
      OBVIOUS
    <3> HIDE DEF Bad
    <3> QED
      BY <1>1, <3>1, LeastIndex
  <2>2. PICK e \in 0..(d - 1) : ~Nearer(e, d)
    BY <2>1
  <2>3. d \in 1..size /\ d - 1 \notin Bad /\ e \in 0..size /\ d - 1 \in 0..size /\ d \in 0..size
    BY <1>1, <2>1, <2>2
  <2>4. Nearer(d - 1, d)
    BY <1>5, <2>3
  <2>5. e # d - 1
    BY <2>2, <2>4
  <2>6. d - 1 \in 1..size /\ e \in 0..(d - 1 - 1)
    BY <2>2, <2>3, <2>5
  <2>7. Nearer(e, d - 1)
    BY <2>3, <2>6
  <2>8. Dist(d) \in Nat /\ Dist(e) \in Nat /\ Dist(d - 1) \in Nat
    BY <1>4, <2>3
  <2> QED
    BY <2>2, <2>4, <2>7, <2>8
<1>7. ASSUME NEW e \in 0..size, NEW d \in 0..size, e < d
      PROVE  Nearer(e, d)
  <2>1. d \in 1..size /\ e \in 0..(d - 1)
    BY <1>1, <1>7
  <2> QED
    BY <1>6, <2>1
<1> QED
  BY <1>4, <1>7 DEF Dist, W

\* n + 1 steps on n pages meet one of them twice.
LEMMA MetTwice ==
  ASSUME NEW n \in Nat, NEW T, IsFiniteSet(T), Cardinality(T) = n, NEW g \in [0..n -> T]
  PROVE  \E x, y \in 0..n : x # y /\ g[x] = g[y]
<1> DEFINE S == 0..n
<1>1. IsFiniteSet(S) /\ Cardinality(S) = IF 0 > n THEN 0 ELSE n - 0 + 1
  BY FS_Interval
<1>2. Cardinality(T) < Cardinality(S)
  BY <1>1
<1> HIDE DEF S
<1>3. g \in [S -> T]
  BY DEF S
<1>4. \E x, y \in S : x # y /\ g[x] = g[y]
  BY <1>1, <1>2, <1>3, FS_PigeonHole
<1> QED
  BY <1>4 DEF S

\* size steps are enough to reach the leaf.
LEMMA WayEnds ==
  ASSUME TreeInv, NEW h \in [PageIDs -> Nat], NEW w \in [PageIDs -> SUBSET Keys],
         Levels(h), Ranges(w, h), NEW k \in Keys
  PROVE  LeafOf(k) \in Leaves /\ k \in w[LeafOf(k)]
<1> DEFINE W == Way(k)
           Dist(d) == Distance(w, h, k, W[d])
           g == [d \in 0..size |-> W[d]]
<1>1. size \in Nat /\ size \in 0..size
  BY UsedPages
<1>2. \A d \in 0..size : W[d] \in Used /\ InReach(w, W[d], k)
  BY WayInReach
<1>3. /\ \A d \in 0..size : Dist(d) \in Nat
      /\ \A e, d \in 0..size : e < d => Dist(d) < Dist(e) \/ (Dist(d) = 0 /\ Dist(e) = 0)
  BY WayGoesDown
<1> HIDE DEF W
<1>4. PICK e \in 0..size, d \in 0..size : e < d /\ W[e] = W[d]
  <2>1. g \in [0..size -> Used]
    BY <1>2
  <2>2. IsFiniteSet(Used) /\ Cardinality(Used) = size
    <3>1. /\ IsFiniteSet(0..(size - 1))
          /\ Cardinality(0..(size - 1)) = IF 0 > size - 1 THEN 0 ELSE size - 1 - 0 + 1
      BY <1>1, FS_Interval
    <3> QED
      BY <1>1, <3>1, UsedPages DEF Used
  <2> HIDE DEF g
  <2>3. PICK x \in 0..size, y \in 0..size : x # y /\ g[x] = g[y]
    BY <1>1, <2>1, <2>2, MetTwice
  <2> USE DEF g
  <2>4. W[x] = W[y]
    BY <2>3
  <2>5. x < y \/ y < x
    BY <2>3
  <2> QED
    BY <2>4, <2>5
<1>5. Dist(e) = Dist(d)
  BY <1>4
<1> HIDE DEF Dist
<1>6. Dist(d) = 0
  BY <1>3, <1>4, <1>5
<1>7. Dist(size) = 0
  <2>1. d = size \/ d < size
    BY <1>1
  <2> QED
    BY <1>1, <1>3, <1>6, <2>1
<1> DEFINE p == W[size]
<1>8. p \in Used /\ Distance(w, h, k, p) = 0
  BY <1>1, <1>2, <1>7 DEF Dist
<1> HIDE DEF p
<1>9. h[p] \in Nat
  BY <1>8, UsedPages
<1>10. k \in w[p] /\ h[p] = 0
  BY <1>8, <1>9 DEF Distance
<1>11. nodes[p].leaf
  BY <1>8, <1>10 DEF Levels, NodeLevel
<1> QED
  BY <1>8, <1>10, <1>11 DEF LeafOf, Leaves, Used, p, W

LEMMA AllInReach ==
  ASSUME SearchInv
  PROVE  EntriesInReach
<1>1. TreeInv
  BY DEF SearchInv
<1>2. PICK h \in [PageIDs -> Nat], w \in [PageIDs -> SUBSET Keys] : Levels(h) /\ Ranges(w, h)
  BY DEF SearchInv
<1>3. ASSUME NEW p \in Leaves, NEW i \in DOMAIN nodes[p].keys
      PROVE  LeafOf(nodes[p].keys[i]) = p
  <2>1. p \in Used /\ NodeOK(nodes[p])
    BY <1>1, LeafNodes
  <2>2. nodes[p].keys[i] \in Keys
    BY <2>1, NodeKeys
  <2>3. nodes[p].keys[i] \in w[p]
    <3>1. ToSet(nodes[p].keys) \subseteq w[p]
      BY <1>2, <2>1 DEF Ranges, NodeRange
    <3> QED
      BY <3>1 DEF ToSet
  <2> DEFINE k == nodes[p].keys[i]
  <2> HIDE DEF k
  <2>4. k \in Keys /\ k \in w[p]
    BY <2>2, <2>3 DEF k
  <2>5. LeafOf(k) \in Leaves /\ k \in w[LeafOf(k)]
    BY <1>1, <1>2, <2>4, WayEnds
  <2>6. LeafOf(k) = p
    BY <1>1, <1>2, <2>4, <2>5, SoleLeaf
  <2> QED
    BY <2>6 DEF k
<1>4. \A p \in 0..(size - 1) : Sorted(nodes[p])
  BY <1>2 DEF Ranges, NodeRange, Used
<1> QED
  BY <1>3, <1>4 DEF EntriesInReach, Sorted

(***************************************************************************)
(* EntriesInReach, whatever keys clients insert and erase: a search for    *)
(* the key of an entry ends at its leaf, while nodes are being split too,  *)
(* and the keys of a node are in order.                                    *)
(***************************************************************************)
THEOREM EntriesAreReached == Spec => []EntriesInReach
BY SearchInvariant, AllInReach, PTL

-----------------------------------------------------------------------------
(***************************************************************************)
(* A call is on the way of its key: on each level one page is met that has *)
(* the key in reach, and its upper half if the page is being split.        *)
(***************************************************************************)

\* The first page of a level that the way of a key meets is the root or a
\* child that its parent leads to.
LEMMA LevelMet ==
  ASSUME TreeInv, NEW h \in [PageIDs -> Nat], NEW w \in [PageIDs -> SUBSET Keys],
         Levels(h), Ranges(w, h), NEW k \in Keys, NEW p \in Used
  PROVE  \E d \in 0..size :
            /\ h[Way(k)[d]] = h[p]
            /\ Way(k)[d] # root =>
                  \E x \in Used : /\ k \in w[x] /\ h[x] = h[p] + 1
                                  /\ KeyIndex(nodes[x], k) \in DOMAIN nodes[x].children
                                  /\ Way(k)[d] = nodes[x].children[KeyIndex(nodes[x], k)]
<1> DEFINE W == Way(k)
           Deep == {d \in 1..size : h[W[d]] <= h[p]}
<1>1. size \in Nat /\ size >= 1 /\ \A q \in Used : h[q] \in Nat
  BY UsedPages
<1>2. W[0] = root /\ \A d \in 1..size : W[d] = NextPage(W[d - 1], k)
  BY <1>1, WayIs
<1>3. \A d \in 0..size : W[d] \in Used /\ InReach(w, W[d], k)
  BY WayInReach
<1>4. h[W[size]] = 0 /\ size \in 0..size /\ size \in 1..size
  <2>1. W[size] \in Leaves
    BY WayEnds DEF LeafOf
  <2> QED
    BY <1>1, <2>1, LeafNodes DEF Levels, NodeLevel
<1> HIDE DEF W
<1>5. CASE h[p] = h[root]
  <2>1. 0 \in 0..size
    BY <1>1
  <2> QED
    BY <1>2, <1>5, <2>1 DEF W
<1>6. CASE h[p] # h[root]
  <2>1. h[p] < h[root]
    BY <1>1, <1>6, UsedPages DEF Ranges, NodeRange
  <2>2. size \in Deep
    BY <1>1, <1>4
  <2>3. PICK d \in Deep : \A e \in Deep : d <= e
    <3>1. Deep \in SUBSET (1..size) /\ Deep # {}
      BY <2>2
    <3> HIDE DEF Deep
    <3> QED
      BY <1>1, <3>1, LeastIndex
  <2>4. d \in 1..size /\ h[W[d]] <= h[p] /\ d - 1 \notin Deep /\ d - 1 \in 0..size /\ d \in 0..size
    BY <1>1, <2>3
  <2> DEFINE x == W[d - 1]
             q == W[d]
  <2>5. x \in Used /\ InReach(w, x, k) /\ q = NextPage(x, k) /\ q \in Used
    BY <1>2, <1>3, <2>4
  <2>6. h[x] > h[p]
    <3>1. CASE d - 1 = 0
      BY <1>1, <1>2, <2>1, <3>1, UsedPages
    <3>2. CASE d - 1 # 0
      <4>1. d - 1 \in 1..size
        BY <2>4, <3>2
      <4>2. ~(h[x] <= h[p])
        BY <2>4, <4>1
      <4> QED
        BY <1>1, <2>5, <4>2
    <3> QED
      BY <3>1, <3>2
  <2>7. h[q] <= h[p]
    BY <2>4
  <2> HIDE DEF x, q
  <2>8. /\ k \in w[x] /\ h[x] = h[q] + 1
        /\ KeyIndex(nodes[x], k) \in DOMAIN nodes[x].children
        /\ q = nodes[x].children[KeyIndex(nodes[x], k)]
    <3>1. \/ k \in w[x] /\ nodes[x].leaf /\ q = x
          \/ /\ k \in w[x] /\ h[x] = h[q] + 1
             /\ KeyIndex(nodes[x], k) \in DOMAIN nodes[x].children
             /\ q = nodes[x].children[KeyIndex(nodes[x], k)]
          \/ k \notin w[x] /\ k \in w[q] /\ h[q] = h[x]
      BY <2>5, NextInReach
    <3>2. h[q] # h[x]
      BY <1>1, <2>5, <2>6, <2>7
    <3> QED
      BY <3>1, <3>2
  <2>9. h[q] = h[p] /\ h[x] = h[p] + 1
    BY <1>1, <2>5, <2>6, <2>7, <2>8
  <2> QED
    BY <2>4, <2>5, <2>8, <2>9 DEF q, W
<1> QED
  BY <1>5, <1>6

\* The upper half of a page that is being split is met only through that page.
LEMMA HalfNotLinked ==
  ASSUME TreeInv, NEW h \in [PageIDs -> Nat], NEW w \in [PageIDs -> SUBSET Keys],
         Levels(h), Ranges(w, h), NEW k \in Keys,
         NEW p, NEW t \in Splitting(p), k \in w[call[t].new],
         NEW c, h[c] = h[p],
         c # root => \E x \in Used : /\ k \in w[x] /\ h[x] = h[p] + 1
                                     /\ KeyIndex(nodes[x], k) \in DOMAIN nodes[x].children
                                     /\ c = nodes[x].children[KeyIndex(nodes[x], k)]
  PROVE  c # call[t].new
<1>1. /\ call[t].new # root /\ call[t].new # p /\ call[t].page = p /\ p \in Used
      /\ h[call[t].new] = h[p]
  BY HalfAbove
<1>2. t \in Threads /\ CallOK(t) /\ CallRange(w, t) /\ CallLevel(h, t) /\ call[t].pc = "separate"
  BY DEF Splitting, At, TreeInv, Ranges, Levels
<1> SUFFICES ASSUME c = call[t].new PROVE FALSE
  OBVIOUS
<1>3. PICK x \in Used : /\ k \in w[x] /\ h[x] = h[p] + 1
                        /\ KeyIndex(nodes[x], k) \in DOMAIN nodes[x].children
                        /\ c = nodes[x].children[KeyIndex(nodes[x], k)]
  BY <1>1
<1>4. h[p] \in Nat /\ h[x] \in Nat /\ h[root] \in Nat
  BY <1>1, UsedPages
<1>5. CASE call[t].par = NoPage
  <2>1. p = root
    BY <1>1, <1>2, <1>5 DEF CallOK
  <2>2. h[x] <= h[root]
    BY DEF Ranges, NodeRange
  <2> QED
    BY <1>3, <1>4, <2>1, <2>2
<1>6. CASE call[t].par # NoPage
  <2> DEFINE y == call[t].par
  <2>1. y \in Used /\ h[y] = h[p] + 1
    BY <1>1, <1>2, <1>6 DEF CallOK, CallLevel
  <2>2. PICK i \in DOMAIN nodes[y].children : nodes[y].children[i] = p
    BY <1>1, <1>2, <1>6 DEF CallRange, IsChild
  <2>3. InReach(w, p, k)
    BY DEF InReach
  <2>4. k \in w[y] /\ KeyIndex(nodes[y], k) = i
    BY <2>1, <2>2, <2>3 DEF Ranges, NodeRange, ChildRanges
  <2>5. x = y
    BY <1>3, <2>1, <2>4 DEF Ranges, Apart
  <2> QED
    BY <1>1, <1>3, <2>2, <2>4, <2>5
<1> QED
  BY <1>5, <1>6

\* A page that has a key in reach is on the way of the key.
LEMMA ReachMet ==
  ASSUME TreeInv, NEW h \in [PageIDs -> Nat], NEW w \in [PageIDs -> SUBSET Keys],
         Levels(h), Ranges(w, h), NEW k \in Keys, NEW p \in Used, InReach(w, p, k)
  PROVE  \E d \in 0..size : Way(k)[d] = p
<1> DEFINE W == Way(k)
<1>1. size \in Nat
  BY UsedPages
<1>2. \A d \in 1..size : W[d] = NextPage(W[d - 1], k)
  BY <1>1, WayIs
<1>3. \A d \in 0..size : W[d] \in Used /\ InReach(w, W[d], k)
  BY WayInReach
<1>4. k \in w[W[size]]
  BY WayEnds DEF LeafOf
<1>5. PICK d \in 0..size :
            /\ h[W[d]] = h[p]
            /\ W[d] # root =>
                  \E x \in Used : /\ k \in w[x] /\ h[x] = h[p] + 1
                                  /\ KeyIndex(nodes[x], k) \in DOMAIN nodes[x].children
                                  /\ W[d] = nodes[x].children[KeyIndex(nodes[x], k)]
  BY LevelMet
<1> HIDE DEF W
<1> DEFINE c == W[d]
<1>6. c \in Used /\ InReach(w, c, k) /\ h[c] = h[p]
  BY <1>3, <1>5
<1>7. CASE k \in w[p] /\ k \in w[c]
  <2>1. c = p
    BY <1>6, <1>7 DEF Ranges, Apart
  <2> QED
    BY <2>1 DEF W
<1>8. CASE k \in w[p] /\ k \notin w[c]
  <2>1. d + 1 \in 1..size /\ d + 1 \in 0..size /\ d + 1 - 1 = d
    BY <1>1, <1>4, <1>8
  <2>2. W[d + 1] = NextPage(c, k) /\ W[d + 1] \in Used
    BY <1>2, <1>3, <2>1
  <2> HIDE DEF c
  <2>3. k \in w[W[d + 1]] /\ h[W[d + 1]] = h[c]
    BY <1>6, <1>8, <2>2, NextInReach
  <2>4. W[d + 1] = p
    BY <1>6, <1>8, <2>2, <2>3 DEF Ranges, Apart
  <2> QED
    BY <2>1, <2>4 DEF W
<1>9. CASE k \notin w[p]
  <2>1. PICK t \in Splitting(p) : k \in w[call[t].new]
    BY <1>9 DEF InReach
  <2>2. call[t].new \in Used /\ call[t].new \in InHand(t) /\ h[call[t].new] = h[p]
        /\ call[t].op # "lookup" /\ t \in Threads /\ call[t].page = p
    BY <2>1, HalfAbove DEF Splitting
  <2>3. c # call[t].new
    BY <1>5, <2>1, HalfNotLinked
  <2>4. CASE k \in w[c]
    <3>1. c = call[t].new
      BY <1>6, <2>1, <2>2, <2>4 DEF Ranges, Apart
    <3> QED
      BY <2>3, <3>1
  <2>5. CASE k \notin w[c]
    <3>1. PICK u \in Splitting(c) : k \in w[call[u].new]
      BY <1>6, <2>5 DEF InReach
    <3> HIDE DEF c
    <3>2. call[u].new \in Used /\ call[u].new \in InHand(u) /\ h[call[u].new] = h[c]
          /\ u \in Threads /\ call[u].page = c
      BY <3>1, HalfAbove DEF Splitting
    <3>3. call[u].new = call[t].new
      BY <1>6, <2>1, <2>2, <3>1, <3>2 DEF Ranges, Apart
    <3>4. u = t
      BY <2>2, <3>2, <3>3, NotShared
    <3>5. c = p
      BY <2>2, <3>2, <3>4
    <3> QED
      BY <3>5 DEF c, W
  <2> QED
    BY <2>4, <2>5
<1> QED
  BY <1>7, <1>8, <1>9

LEMMA CallsMet ==
  ASSUME SearchInv
  PROVE  OnTheWay
<1>1. TreeInv
  BY DEF SearchInv
<1>2. PICK h \in [PageIDs -> Nat], w \in [PageIDs -> SUBSET Keys] : Levels(h) /\ Ranges(w, h)
  BY DEF SearchInv
<1> SUFFICES ASSUME NEW t \in Threads, call[t].page # NoPage
             PROVE  \E d \in 0..size : Way(call[t].key)[d] = call[t].page
  BY DEF OnTheWay
<1>3. CallOK(t) /\ call[t].pc \in Labels
  BY <1>1 DEF TreeInv, TypeOK, Call
<1>4. call[t].pc \in {"find", "insert", "separate"}
  BY <1>3 DEF CallOK, Labels
<1>5. call[t].page \in Used /\ call[t].key \in Keys
  BY <1>3, <1>4 DEF CallOK
<1>6. InReach(w, call[t].page, call[t].key)
  <2>1. CASE call[t].pc \in {"find", "insert"}
    BY <1>2, <2>1 DEF Ranges, CallRange, InReach
  <2>2. CASE call[t].pc = "separate"
    <3>1. t \in Splitting(call[t].page)
      BY <2>2 DEF Splitting, At
    <3> QED
      BY <1>1, <1>2, <3>1, HalfAbove
  <2> QED
    BY <1>4, <2>1, <2>2
<1> QED
  BY <1>1, <1>2, <1>5, <1>6, ReachMet

(***************************************************************************)
(* OnTheWay, for any threads and pages: lock coupling never leaves a call  *)
(* at a page that its key has been moved away from.                        *)
(***************************************************************************)
THEOREM CallsNeverStray == Spec => []OnTheWay
BY SearchInvariant, CallsMet, PTL
=============================================================================
