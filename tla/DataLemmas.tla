----------------------------- MODULE DataLemmas -----------------------------
(***************************************************************************)
(* Facts about sequences, finite sets and folds: what the changes to the   *)
(* replacement queue (Append, Tail and RemoveAt) do to the set of its      *)
(* members and to the absence of duplicates, induction over the subsets of *)
(* a finite set, that the folds of the community modules are what their    *)
(* recursive definition says, and where FlattenSeq puts what it is given.  *)
(***************************************************************************)
EXTENDS SequencesExt, SequenceTheorems, FiniteSetTheorems, TLAPS

(***************************************************************************)
(* The members of a sequence, by position (putLRU, removeLRU and popLRU    *)
(* all speak of positions in the list).                                    *)
(***************************************************************************)
LEMMA RangeByIndex ==
  ASSUME NEW S, NEW s \in Seq(S)
  PROVE  \A x : x \in Range(s) <=> \E i \in 1..Len(s) : s[i] = x
  BY DEF Range

(***************************************************************************)
(* Of some positions one is the least.  (The well-founded order used is    *)
(* that of the intervals 1..i under strict inclusion.)                     *)
(***************************************************************************)
LEMMA LeastIndex ==
  ASSUME NEW n \in Nat, NEW D \in SUBSET (1..n), D # {}
  PROVE  \E i \in D : \A j \in D : i <= j
<1> DEFINE T == {1..i : i \in D}
<1>1. IsFiniteSet(1..n)
  BY FS_Interval
<1>2. T \subseteq SUBSET (1..n) /\ T # {}
  <2>1. ASSUME NEW i \in D PROVE 1..i \subseteq 1..n
    <3>1. i \in 1..n
      OBVIOUS
    <3> QED
      BY <3>1
  <2>2. T \subseteq SUBSET (1..n)
    BY <2>1
  <2>3. PICK i \in D : TRUE
    OBVIOUS
  <2>4. 1..i \in T
    BY <2>3
  <2> QED
    BY <2>2, <2>4
<1> HIDE DEF T
<1>3. PICK x \in T : \A y \in T : ~(<<y, x>> \in StrictSubsetOrdering(1..n))
  <2>1. IsWellFoundedOn(StrictSubsetOrdering(1..n), SUBSET (1..n))
    BY <1>1, FS_StrictSubsetOrderingWellFounded, FS_FiniteSubsetsOfFinite
  <2> QED
    BY <1>2, <2>1, WFMin
<1> USE DEF T
<1>4. PICK i \in D : x = 1..i
  OBVIOUS
<1>5. ASSUME NEW j \in D, j < i PROVE FALSE
  <2>1. 1..j \in T /\ 1..j \subseteq 1..n /\ x \subseteq 1..n
    BY <1>2
  <2>2. 1..j \subseteq x /\ i \in x /\ i \notin 1..j
    BY <1>4, <1>5
  <2>3. <<1..j, x>> \in StrictSubsetOrdering(1..n)
    BY <2>1, <2>2 DEF StrictSubsetOrdering
  <2> QED
    BY <1>3, <2>1, <2>3
<1> QED
  BY <1>4, <1>5

\* putLRU: a new member at the end.
LEMMA AppendMembers ==
  ASSUME NEW S, NEW s \in Seq(S), NEW e \in S, e \notin Range(s), IsInjective(s)
  PROVE  /\ Append(s, e) \in Seq(S)
         /\ Range(Append(s, e)) = Range(s) \cup {e}
         /\ IsInjective(Append(s, e))
<1> DEFINE a == Append(s, e)
<1>1. /\ a \in Seq(S)
      /\ Len(a) = Len(s) + 1
      /\ \A i \in 1..Len(s) : a[i] = s[i]
      /\ a[Len(s) + 1] = e
  BY AppendProperties
<1>2. DOMAIN s = 1..Len(s) /\ DOMAIN a = 1..(Len(s) + 1) /\ Len(s) \in Nat
  BY <1>1, LenProperties
<1> HIDE DEF a
<1>3. Range(a) = Range(s) \cup {e}
  <2>1. ASSUME NEW x \in Range(a) PROVE x \in Range(s) \cup {e}
    <3>1. PICK i \in 1..(Len(s) + 1) : a[i] = x
      BY <1>2 DEF Range
    <3> QED
      BY <1>1, <1>2, <3>1 DEF Range
  <2>2. ASSUME NEW x \in Range(s) \cup {e} PROVE x \in Range(a)
    BY <1>1, <1>2 DEF Range
  <2> QED
    BY <2>1, <2>2
<1>4. IsInjective(a)
  <2> SUFFICES ASSUME NEW i \in 1..(Len(s) + 1), NEW j \in 1..(Len(s) + 1),
                      a[i] = a[j]
               PROVE  i = j
    BY <1>2 DEF IsInjective
  <2> QED
    BY <1>1, <1>2 DEF IsInjective, Range
<1> QED
  BY <1>1, <1>3, <1>4 DEF a

\* popLRU: the first member goes.
LEMMA TailMembers ==
  ASSUME NEW S, NEW s \in Seq(S), s # << >>, IsInjective(s)
  PROVE  /\ Tail(s) \in Seq(S)
         /\ Head(s) \in Range(s)
         /\ Range(Tail(s)) = Range(s) \ {Head(s)}
         /\ IsInjective(Tail(s))
<1> DEFINE r == Tail(s)
<1>1. /\ r \in Seq(S)
      /\ Len(r) = Len(s) - 1
      /\ \A i \in 1..Len(r) : r[i] = s[i + 1]
      /\ Head(s) = s[1]
      /\ Len(s) \in Nat /\ Len(s) > 0
  BY HeadTailProperties, LenProperties
<1>2. DOMAIN s = 1..Len(s) /\ DOMAIN r = 1..(Len(s) - 1)
  BY <1>1, LenProperties
<1> HIDE DEF r
<1>3. IsInjective(r)
  BY <1>1, <1>2 DEF IsInjective
<1>4. Head(s) \in Range(s)
  BY <1>1, <1>2 DEF Range
<1>5. ASSUME NEW x \in Range(r) PROVE x \in Range(s) \ {Head(s)}
  <2>1. PICK i \in 1..(Len(s) - 1) : r[i] = x
    BY <1>2 DEF Range
  <2>2. x = s[i + 1] /\ i + 1 \in 1..Len(s) /\ i + 1 # 1 /\ 1 \in 1..Len(s)
    BY <1>1, <2>1
  <2> QED
    BY <1>1, <1>2, <2>2 DEF Range, IsInjective
<1>6. ASSUME NEW x \in Range(s) \ {Head(s)} PROVE x \in Range(r)
  <2>1. PICK i \in 1..Len(s) : s[i] = x
    BY <1>2 DEF Range
  <2>2. i # 1
    BY <1>1, <2>1
  <2>3. i - 1 \in 1..(Len(s) - 1) /\ r[i - 1] = x
    BY <1>1, <2>1, <2>2
  <2> QED
    BY <1>2, <2>3 DEF Range
<1> QED
  BY <1>1, <1>3, <1>4, <1>5, <1>6 DEF r

\* removeLRU: one member goes from anywhere, the others keep their order.
LEMMA RemoveAtIndex ==
  ASSUME NEW S, NEW s \in Seq(S), NEW n \in 1..Len(s)
  PROVE  /\ RemoveAt(s, n) \in Seq(S)
         /\ Len(RemoveAt(s, n)) = Len(s) - 1
         /\ \A i \in 1..(Len(s) - 1) :
               RemoveAt(s, n)[i] = IF i < n THEN s[i] ELSE s[i + 1]
<1> DEFINE u == SubSeq(s, 1, n - 1)
           w == SubSeq(s, n + 1, Len(s))
<1>1. Len(s) \in Nat
  BY LenProperties
<1>2. /\ u \in Seq(S) /\ Len(u) = n - 1
      /\ \A i \in 1..(n - 1) : u[i] = s[i]
  BY <1>1, SubSeqProperties
<1>3. /\ w \in Seq(S) /\ Len(w) = Len(s) - n
      /\ \A i \in 1..(Len(s) - n) : w[i] = s[n + i]
  BY <1>1, SubSeqProperties
<1> HIDE DEF u, w
<1>4. /\ u \o w \in Seq(S)
      /\ Len(u \o w) = Len(s) - 1
      /\ \A i \in 1..(Len(s) - 1) :
            (u \o w)[i] = IF i <= n - 1 THEN u[i] ELSE w[i - (n - 1)]
  <2>1. /\ u \o w \in Seq(S)
        /\ Len(u \o w) = Len(u) + Len(w)
        /\ \A i \in 1..(Len(u) + Len(w)) :
              (u \o w)[i] = IF i <= Len(u) THEN u[i] ELSE w[i - Len(u)]
    BY <1>2, <1>3, ConcatProperties
  <2>2. Len(u) + Len(w) = Len(s) - 1
    BY <1>1, <1>2, <1>3
  <2> QED
    BY <1>2, <2>1, <2>2
<1>5. ASSUME NEW i \in 1..(Len(s) - 1)
      PROVE  (u \o w)[i] = IF i < n THEN s[i] ELSE s[i + 1]
  <2>1. CASE i < n
    BY <1>1, <1>2, <1>4, <2>1
  <2>2. CASE ~(i < n)
    <3>1. i - (n - 1) \in 1..(Len(s) - n) /\ n + (i - (n - 1)) = i + 1
      BY <1>1, <2>2
    <3> QED
      BY <1>1, <1>3, <1>4, <2>2, <3>1
  <2> QED
    BY <2>1, <2>2
<1> QED
  BY <1>4, <1>5 DEF RemoveAt, u, w

LEMMA RemoveAtMembers ==
  ASSUME NEW S, NEW s \in Seq(S), NEW n \in 1..Len(s), IsInjective(s)
  PROVE  /\ RemoveAt(s, n) \in Seq(S)
         /\ Range(RemoveAt(s, n)) = Range(s) \ {s[n]}
         /\ IsInjective(RemoveAt(s, n))
<1> DEFINE r == RemoveAt(s, n)
<1>1. /\ r \in Seq(S)
      /\ Len(r) = Len(s) - 1
      /\ \A i \in 1..(Len(s) - 1) : r[i] = IF i < n THEN s[i] ELSE s[i + 1]
  BY RemoveAtIndex
<1>2. /\ Len(s) \in Nat /\ DOMAIN s = 1..Len(s)
      /\ DOMAIN r = 1..(Len(s) - 1)
  BY <1>1, LenProperties
<1> HIDE DEF r
<1>3. IsInjective(r)
  <2> SUFFICES ASSUME NEW i \in 1..(Len(s) - 1), NEW j \in 1..(Len(s) - 1),
                      r[i] = r[j]
               PROVE  i = j
    BY <1>2 DEF IsInjective
  <2> DEFINE k(x) == IF x < n THEN x ELSE x + 1
  <2>1. k(i) \in 1..Len(s) /\ k(j) \in 1..Len(s)
    BY <1>2
  <2>2. r[i] = s[k(i)] /\ r[j] = s[k(j)]
    BY <1>1
  <2>3. k(i) = k(j)
    BY <1>2, <2>1, <2>2 DEF IsInjective
  <2> QED
    BY <2>3
<1>4. ASSUME NEW x \in Range(r) PROVE x \in Range(s) \ {s[n]}
  <2>1. PICK i \in 1..(Len(s) - 1) : r[i] = x
    BY <1>2 DEF Range
  <2>2. PICK k \in 1..Len(s) : k # n /\ x = s[k]
    BY <1>1, <1>2, <2>1
  <2> QED
    BY <1>2, <2>2 DEF Range, IsInjective
<1>5. ASSUME NEW x \in Range(s) \ {s[n]} PROVE x \in Range(r)
  <2>1. PICK i \in 1..Len(s) : s[i] = x
    BY <1>2 DEF Range
  <2>2. i # n
    BY <2>1
  <2>3. CASE i < n
    BY <1>1, <1>2, <2>1, <2>3 DEF Range
  <2>4. CASE i > n
    <3>1. i - 1 \in 1..(Len(s) - 1) /\ r[i - 1] = x
      BY <1>1, <1>2, <2>1, <2>4
    <3> QED
      BY <1>2, <3>1 DEF Range
  <2> QED
    BY <2>2, <2>3, <2>4
<1> QED
  BY <1>1, <1>3, <1>4, <1>5 DEF r

-----------------------------------------------------------------------------
\* The least of some natural numbers.
LEMMA MinIs ==
  ASSUME NEW n \in Nat, NEW S \in SUBSET (0..n), S # {}
  PROVE  Min(S) \in S /\ \A y \in S : Min(S) <= y
<1> DEFINE D == {k \in 1..(n + 1) : k - 1 \in S}
<1>1. D \in SUBSET (1..(n + 1)) /\ n + 1 \in Nat
  OBVIOUS
<1>2. D # {}
  <2>1. PICK x \in S : TRUE
    OBVIOUS
  <2>2. x + 1 \in D
    BY <2>1
  <2> QED
    BY <2>2
<1> HIDE DEF D
<1>3. PICK d \in D : \A e \in D : d <= e
  BY <1>1, <1>2, LeastIndex
<1>4. d - 1 \in S /\ d \in Nat
  BY <1>1, <1>3 DEF D
<1>5. ASSUME NEW y \in S PROVE d - 1 <= y
  <2>1. y + 1 \in D
    BY DEF D
  <2> QED
    BY <1>3, <1>4, <2>1
<1> QED
  BY <1>4, <1>5 DEF Min

(***************************************************************************)
(* What holds of the empty set, and of a set when it holds of the set      *)
(* without any one of its members, holds of every subset of a finite set.  *)
(***************************************************************************)
LEMMA SubsetInduction ==
  ASSUME NEW S, IsFiniteSet(S), NEW D,
         \A s \in SUBSET S : (\A x \in s : s \ {x} \in D) => s \in D
  PROVE  \A s \in SUBSET S : s \in D
<1>1. IsWellFoundedOn(StrictSubsetOrdering(S), SUBSET S)
  BY FS_StrictSubsetOrderingWellFounded, FS_FiniteSubsetsOfFinite
<1> DEFINE Bad == (SUBSET S) \ D
<1> SUFFICES ASSUME Bad # {}
             PROVE  FALSE
  OBVIOUS
<1>0. Bad \subseteq SUBSET S
  OBVIOUS
<1>2. PICK s \in Bad : \A y \in Bad : ~(<<y, s>> \in StrictSubsetOrdering(S))
  <2> HIDE DEF Bad
  <2> QED
    BY <1>0, <1>1, WFMin
<1>3. ASSUME NEW x \in s PROVE s \ {x} \in D
  <2>1. s \ {x} \in SUBSET S /\ s \ {x} \subseteq s /\ s \ {x} # s
    OBVIOUS
  <2> QED
    BY <1>2, <2>1 DEF StrictSubsetOrdering
<1>4. s \in SUBSET S /\ s \notin D
  OBVIOUS
<1> QED
  BY <1>3, <1>4

(***************************************************************************)
(* The recursive function a fold is defined with exists: c says which      *)
(* member of a set is folded last, and step what is done with it.          *)
(***************************************************************************)
Chooses(c, S) == \A s \in SUBSET S : s # {} => c[s] \in s

StepsIn(step, S, V) == \A x \in S, v \in V : step[x][v] \in V

IsFold(f, S, V, base, c, step) ==
    /\ f \in [SUBSET S -> V]
    /\ \A s \in SUBSET S : f[s] = IF s = {} THEN base ELSE step[c[s]][f[s \ {c[s]}]]

LEMMA FoldExists ==
  ASSUME NEW S, IsFiniteSet(S), NEW V, NEW base \in V,
         NEW c, Chooses(c, S), NEW step, StepsIn(step, S, V)
  PROVE  \E f : IsFold(f, S, V, base, c, step)
<1> DEFINE K == Cardinality(S)
           T(n) == {s \in SUBSET S : Cardinality(s) < n}
           Is(f, n) == /\ f \in [T(n) -> V]
                       /\ \A s \in T(n) : f[s] = IF s = {} THEN base
                                                 ELSE step[c[s]][f[s \ {c[s]}]]
           Bad == {n \in 1..(K + 1) : ~\E f : Is(f, n)}
<1>1. K \in Nat
  BY FS_CardinalityType
<1>2. \A s \in SUBSET S : /\ IsFiniteSet(s) /\ Cardinality(s) \in Nat /\ Cardinality(s) <= K
                          /\ \A x \in s : Cardinality(s \ {x}) = Cardinality(s) - 1
  BY FS_Subset, FS_CardinalityType, FS_RemoveElement
<1>3. T(K + 1) = SUBSET S
  BY <1>1, <1>2
<1>4. Bad = {}
  <2> SUFFICES ASSUME Bad # {}
               PROVE  FALSE
    OBVIOUS
  <2>1. PICK n \in Bad : \A m \in Bad : n <= m
    <3>1. K + 1 \in Nat /\ Bad \in SUBSET (1..(K + 1))
      BY <1>1
    <3> QED
      BY <3>1, LeastIndex
  <2>2. n \in 1..(K + 1) /\ ~\E f : Is(f, n)
    BY <2>1
  <2>3. PICK g : Is(g, n - 1)
    <3>1. CASE n = 1
      <4>1. T(0) = {}
        BY <1>2
      <4>2. Is([s \in {} |-> base], 0)
        BY <4>1
      <4>3. n - 1 = 0
        BY <3>1
      <4> HIDE DEF Is
      <4> QED
        BY <4>2, <4>3
    <3>2. CASE n # 1
      <4>1. n - 1 \in 1..(K + 1) /\ ~(n <= n - 1)
        BY <1>1, <2>2, <3>2
      <4>2. n - 1 \notin Bad
        BY <2>1, <4>1
      <4> QED
        BY <4>1, <4>2
    <3> QED
      BY <3>1, <3>2
  <2> DEFINE f == [s \in T(n) |-> IF s \in T(n - 1) THEN g[s]
                                  ELSE IF s = {} THEN base
                                  ELSE step[c[s]][g[s \ {c[s]}]]]
  <2>4. ASSUME NEW s \in T(n), s # {}
        PROVE  c[s] \in s /\ c[s] \in S /\ s \ {c[s]} \in T(n - 1)
    BY <1>2, <2>2, <2>4 DEF Chooses
  <2>5. T(n - 1) \subseteq T(n)
    BY <1>2, <2>2
  <2>6. \A s \in T(n) : f[s] \in V
    <3> SUFFICES ASSUME NEW s \in T(n) PROVE f[s] \in V
      OBVIOUS
    <3>1. CASE s \in T(n - 1)
      BY <2>3, <3>1
    <3>2. CASE s \notin T(n - 1) /\ s # {}
      BY <2>3, <2>4, <3>2 DEF StepsIn
    <3> QED
      BY <3>1, <3>2
  <2>7. ASSUME NEW s \in T(n)
        PROVE  f[s] = IF s = {} THEN base ELSE step[c[s]][f[s \ {c[s]}]]
    <3>1. s # {} => f[s \ {c[s]}] = g[s \ {c[s]}]
      BY <2>4, <2>5
    <3>2. CASE s \in T(n - 1)
      <4>1. g[s] = IF s = {} THEN base ELSE step[c[s]][g[s \ {c[s]}]]
        BY <2>3, <3>2
      <4> QED
        BY <3>1, <3>2, <4>1
    <3>3. CASE s \notin T(n - 1)
      BY <3>1, <3>3
    <3> QED
      BY <3>2, <3>3
  <2>8. f \in [T(n) -> V]
    BY <2>6
  <2> QED
    BY <2>2, <2>7, <2>8
<1>5. PICK f : Is(f, K + 1)
  <2>1. K + 1 \in 1..(K + 1)
    BY <1>1
  <2> QED
    BY <1>4, <2>1
<1>6. f \in [SUBSET S -> V] /\ \A s \in SUBSET S :
         f[s] = IF s = {} THEN base ELSE step[c[s]][f[s \ {c[s]}]]
  BY <1>3, <1>5
<1> QED
  BY <1>6 DEF IsFold

-----------------------------------------------------------------------------
(***************************************************************************)
(* FlattenSeq: the i-th of the sequences it puts together begins after     *)
(* off[i - 1] others.                                                      *)
(***************************************************************************)
Flattens(f, seqs, k) ==
    f = [i \in 1..k |-> IF i = 1 THEN seqs[i] ELSE f[i - 1] \o seqs[i]]

LEMMA FlattenExists ==
  ASSUME NEW n \in Nat, NEW seqs, NEW k \in 1..n
  PROVE  \E f : Flattens(f, seqs, k)
<1> DEFINE Bad == {m \in 1..n : ~\E f : Flattens(f, seqs, m)}
<1> SUFFICES ASSUME Bad # {}
             PROVE  FALSE
  OBVIOUS
<1>1. PICK m \in Bad : \A l \in Bad : m <= l
  <2>1. Bad \in SUBSET (1..n)
    OBVIOUS
  <2> HIDE DEF Bad
  <2> QED
    BY <2>1, LeastIndex
<1>2. CASE m = 1
  <2> DEFINE f == [i \in 1..1 |-> seqs[i]]
  <2>1. f = [i \in 1..1 |-> IF i = 1 THEN seqs[i] ELSE f[i - 1] \o seqs[i]]
    OBVIOUS
  <2>2. Flattens(f, seqs, 1)
    BY <2>1 DEF Flattens
  <2> QED
    BY <1>2, <2>2
<1>3. CASE m > 1
  <2>1. m - 1 \in 1..n /\ m - 1 \notin Bad
    BY <1>1, <1>3
  <2>2. PICK g : Flattens(g, seqs, m - 1)
    BY <2>1
  <2> DEFINE f == [i \in 1..m |-> IF i = m THEN g[m - 1] \o seqs[m] ELSE g[i]]
  <2>3. \A i \in 1..(m - 1) : g[i] = IF i = 1 THEN seqs[i] ELSE g[i - 1] \o seqs[i]
    BY <2>2 DEF Flattens
  <2>4. ASSUME NEW i \in 1..m
        PROVE  f[i] = IF i = 1 THEN seqs[i] ELSE f[i - 1] \o seqs[i]
    <3>1. CASE i = m
      <4>1. i # 1 /\ i - 1 \in 1..m /\ i - 1 # m
        BY <1>3, <3>1
      <4>2. f[i] = g[m - 1] \o seqs[m] /\ f[i - 1] = g[i - 1]
        BY <3>1, <4>1
      <4> HIDE DEF f
      <4> QED
        BY <3>1, <4>1, <4>2
    <3>2. CASE i # m
      <4>1. i \in 1..(m - 1) /\ (i # 1 => i - 1 \in 1..m /\ i - 1 # m)
        BY <3>2
      <4>2. f[i] = g[i] /\ (i # 1 => f[i - 1] = g[i - 1])
        BY <4>1, <3>2
      <4> HIDE DEF f
      <4> QED
        BY <2>3, <4>1, <4>2
    <3> QED
      BY <3>1, <3>2
  <2>5. Flattens(f, seqs, m)
    <3>1. f = [i \in 1..m |-> f[i]]
      OBVIOUS
    <3> HIDE DEF f
    <3> QED
      BY <2>4, <3>1 DEF Flattens
  <2> QED
    BY <2>5
<1> QED
  BY <1>2, <1>3


\* What is before the i-th of the sequences, and the first k of them.
LenBefore(f, i) == IF i = 1 THEN 0 ELSE Len(f[i - 1])

PartsOf(f, seqs, V, k) ==
    /\ f[k] \in Seq(V)
    /\ Len(f[k]) = LenBefore(f, k) + Len(seqs[k])
    /\ \A i \in 1..k : \A c \in 1..Len(seqs[i]) :
          /\ LenBefore(f, i) + c \in 1..Len(f[k])
          /\ f[k][LenBefore(f, i) + c] = seqs[i][c]

LEMMA FlattensInParts ==
  ASSUME NEW V, NEW n \in Nat, NEW seqs \in [1..n -> Seq(V)],
         NEW f, Flattens(f, seqs, n)
  PROVE  \A k \in 1..n : PartsOf(f, seqs, V, k)
<1> DEFINE Bad == {k \in 1..n : ~PartsOf(f, seqs, V, k)}
<1> SUFFICES ASSUME Bad # {}
             PROVE  FALSE
  OBVIOUS
<1>1. PICK k \in Bad : \A l \in Bad : k <= l
  <2>1. Bad \in SUBSET (1..n)
    OBVIOUS
  <2> HIDE DEF Bad
  <2> QED
    BY <2>1, LeastIndex
<1>2. f[k] = (IF k = 1 THEN seqs[k] ELSE f[k - 1] \o seqs[k]) /\ seqs[k] \in Seq(V)
  BY DEF Flattens
<1>3. k \in 1..n /\ ~PartsOf(f, seqs, V, k)
  OBVIOUS
<1>4. k # 1 => PartsOf(f, seqs, V, k - 1)
  <2> SUFFICES ASSUME k # 1 PROVE PartsOf(f, seqs, V, k - 1)
    OBVIOUS
  <2>1. k - 1 \in 1..n /\ ~(k <= k - 1)
    BY <1>3
  <2>2. k - 1 \notin Bad
    <3> HIDE DEF Bad
    <3> QED
      BY <1>1, <2>1
  <2> QED
    BY <2>1, <2>2
<1> HIDE DEF Bad
<1>5. CASE k = 1
  <2>1. f[1] = seqs[1] /\ seqs[1] \in Seq(V)
    BY <1>2, <1>5
  <2> QED
    BY <1>3, <1>5, <2>1 DEF PartsOf, LenBefore
<1>6. CASE k # 1
  <2> DEFINE g == f[k - 1]
             q == seqs[k]
  <2>1. f[k] = g \o q /\ g \in Seq(V) /\ q \in Seq(V) /\ LenBefore(f, k) = Len(g)
    BY <1>2, <1>4, <1>6 DEF PartsOf, LenBefore
  <2> HIDE DEF g, q
  <2>2. /\ f[k] \in Seq(V)
        /\ Len(f[k]) = Len(g) + Len(q)
        /\ \A c \in 1..(Len(g) + Len(q)) :
              f[k][c] = IF c <= Len(g) THEN g[c] ELSE q[c - Len(g)]
    BY <2>1, ConcatProperties
  <2>3. Len(g) \in Nat /\ Len(q) \in Nat
    BY <2>1
  <2>4. ASSUME NEW i \in 1..k, NEW c \in 1..Len(seqs[i])
        PROVE  /\ LenBefore(f, i) + c \in 1..Len(f[k])
               /\ f[k][LenBefore(f, i) + c] = seqs[i][c]
    <3>1. CASE i = k
      <4>1. c \in 1..Len(q) /\ seqs[i][c] = q[c]
        BY <3>1 DEF q
      <4>2. Len(g) + c \in 1..(Len(g) + Len(q))
        BY <2>3, <4>1
      <4>3. ~(Len(g) + c <= Len(g)) /\ Len(g) + c - Len(g) = c
        BY <2>3, <4>1
      <4>4. f[k][Len(g) + c] = q[Len(g) + c - Len(g)]
        BY <2>2, <4>2, <4>3
      <4> QED
        BY <2>1, <2>2, <3>1, <4>1, <4>2, <4>3, <4>4
    <3>2. CASE i # k
      <4> DEFINE d == LenBefore(f, i) + c
      <4>1. i \in 1..(k - 1)
        BY <1>3, <3>2
      <4>2. d \in 1..Len(g) /\ g[d] = seqs[i][c]
        BY <1>4, <1>6, <4>1 DEF PartsOf, g
      <4> HIDE DEF d
      <4>3. d \in 1..(Len(g) + Len(q)) /\ d <= Len(g)
        BY <2>3, <4>2
      <4>4. d \in 1..Len(f[k]) /\ f[k][d] = g[d]
        BY <2>2, <4>3
      <4> QED
        BY <4>2, <4>4 DEF d
    <3> QED
      BY <3>1, <3>2
  <2>5. Len(f[k]) = LenBefore(f, k) + Len(seqs[k])
    BY <2>1, <2>2 DEF q
  <2> QED
    BY <1>3, <2>2, <2>4, <2>5 DEF PartsOf
<1> QED
  BY <1>5, <1>6

\* Where the sequences are in what is put together.
InParts(flat, off, seqs, n) ==
    /\ off \in [0..n -> Nat]
    /\ off[0] = 0 /\ off[n] = Len(flat)
    /\ \A i \in 1..n : off[i] = off[i - 1] + Len(seqs[i])
    /\ \A i \in 1..n : \A c \in 1..Len(seqs[i]) : flat[off[i - 1] + c] = seqs[i][c]

LEMMA FlattenParts ==
  ASSUME NEW V, NEW n \in Nat, NEW seqs \in [1..n -> Seq(V)]
  PROVE  /\ FlattenSeq(seqs) \in Seq(V)
         /\ \E off : InParts(FlattenSeq(seqs), off, seqs, n)
<1>0. Len(seqs) = n
  OBVIOUS
<1>1. CASE n = 0
  <2>1. FlattenSeq(seqs) = << >>
    <3>1. seqs = << >>
      BY <1>1
    <3> QED
      BY <1>0, <1>1, <3>1 DEF FlattenSeq
  <2> DEFINE off == [k \in 0..n |-> 0]
  <2>2. off \in [0..n -> Nat] /\ off[0] = 0 /\ off[n] = 0
    BY <1>1
  <2> HIDE DEF off
  <2>3. InParts(<< >>, off, seqs, n)
    BY <1>1, <2>2 DEF InParts
  <2> QED
    BY <2>1, <2>3
<1>2. CASE n > 0
  <2>1. PICK f : Flattens(f, seqs, n) /\ FlattenSeq(seqs) = f[n]
    <3> DEFINE F == CHOOSE g : g = [i \in 1..Len(seqs) |->
                                      IF i = 1 THEN seqs[i] ELSE g[i - 1] \o seqs[i]]
    <3>1. \E g : g = [i \in 1..Len(seqs) |-> IF i = 1 THEN seqs[i] ELSE g[i - 1] \o seqs[i]]
      <4>1. n \in 1..n
        BY <1>2
      <4>2. PICK g : Flattens(g, seqs, n)
        BY <4>1, FlattenExists
      <4> QED
        BY <1>0, <4>2 DEF Flattens
    <3>2. F = [i \in 1..Len(seqs) |-> IF i = 1 THEN seqs[i] ELSE F[i - 1] \o seqs[i]]
      BY <3>1
    <3>3. FlattenSeq(seqs) = F[Len(seqs)]
      BY <1>0, <1>2 DEF FlattenSeq
    <3> HIDE DEF F
    <3> QED
      BY <1>0, <3>2, <3>3 DEF Flattens
  <2>2. \A k \in 1..n : PartsOf(f, seqs, V, k)
    BY <2>1, FlattensInParts
  <2> DEFINE off == [k \in 0..n |-> IF k = 0 THEN 0 ELSE Len(f[k])]
  <2>3. /\ \A i \in 1..n : off[i - 1] = LenBefore(f, i) /\ off[i] = Len(f[i])
        /\ off[0] = 0 /\ off[n] = Len(f[n])
    BY <1>2 DEF LenBefore
  <2>4. off \in [0..n -> Nat]
    BY <2>2 DEF PartsOf
  <2> HIDE DEF off
  <2>5. n \in 1..n
    BY <1>2
  <2>6. \A i \in 1..n : off[i] = off[i - 1] + Len(seqs[i])
    BY <2>2, <2>3 DEF PartsOf
  <2>7. \A i \in 1..n : \A c \in 1..Len(seqs[i]) : f[n][off[i - 1] + c] = seqs[i][c]
    BY <2>2, <2>3, <2>5 DEF PartsOf
  <2>8. f[n] \in Seq(V)
    BY <2>2, <2>5 DEF PartsOf
  <2>9. InParts(f[n], off, seqs, n)
    BY <2>3, <2>4, <2>6, <2>7 DEF InParts
  <2> QED
    BY <2>1, <2>8, <2>9
<1> QED
  BY <1>1, <1>2
=============================================================================
