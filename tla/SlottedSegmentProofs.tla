------------------------- MODULE SlottedSegmentProofs -------------------------
(***************************************************************************)
(* Proofs about SlottedSegment, for any number of threads that look up,    *)
(* remove and scan beside one that also inserts and updates.  (Two that    *)
(* insert put one record on top of the other.)  The first half is about    *)
(* the operators of SlottedPage: what insert, remove, update and           *)
(* compactPage leave of a page in order.                                   *)
(***************************************************************************)
EXTENDS SlottedSegment, DataLemmas

-----------------------------------------------------------------------------
(***************************************************************************)
(* The lengths of the records in some slots, added up.                     *)
(***************************************************************************)
Total(slots, S) == FoldSet(LAMBDA i, sum : sum + slots[i].length, 0, S)

AnyOf(s) == CHOOSE x \in s : TRUE

\* f adds up the lengths of the slots in every subset of S.
Sums(f, slots, S) ==
    /\ f \in [SUBSET S -> Nat]
    /\ \A s \in SUBSET S : f[s] = IF s = {} THEN 0
                                  ELSE f[s \ {AnyOf(s)}] + slots[AnyOf(s)].length

LEMMA AnyOfIn ==
  ASSUME NEW s, s # {}
  PROVE  AnyOf(s) \in s
BY DEF AnyOf

LEMMA TotalIsFold ==
  ASSUME NEW S, IsFiniteSet(S), NEW slots, \A i \in S : slots[i].length \in Nat
  PROVE  \E f : Sums(f, slots, S) /\ Total(slots, S) = f[S]
<1> DEFINE Iter(f) == f = [s \in SUBSET S |-> IF s = {} THEN 0
                             ELSE LET x == CHOOSE x \in s : TRUE
                                  IN  f[s \ {x}] + slots[x].length]
           c == [s \in SUBSET S |-> AnyOf(s)]
           step == [x \in S |-> [v \in Nat |-> v + slots[x].length]]
           it == CHOOSE f : Iter(f)
<1>1. PICK f \in [SUBSET S -> Nat] :
         \A s \in SUBSET S : f[s] = IF s = {} THEN 0 ELSE step[c[s]][f[s \ {c[s]}]]
  <2>1. Chooses(c, S)
    BY AnyOfIn DEF Chooses
  <2>2. StepsIn(step, S, Nat)
    BY DEF StepsIn
  <2> HIDE DEF c, step
  <2>3. \E f : IsFold(f, S, Nat, 0, c, step)
    BY <2>1, <2>2, FoldExists
  <2> QED
    BY <2>3 DEF IsFold
<1>2. ASSUME NEW s \in SUBSET S
      PROVE  f[s] = IF s = {} THEN 0 ELSE f[s \ {AnyOf(s)}] + slots[AnyOf(s)].length
  <2>1. CASE s # {}
    <3>1. AnyOf(s) \in S /\ c[s] = AnyOf(s) /\ f[s \ {AnyOf(s)}] \in Nat
      BY <2>1, AnyOfIn
    <3>2. f[s] = step[AnyOf(s)][f[s \ {AnyOf(s)}]]
      BY <1>1, <2>1, <3>1
    <3> QED
      BY <2>1, <3>1, <3>2
  <2> QED
    BY <1>1, <2>1
<1>3. Iter(f)
  BY <1>2 DEF AnyOf
<1>4. Iter(it)
  BY <1>3
<1>5. Sums(it, slots, S)
  <2> HIDE DEF it
  <2>1. \A s \in SUBSET S : it[s] = IF s = {} THEN 0 ELSE it[s \ {AnyOf(s)}] + slots[AnyOf(s)].length
    BY <1>4 DEF AnyOf
  <2>2. \A s \in SUBSET S : it[s] \in Nat
    <3> DEFINE D == {s \in SUBSET S : it[s] \in Nat}
    <3>1. ASSUME NEW s \in SUBSET S, \A x \in s : s \ {x} \in D
          PROVE  s \in D
      <4>1. CASE s = {}
        <5>1. it[s] = 0 /\ s \in SUBSET S
          BY <2>1, <3>1, <4>1
        <5> QED
          BY <5>1
      <4>2. CASE s # {}
        <5>1. AnyOf(s) \in s /\ slots[AnyOf(s)].length \in Nat
          BY <4>2, AnyOfIn
        <5>2. it[s \ {AnyOf(s)}] \in Nat
          BY <3>1, <5>1
        <5>3. it[s] = it[s \ {AnyOf(s)}] + slots[AnyOf(s)].length
          BY <2>1, <4>2
        <5> QED
          BY <5>1, <5>2, <5>3
      <4> QED
        BY <4>1, <4>2
    <3> HIDE DEF D
    <3>2. \A s \in SUBSET S : s \in D
      BY <3>1, SubsetInduction
    <3> QED
      BY <3>2 DEF D
  <2>3. it \in [SUBSET S -> Nat]
    BY <1>4, <2>2
  <2> QED
    BY <2>1, <2>3 DEF Sums
<1>6. Total(slots, S) = it[S]
  BY DEF Total, FoldSet, MapThenFoldSet
<1> QED
  BY <1>5, <1>6

(***************************************************************************)
(* The sum over a subset does not depend on the set it is taken from, and  *)
(* only on the lengths.                                                    *)
(***************************************************************************)
LEMMA SumsAgree ==
  ASSUME NEW S, IsFiniteSet(S), NEW T, NEW slots1, NEW slots2,
         NEW f, Sums(f, slots1, S), NEW g, Sums(g, slots2, T),
         \A i \in S \cap T : slots1[i].length = slots2[i].length
  PROVE  \A s \in SUBSET (S \cap T) : f[s] = g[s]
<1> DEFINE U == S \cap T
           D == {s \in SUBSET U : f[s] = g[s]}
<1>1. IsFiniteSet(U)
  BY FS_Subset
<1>2. ASSUME NEW s \in SUBSET U, \A x \in s : s \ {x} \in D
      PROVE  s \in D
  <2>1. CASE s = {}
    BY <2>1 DEF Sums
  <2>2. CASE s # {}
    <3>1. AnyOf(s) \in s
      BY <2>2, AnyOfIn
    <3> QED
      BY <1>2, <2>2, <3>1 DEF Sums
  <2> QED
    BY <2>1, <2>2
<1> HIDE DEF D
<1>3. \A s \in SUBSET U : s \in D
  BY <1>1, <1>2, SubsetInduction
<1> QED
  BY <1>3 DEF D

LEMMA TotalIn ==
  ASSUME NEW S, IsFiniteSet(S), NEW slots, \A i \in S : slots[i].length \in Nat,
         NEW f, Sums(f, slots, S)
  PROVE  \A T \in SUBSET S : Total(slots, T) = f[T]
<1> SUFFICES ASSUME NEW T \in SUBSET S
             PROVE  Total(slots, T) = f[T]
  OBVIOUS
<1>1. IsFiniteSet(T)
  BY FS_Subset
<1>2. PICK g : Sums(g, slots, T) /\ Total(slots, T) = g[T]
  BY <1>1, TotalIsFold
<1>3. f[T] = g[T]
  BY <1>2, SumsAgree
<1> QED
  BY <1>2, <1>3

LEMMA TotalOfNone ==
  ASSUME NEW slots
  PROVE  Total(slots, {}) = 0
<1>1. PICK f : Sums(f, slots, {}) /\ Total(slots, {}) = f[{}]
  BY FS_EmptySet, TotalIsFold
<1> QED
  BY <1>1 DEF Sums

LEMMA TotalType ==
  ASSUME NEW S, IsFiniteSet(S), NEW slots, \A i \in S : slots[i].length \in Nat
  PROVE  Total(slots, S) \in Nat
<1>1. PICK f : Sums(f, slots, S) /\ Total(slots, S) = f[S]
  BY TotalIsFold
<1>2. S \in SUBSET S
  OBVIOUS
<1> QED
  BY <1>1, <1>2 DEF Sums

\* The space accounted for depends on lengths only.
LEMMA TotalSame ==
  ASSUME NEW S, IsFiniteSet(S), NEW slots1, NEW slots2,
         \A i \in S : slots1[i].length \in Nat /\ slots2[i].length = slots1[i].length
  PROVE  Total(slots2, S) = Total(slots1, S)
<1>1. PICK f : Sums(f, slots1, S) /\ Total(slots1, S) = f[S]
  BY TotalIsFold
<1>2. PICK g : Sums(g, slots2, S) /\ Total(slots2, S) = g[S]
  BY TotalIsFold
<1>3. f[S] = g[S]
  BY <1>1, <1>2, SumsAgree
<1> QED
  BY <1>1, <1>2, <1>3

\* Any slot may be taken out of the sum (the fold takes a certain one).
LEMMA TotalSplit ==
  ASSUME NEW S, IsFiniteSet(S), NEW slots, \A i \in S : slots[i].length \in Nat,
         NEW x \in S
  PROVE  Total(slots, S) = Total(slots, S \ {x}) + slots[x].length
<1>1. PICK f : Sums(f, slots, S)
  BY TotalIsFold
<1> DEFINE D == {s \in SUBSET S : \A y \in s : f[s] = f[s \ {y}] + slots[y].length}
<1>2. ASSUME NEW s \in SUBSET S, \A z \in s : s \ {z} \in D
      PROVE  s \in D
  <2> SUFFICES ASSUME NEW y \in s
               PROVE  f[s] = f[s \ {y}] + slots[y].length
    OBVIOUS
  <2> DEFINE z == AnyOf(s)
  <2>1. z \in s
    BY AnyOfIn
  <2> HIDE DEF z
  <2>2. f[s] = f[s \ {z}] + slots[z].length
    BY <1>1, <2>1 DEF Sums, z
  <2>3. CASE y # z
    <3>1. f[s \ {z}] = f[(s \ {z}) \ {y}] + slots[y].length
      BY <1>2, <2>1, <2>3
    <3>2. f[s \ {y}] = f[(s \ {y}) \ {z}] + slots[z].length
      BY <1>2, <2>1, <2>3
    <3>3. (s \ {y}) \ {z} = (s \ {z}) \ {y}
      OBVIOUS
    <3> DEFINE rest == f[(s \ {z}) \ {y}]
    <3>4. rest \in Nat
      BY <1>1 DEF Sums
    <3>5. slots[y].length \in Nat /\ slots[z].length \in Nat
      BY <2>1
    <3>6. f[s] = rest + slots[y].length + slots[z].length
      BY <2>2, <3>1
    <3>7. f[s \ {y}] = rest + slots[z].length
      BY <3>2, <3>3
    <3> HIDE DEF rest
    <3> QED
      BY <3>4, <3>5, <3>6, <3>7
  <2> QED
    BY <2>2, <2>3
<1> HIDE DEF D
<1>3. \A s \in SUBSET S : s \in D
  BY <1>2, SubsetInduction
<1>4. f[S] = f[S \ {x}] + slots[x].length
  BY <1>3 DEF D
<1> QED
  BY <1>1, <1>4, TotalIn

\* Slots without a record may be left out.
LEMMA TotalOfUsed ==
  ASSUME NEW S, IsFiniteSet(S), NEW slots, \A i \in S : slots[i].length \in Nat,
         NEW T \in SUBSET S, \A i \in S \ T : slots[i].length = 0
  PROVE  Total(slots, T) = Total(slots, S)
<1> DEFINE E == S \ T
           D == {s \in SUBSET E : Total(slots, T \cup s) = Total(slots, T)}
<1>1. ASSUME NEW s \in SUBSET E, \A x \in s : s \ {x} \in D
      PROVE  s \in D
  <2>1. CASE s = {}
    <3>1. T \cup s = T
      BY <2>1
    <3> QED
      BY <3>1
  <2>2. CASE s # {}
    <3>1. PICK x \in s : TRUE
      BY <2>2
    <3>2. s \ {x} \in D /\ slots[x].length = 0 /\ x \in T \cup s
      BY <1>1, <3>1
    <3>3. (T \cup s) \ {x} = T \cup (s \ {x})
      BY <3>1
    <3>4. IsFiniteSet(T \cup s) /\ \A i \in T \cup s : slots[i].length \in Nat
      BY FS_Subset
    <3>5. Total(slots, T \cup s) = Total(slots, (T \cup s) \ {x}) + slots[x].length
      BY <3>2, <3>4, TotalSplit
    <3>6. Total(slots, T) \in Nat
      BY FS_Subset, TotalType
    <3>7. Total(slots, T \cup (s \ {x})) = Total(slots, T)
      BY <3>2
    <3>8. Total(slots, (T \cup s) \ {x}) = Total(slots, T)
      BY <3>3, <3>7
    <3>9. Total(slots, T \cup s) = Total(slots, T)
      BY <3>2, <3>5, <3>6, <3>8
    <3> QED
      BY <3>9
  <2> QED
    BY <2>1, <2>2
<1>2. IsFiniteSet(E)
  BY FS_Subset
<1> HIDE DEF D
<1>3. \A s \in SUBSET E : s \in D
  BY <1>1, <1>2, SubsetInduction
<1>4. T \cup E = S /\ E \in D
  BY <1>3
<1> QED
  BY <1>4 DEF D

\* One slot gets another length.
LEMMA TotalChanged ==
  ASSUME NEW S, IsFiniteSet(S), NEW slots, NEW new, NEW i \in S,
         \A j \in S : slots[j].length \in Nat /\ new[j].length \in Nat,
         \A j \in S \ {i} : new[j].length = slots[j].length
  PROVE  Total(new, S) = Total(slots, S) - slots[i].length + new[i].length
<1> DEFINE R == S \ {i}
<1>1. IsFiniteSet(R) /\ Total(slots, R) \in Nat /\ Total(new, R) = Total(slots, R)
  BY FS_Subset, TotalSame, TotalType
<1>2. Total(slots, S) = Total(slots, R) + slots[i].length
  BY TotalSplit
<1>3. Total(new, S) = Total(new, R) + new[i].length
  BY TotalSplit
<1> QED
  BY <1>1, <1>2, <1>3

-----------------------------------------------------------------------------
(***************************************************************************)
(* A page in order.  Slots without a record have length 0, so sums and     *)
(* layout are stated for all slots.                                        *)
(***************************************************************************)
SlotOK(s) ==
    /\ s \in Slot /\ s.offset >= 0
    /\ IsFree(s) => s.length = 0
    /\ IsIndirection(s) => s.length = 0 /\ s.target \in TIDs

Inside(s, from) == s.length > 0 => from <= s.offset /\ s.offset + s.length <= BlockSize

Apart(s1, s2) == \/ s1.length = 0 \/ s2.length = 0
                 \/ s1.offset + s1.length <= s2.offset
                 \/ s2.offset + s2.length <= s1.offset

SlotsOK(page) ==
    \A i \in SlotIDs : /\ SlotOK(page.slots[i])
                       /\ i >= page.header.slotCount => IsFree(page.slots[i])

\* firstFreeSlot is the first free slot, or the number of slots.
CacheOK(page) ==
    LET h == page.header IN
    /\ h.firstFreeSlot <= h.slotCount
    /\ h.firstFreeSlot < h.slotCount => IsFree(page.slots[h.firstFreeSlot])
    /\ \A i \in 0..(h.firstFreeSlot - 1) : ~IsFree(page.slots[i])

SpaceOK(page) ==
    page.header.freeSpace = BlockSize - HeaderSize - SlotSize * page.header.slotCount
                              - Total(page.slots, SlotIDs)

LayoutOK(page) ==
    /\ HeaderSize + SlotSize * page.header.slotCount <= page.header.dataStart
    /\ page.header.dataStart <= BlockSize
    /\ \A i \in SlotIDs : Inside(page.slots[i], page.header.dataStart)
    /\ \A i, j \in SlotIDs : i # j => Apart(page.slots[i], page.slots[j])

PageOK(page) == /\ page \in Page /\ SlotsOK(page) /\ CacheOK(page)
                /\ SpaceOK(page) /\ LayoutOK(page)

(***************************************************************************)
(* What a slot is to the calls: nothing, the way to another, or a record.  *)
(***************************************************************************)
Void == [kind |-> "free", to |-> NoTID, rec |-> << >>]
Way(tid) == [kind |-> "way", to |-> tid, rec |-> << >>]
Rec(r) == [kind |-> "record", to |-> NoTID, rec |-> r]

ViewOf(page, i) ==
    LET s == page.slots[i]
    IN  IF IsFree(s) THEN Void
        ELSE IF IsIndirection(s) THEN Way(s.target)
        ELSE Rec(ReadRecord(page, s))

\* Only the slots in C look different.
Others(P, Q, C) == \A j \in SlotIDs \ C : ViewOf(Q, j) = ViewOf(P, j)

LEMMA Sizes ==
  /\ MaxSlots \in Nat /\ IsFiniteSet(SlotIDs)
  /\ \A n \in Nat : /\ SlotSize * n \in Nat
                    /\ (n + 1) * SlotSize = SlotSize * n + SlotSize
                    /\ SlotSize * (n + 1) = SlotSize * n + SlotSize
                    /\ HeaderSize + SlotSize * (n + 1) <= BlockSize => n + 1 <= MaxSlots
<1>0. /\ BlockSize \in Nat /\ HeaderSize \in Nat \ {0} /\ SlotSize \in Nat \ {0}
      /\ HeaderSize + SlotSize <= BlockSize
  BY SizesAssumption
<1>1. MaxSlots \in Nat
  BY <1>0 DEF MaxSlots
<1>2. IsFiniteSet(SlotIDs)
  BY <1>1, FS_Interval DEF SlotIDs
<1>3. ASSUME NEW n \in Nat
      PROVE  /\ SlotSize * n \in Nat
             /\ (n + 1) * SlotSize = SlotSize * n + SlotSize
             /\ SlotSize * (n + 1) = SlotSize * n + SlotSize
  BY <1>0
<1>4. ASSUME NEW n \in Nat, HeaderSize + SlotSize * (n + 1) <= BlockSize
      PROVE  n + 1 <= MaxSlots
  <2>1. (n + 1) * SlotSize <= BlockSize - HeaderSize
    BY <1>0, <1>3, <1>4
  <2>2. BlockSize - HeaderSize \in Nat
    BY <1>0
  <2> DEFINE c == n + 1
             m == SlotSize
             x == BlockSize - HeaderSize
  <2>3. c \in Nat /\ m \in Nat \ {0} /\ x \in Nat /\ c * m <= x
    BY <1>0, <2>1, <2>2
  <2>4. c <= x \div m
    <3> HIDE DEF c, m, x
    <3> QED
      BY <2>3
  <2> QED
    BY <2>4 DEF MaxSlots
<1> QED
  BY <1>1, <1>2, <1>3, <1>4

LEMMA FiniteSlots == IsFiniteSet(SlotIDs)
BY Sizes

LEMMA SlotsFit ==
  ASSUME NEW n \in Nat, HeaderSize + SlotSize * (n + 1) <= BlockSize
  PROVE  n + 1 <= MaxSlots
BY Sizes

LEMMA SizeSteps ==
  ASSUME NEW n \in Nat
  PROVE  SlotSize * n \in Nat /\ SlotSize * (n + 1) = SlotSize * n + SlotSize
BY Sizes

LEMMA SmallMod ==
  ASSUME NEW m \in Nat, NEW x \in 0..(m - 1)
  PROVE  x % m = x
OBVIOUS

\* A slot looks the same if it is the same and the data under it is.
LEMMA ViewKept ==
  ASSUME NEW P \in Page, NEW Q \in Page, NEW j \in SlotIDs, Q.slots[j] = P.slots[j],
         \A k \in 0..(BlockSize - 1) :
            /\ P.slots[j].offset <= k /\ k < P.slots[j].offset + P.slots[j].length
            => Q.data[k] = P.data[k]
  PROVE  ViewOf(Q, j) = ViewOf(P, j)
<1> DEFINE s == P.slots[j]
<1>1. s \in Slot /\ s.offset \in Int /\ s.length \in Nat
  BY SizesAssumption DEF Page, Slot
<1>2. DOMAIN P.data = 0..(BlockSize - 1) /\ DOMAIN Q.data = 0..(BlockSize - 1)
  BY DEF Page
<1>3. ASSUME NEW k \in 1..s.length
      PROVE  UnitAt(Q.data, s.offset + k - 1) = UnitAt(P.data, s.offset + k - 1)
  <2>1. s.offset + k - 1 \in Int /\ s.offset <= s.offset + k - 1
        /\ s.offset + k - 1 < s.offset + s.length
    BY <1>1
  <2> QED
    BY <1>2, <2>1 DEF UnitAt
<1>4. ReadRecord(Q, s) = ReadRecord(P, s)
  BY <1>3 DEF ReadRecord
<1> QED
  BY <1>4 DEF ViewOf

\* What is read is as long as the slot says.
LEMMA ReadType ==
  ASSUME NEW P \in Page, NEW s \in Slot
  PROVE  /\ ReadRecord(P, s) \in Seq(Units \cup {Junk})
         /\ Len(ReadRecord(P, s)) = s.length
<1>1. s.offset \in Int /\ s.length \in Nat
  BY SizesAssumption DEF Slot
<1>2. \A k \in Int : UnitAt(P.data, k) \in Units \cup {Junk}
  BY DEF UnitAt, Page
<1>3. \A k \in 1..s.length : UnitAt(P.data, s.offset + k - 1) \in Units \cup {Junk}
  BY <1>1, <1>2
<1>4. ReadRecord(P, s) \in [1..s.length -> Units \cup {Junk}]
  BY <1>3 DEF ReadRecord
<1> QED
  BY <1>1, <1>4, SeqDef

\* What is known of the numbers in a page that is in order.
LEMMA PageFacts ==
  ASSUME NEW P, PageOK(P)
  PROVE  /\ P \in Page
         /\ BlockSize \in Nat /\ HeaderSize \in Nat \ {0} /\ SlotSize \in Nat \ {0}
         /\ SizeModulus \in Nat /\ SizeModulus > BlockSize
         /\ P.header.slotCount \in 0..MaxSlots /\ MaxSlots \in Nat
         /\ P.header.firstFreeSlot \in 0..MaxSlots
         /\ P.header.dataStart \in Int /\ P.header.freeSpace \in Nat
         /\ SlotSize * P.header.slotCount \in Nat
         /\ \A i \in SlotIDs : /\ i \in Nat /\ i < MaxSlots
                               /\ P.slots[i] \in Slot
                               /\ P.slots[i].offset \in Nat /\ P.slots[i].length \in Nat
                               /\ P.slots[i].length <= BlockSize
                               /\ ~IsFree(P.slots[i]) => i < P.header.slotCount
                               /\ P.slots[i].length > 0 => P.slots[i].offset >= 2
         /\ Total(P.slots, SlotIDs) \in Nat
<1>1. /\ BlockSize \in Nat /\ HeaderSize \in Nat \ {0} /\ SlotSize \in Nat \ {0}
      /\ SizeModulus \in Nat /\ SizeModulus > BlockSize
  BY SizesAssumption
<1>2. MaxSlots \in Nat /\ IsFiniteSet(SlotIDs)
  BY Sizes
<1>3. P \in Page /\ P.header \in Header /\ P.slots \in [SlotIDs -> Slot]
  BY DEF PageOK, Page
<1>4. /\ P.header.slotCount \in 0..MaxSlots
      /\ P.header.firstFreeSlot \in 0..MaxSlots
      /\ P.header.dataStart \in Int
      /\ P.header.freeSpace \in 0..(SizeModulus - 1)
  BY <1>3 DEF Header
<1>5. ASSUME NEW i \in SlotIDs
      PROVE  /\ i \in Nat /\ i < MaxSlots
             /\ P.slots[i] \in Slot
             /\ P.slots[i].offset \in Nat /\ P.slots[i].length \in Nat
             /\ P.slots[i].length <= BlockSize
             /\ ~IsFree(P.slots[i]) => i < P.header.slotCount
             /\ P.slots[i].length > 0 => P.slots[i].offset >= 2
  <2>1. i \in Nat /\ i < MaxSlots
    BY <1>2 DEF SlotIDs
  <2>2. P.slots[i] \in Slot /\ SlotOK(P.slots[i])
        /\ (i >= P.header.slotCount => IsFree(P.slots[i]))
    BY <1>3 DEF PageOK, SlotsOK
  <2>3. /\ P.slots[i].offset \in Nat /\ P.slots[i].length \in Nat
        /\ P.slots[i].length <= BlockSize
    BY <1>1, <2>2 DEF Slot, SlotOK
  <2> QED
    BY <1>4, <2>1, <2>2, <2>3 DEF SlotOK, IsFree, IsIndirection
<1>6. Total(P.slots, SlotIDs) \in Nat
  BY <1>2, <1>5, TotalType
<1>7. SlotSize * P.header.slotCount \in Nat
  BY <1>4, Sizes
<1> QED
  BY <1>1, <1>2, <1>3, <1>4, <1>5, <1>6, <1>7

\* Nothing that an insert counts on is taken away.
Gives(P, Q) == /\ Q.header.slotCount = P.header.slotCount
               /\ Q.header.freeSpace >= P.header.freeSpace
               /\ Q.header.dataStart >= P.header.dataStart

\* Data is touched only where the record of slot i was.
TouchedIn(P, Q, i) ==
    \A k \in 0..(BlockSize - 1) :
        \/ Q.data[k] = P.data[k]
        \/ P.slots[i].offset <= k /\ k < P.slots[i].offset + P.slots[i].length

(***************************************************************************)
(* A page stays in order when one slot of it that was not free changes,    *)
(* without taking more room.                                               *)
(***************************************************************************)
LEMMA SlotChanged ==
  ASSUME NEW P, PageOK(P), NEW i \in SlotIDs, ~IsFree(P.slots[i]),
         NEW Q \in Page, NEW s, SlotOK(s), Q.slots = [P.slots EXCEPT ![i] = s],
         TouchedIn(P, Q, i),
         Q.header.slotCount = P.header.slotCount,
         Q.header.firstFreeSlot = IF IsFree(s) /\ i < P.header.firstFreeSlot THEN i
                                  ELSE P.header.firstFreeSlot,
         Q.header.freeSpace = P.header.freeSpace + P.slots[i].length - s.length,
         P.header.dataStart <= Q.header.dataStart, Q.header.dataStart <= BlockSize,
         Inside(s, Q.header.dataStart),
         \A j \in SlotIDs \ {i} : /\ Inside(P.slots[j], Q.header.dataStart)
                                  /\ Apart(s, P.slots[j])
  PROVE  PageOK(Q) /\ Others(P, Q, {i})
<1> DEFINE h == P.header
<1>1. /\ P \in Page /\ P.slots \in [SlotIDs -> Slot] /\ h \in Header
      /\ Q.slots[i] = s
      /\ \A j \in SlotIDs \ {i} : Q.slots[j] = P.slots[j]
  BY PageFacts DEF Page
<1>2. SlotsOK(Q)
  <2>1. i < h.slotCount
    BY PageFacts
  <2> QED
    BY <1>1, <2>1, PageFacts DEF PageOK, SlotsOK
<1>3. CacheOK(Q)
  <2>1. \A k \in 0..(h.firstFreeSlot - 1) : k \in SlotIDs
    BY PageFacts DEF SlotIDs
  <2>2. i < h.slotCount /\ i \in Nat
    BY PageFacts
  <2>3. CacheOK(P)
    BY DEF PageOK
  <2>4. h.firstFreeSlot < h.slotCount => h.firstFreeSlot \in SlotIDs
    BY PageFacts, SMTT(30) DEF SlotIDs
  <2>5. h.firstFreeSlot \in Nat /\ h.slotCount \in Nat
    BY PageFacts
  <2>6. CASE IsFree(s) /\ i < h.firstFreeSlot
    <3>1. \A k \in 0..(i - 1) : k \in SlotIDs \ {i} /\ k \in 0..(h.firstFreeSlot - 1)
      BY <2>1, <2>2, <2>5, <2>6
    <3> QED
      BY <1>1, <2>2, <2>3, <2>5, <2>6, <3>1 DEF CacheOK
  <2>7. CASE ~(IsFree(s) /\ i < h.firstFreeSlot)
    <3>1. Q.header.firstFreeSlot = h.firstFreeSlot
      BY <2>7
    <3>2. \A k \in 0..(h.firstFreeSlot - 1) : ~IsFree(Q.slots[k])
      BY <1>1, <2>1, <2>3, <2>5, <2>7 DEF CacheOK
    <3>3. h.firstFreeSlot < h.slotCount => IsFree(Q.slots[h.firstFreeSlot])
      BY <1>1, <2>3, <2>4 DEF CacheOK
    <3> QED
      BY <2>3, <3>1, <3>2, <3>3 DEF CacheOK
  <2> QED
    BY <2>6, <2>7
<1>4. SpaceOK(Q)
  <2>1. s.length \in Nat
    BY SizesAssumption DEF SlotOK, Slot
  <2>2. Total(Q.slots, SlotIDs) = Total(P.slots, SlotIDs) - P.slots[i].length + s.length
    <3>1. \A j \in SlotIDs : P.slots[j].length \in Nat /\ Q.slots[j].length \in Nat
      BY <1>1, <2>1, PageFacts
    <3>2. \A j \in SlotIDs \ {i} : Q.slots[j].length = P.slots[j].length
      BY <1>1
    <3> HIDE DEF h
    <3> QED
      BY <1>1, <3>1, <3>2, Sizes, TotalChanged
  <2>3. SpaceOK(P)
    BY DEF PageOK
  <2> QED
    BY <2>1, <2>2, <2>3, PageFacts DEF SpaceOK
<1>5. LayoutOK(Q)
  <2>1. HeaderSize + SlotSize * Q.header.slotCount <= Q.header.dataStart
    <3>1. HeaderSize + SlotSize * h.slotCount <= h.dataStart
      BY DEF PageOK, LayoutOK
    <3>2. Q.header.dataStart \in Int
      BY DEF Page, Header
    <3> QED
      BY <3>1, <3>2, PageFacts
  <2>2. \A j \in SlotIDs : Inside(Q.slots[j], Q.header.dataStart)
    BY <1>1
  <2>3. \A j, k \in SlotIDs : j # k => Apart(Q.slots[j], Q.slots[k])
    <3> SUFFICES ASSUME NEW j \in SlotIDs, NEW k \in SlotIDs, j # k
                 PROVE  Apart(Q.slots[j], Q.slots[k])
      OBVIOUS
    <3>1. CASE j = i
      BY <1>1, <3>1
    <3>2. CASE k = i
      <4>1. Apart(s, P.slots[j]) /\ Q.slots[k] = s /\ Q.slots[j] = P.slots[j]
        BY <1>1, <3>2
      <4> QED
        BY <4>1 DEF Apart
    <3>3. CASE j # i /\ k # i
      BY <1>1, <3>3 DEF PageOK, LayoutOK
    <3> QED
      BY <3>1, <3>2, <3>3
  <2> QED
    BY <2>1, <2>2, <2>3 DEF LayoutOK
<1>6. Others(P, Q, {i})
  <2> SUFFICES ASSUME NEW j \in SlotIDs \ {i}
               PROVE  ViewOf(Q, j) = ViewOf(P, j)
    BY DEF Others
  <2>1. Apart(P.slots[i], P.slots[j])
    BY DEF PageOK, LayoutOK
  <2>2. ASSUME NEW k \in 0..(BlockSize - 1), P.slots[j].offset <= k,
               k < P.slots[j].offset + P.slots[j].length
        PROVE  Q.data[k] = P.data[k]
    BY <2>1, <2>2, PageFacts DEF Apart, TouchedIn
  <2> QED
    BY <1>1, <2>2, ViewKept
<1> QED
  BY <1>2, <1>3, <1>4, <1>5, <1>6 DEF PageOK

(***************************************************************************)
(* remove and update: a slot that led to another page is given up.         *)
(***************************************************************************)
LEMMA FreedSlotOK ==
  ASSUME NEW P, PageOK(P), NEW i \in SlotIDs,
         ~IsFree(P.slots[i]), P.slots[i].length = 0
  PROVE  LET Q == FreedSlot(P, i)
         IN  /\ PageOK(Q) /\ ViewOf(Q, i) = Void /\ Others(P, Q, {i})
             /\ Gives(P, Q)
<1> DEFINE Q == FreedSlot(P, i)
           h == P.header
<1>0. /\ P \in Page /\ h \in Header /\ P.slots \in [SlotIDs -> Slot]
  BY PageFacts DEF Page
<1>1. /\ Q.header = [h EXCEPT !.firstFreeSlot = IF i < @ THEN i ELSE @]
      /\ Q.slots = [P.slots EXCEPT ![i] = FreeSlot] /\ Q.data = P.data
  BY <1>0 DEF FreedSlot, LowerFirstFree, Page
<1>2. FreeSlot \in Slot /\ SlotOK(FreeSlot) /\ IsFree(FreeSlot) /\ FreeSlot.length = 0
  BY SizesAssumption DEF FreeSlot, Slot, SlotOK, IsFree, IsIndirection
<1>3. /\ Q.header.slotCount = h.slotCount
      /\ Q.header.freeSpace = h.freeSpace
      /\ Q.header.dataStart = h.dataStart
      /\ Q.header.firstFreeSlot = IF i < h.firstFreeSlot THEN i ELSE h.firstFreeSlot
      /\ Q.header \in Header
  <2>1. (IF i < h.firstFreeSlot THEN i ELSE h.firstFreeSlot) \in 0..MaxSlots
    BY PageFacts
  <2> QED
    BY <1>0, <1>1, <2>1 DEF Header
<1>4. Q \in Page
  BY <1>0, <1>1, <1>2, <1>3 DEF Page, FreedSlot
<1>5. Q.slots[i] = FreeSlot
  BY <1>0, <1>1
<1> HIDE DEF Q
<1>6. \A j \in SlotIDs : Inside(P.slots[j], Q.header.dataStart) /\ Apart(FreeSlot, P.slots[j])
  BY <1>2, <1>3 DEF PageOK, LayoutOK, Apart
<1>7. PageOK(Q) /\ Others(P, Q, {i})
  <2>1. TouchedIn(P, Q, i)
    BY <1>1 DEF TouchedIn
  <2>2. Inside(FreeSlot, Q.header.dataStart)
    BY <1>2 DEF Inside
  <2>3. /\ h.dataStart <= Q.header.dataStart /\ Q.header.dataStart <= BlockSize
        /\ Q.header.freeSpace = h.freeSpace + P.slots[i].length - FreeSlot.length
    BY <1>2, <1>3, PageFacts DEF PageOK, LayoutOK
  <2> QED
    BY <1>1, <1>2, <1>3, <1>4, <1>6, <2>1, <2>2, <2>3, SlotChanged
<1>8. ViewOf(Q, i) = Void
  BY <1>2, <1>5 DEF ViewOf
<1>9. Gives(P, Q)
  BY <1>3, PageFacts DEF Gives
<1> QED
  BY <1>7, <1>8, <1>9 DEF Q

\* Giving space back does not make the free space more than a page has.
LEMMA SpaceBack ==
  ASSUME NEW P, PageOK(P), NEW i \in SlotIDs, NEW n \in Nat, n <= P.slots[i].length
  PROVE  P.header.freeSpace + P.slots[i].length - n \in 0..(SizeModulus - 1)
<1>1. Total(P.slots, SlotIDs \ {i}) \in Nat
      /\ Total(P.slots, SlotIDs) = Total(P.slots, SlotIDs \ {i}) + P.slots[i].length
  <2>1. \A j \in SlotIDs : P.slots[j].length \in Nat
    BY PageFacts
  <2>2. IsFiniteSet(SlotIDs) /\ IsFiniteSet(SlotIDs \ {i})
    BY Sizes, FS_Subset
  <2> QED
    BY <2>1, <2>2, TotalType, TotalSplit
<1>2. SpaceOK(P)
  BY DEF PageOK
<1> QED
  BY <1>1, <1>2, PageFacts DEF SpaceOK

\* remove: the record goes, with its slot.
LEMMA RecordRemovedOK ==
  ASSUME NEW P, PageOK(P), NEW i \in SlotIDs, ~IsFree(P.slots[i]), ~IsIndirection(P.slots[i])
  PROVE  LET Q == RecordRemoved(P, i)
         IN  /\ PageOK(Q) /\ ViewOf(Q, i) = Void /\ Others(P, Q, {i})
             /\ Gives(P, Q)
<1> DEFINE Q == RecordRemoved(P, i)
           h == P.header
           o == P.slots[i]
           start == IF o.offset = h.dataStart THEN h.dataStart + o.length ELSE h.dataStart
<1>0. /\ P \in Page /\ h \in Header /\ P.slots \in [SlotIDs -> Slot]
      /\ P.data \in [0..(BlockSize - 1) -> Units \cup {Junk}]
  BY PageFacts DEF Page
<1>1. /\ Q.header = [h EXCEPT !.firstFreeSlot = IF i < @ THEN i ELSE @, !.dataStart = start,
                              !.freeSpace = @ + o.length]
      /\ Q.slots = [P.slots EXCEPT ![i] = FreeSlot]
      /\ Q.data = Cleared(P.data, Area(o))
  BY <1>0 DEF RecordRemoved, FreedSlot, LowerFirstFree, Page, Header
<1>2. FreeSlot \in Slot /\ SlotOK(FreeSlot) /\ IsFree(FreeSlot) /\ FreeSlot.length = 0
  BY SizesAssumption DEF FreeSlot, Slot, SlotOK, IsFree, IsIndirection
<1>3. h.freeSpace + o.length \in 0..(SizeModulus - 1) /\ start \in Int
  <2>1. o.length \in Nat /\ h.freeSpace \in Nat
    BY PageFacts
  <2>2. h.freeSpace + o.length - 0 \in 0..(SizeModulus - 1)
    BY <2>1, SpaceBack
  <2> QED
    BY <2>1, <2>2, PageFacts
<1>4. /\ Q.header.slotCount = h.slotCount
      /\ Q.header.freeSpace = h.freeSpace + o.length
      /\ Q.header.dataStart = start
      /\ Q.header.firstFreeSlot = IF i < h.firstFreeSlot THEN i ELSE h.firstFreeSlot
      /\ Q.header \in Header
  <2>1. (IF i < h.firstFreeSlot THEN i ELSE h.firstFreeSlot) \in 0..MaxSlots
    BY PageFacts
  <2> QED
    BY <1>0, <1>1, <1>3, <2>1 DEF Header
<1>5. Q.data \in [0..(BlockSize - 1) -> Units \cup {Junk}]
  BY <1>0, <1>1 DEF Cleared
<1>6. Q \in Page
  BY <1>0, <1>1, <1>2, <1>4, <1>5 DEF Page, RecordRemoved, FreedSlot
<1>7. Q.slots[i] = FreeSlot
  BY <1>0, <1>1
<1> HIDE DEF Q, start
<1>8. h.dataStart <= start /\ start <= BlockSize
  BY PageFacts DEF PageOK, LayoutOK, Inside, start
<1>9. ASSUME NEW j \in SlotIDs \ {i}
      PROVE  Inside(P.slots[j], start) /\ Apart(FreeSlot, P.slots[j])
  <2>1. Inside(P.slots[j], h.dataStart) /\ Apart(o, P.slots[j]) /\ Inside(o, h.dataStart)
    BY DEF PageOK, LayoutOK
  <2> QED
    BY <1>2, <2>1, PageFacts DEF Inside, Apart, start
<1>10. PageOK(Q) /\ Others(P, Q, {i})
  <2>1. TouchedIn(P, Q, i)
    BY <1>0, <1>1, PageFacts DEF TouchedIn, Cleared, Area
  <2>2. Inside(FreeSlot, Q.header.dataStart)
    BY <1>2 DEF Inside
  <2>3. Q.header.freeSpace = h.freeSpace + P.slots[i].length - FreeSlot.length
    BY <1>2, <1>4, PageFacts
  <2> QED
    BY <1>1, <1>2, <1>4, <1>6, <1>8, <1>9, <2>1, <2>2, <2>3, SlotChanged
<1>11. ViewOf(Q, i) = Void
  BY <1>2, <1>7 DEF ViewOf
<1>12. Gives(P, Q)
  BY <1>4, <1>8, PageFacts DEF Gives
<1> QED
  BY <1>10, <1>11, <1>12 DEF Q

\* Reading back what has been stored.
LEMMA StoredReads ==
  ASSUME NEW Q \in Page, NEW s, NEW r \in Seq(Units), NEW d, DOMAIN d = 0..(BlockSize - 1),
         Q.data = Stored(d, s.offset, r), s.length = Len(r), s.offset \in Nat,
         Len(r) > 0 => s.offset + Len(r) <= BlockSize
  PROVE  ReadRecord(Q, s) = r
<1>1. Len(r) \in Nat /\ r = [k \in 1..Len(r) |-> r[k]]
  BY SizesAssumption
<1>2. ASSUME NEW k \in 1..Len(r)
      PROVE  UnitAt(Q.data, s.offset + k - 1) = r[k]
  <2>1. s.offset + k - 1 \in 0..(BlockSize - 1)
        /\ s.offset + k - 1 \in s.offset..(s.offset + Len(r) - 1)
        /\ (s.offset + k - 1) - s.offset + 1 = k
    BY <1>1, SizesAssumption
  <2> QED
    BY <2>1 DEF Stored, UnitAt
<1> QED
  BY <1>1, <1>2 DEF ReadRecord

LEMMA StoredType ==
  ASSUME NEW d \in [0..(BlockSize - 1) -> Units \cup {Junk}], NEW o \in Int, NEW r \in Seq(Units)
  PROVE  Stored(d, o, r) \in [0..(BlockSize - 1) -> Units \cup {Junk}]
<1>1. Len(r) \in Nat
  OBVIOUS
<1>2. \A k \in 0..(BlockSize - 1) : k \in o..(o + Len(r) - 1) => r[k - o + 1] \in Units
  <2> SUFFICES ASSUME NEW k \in 0..(BlockSize - 1), k \in o..(o + Len(r) - 1)
               PROVE  r[k - o + 1] \in Units
    OBVIOUS
  <2>1. k - o + 1 \in 1..Len(r)
    BY <1>1
  <2> QED
    BY <2>1
<1> QED
  BY <1>2 DEF Stored

\* The record of a slot is replaced by one of length n, which is not longer.
Shortened(P, i, n, data) ==
    [P EXCEPT !.slots[i].length = n,
              !.header.freeSpace = @ + P.slots[i].length - n,
              !.data = data]

LEMMA ShortenedOK ==
  ASSUME NEW P, PageOK(P), NEW i \in SlotIDs, ~IsFree(P.slots[i]), ~IsIndirection(P.slots[i]),
         NEW n \in Nat, n <= P.slots[i].length,
         NEW data \in [0..(BlockSize - 1) -> Units \cup {Junk}],
         \A k \in 0..(BlockSize - 1) :
            \/ data[k] = P.data[k]
            \/ P.slots[i].offset <= k /\ k < P.slots[i].offset + P.slots[i].length
  PROVE  LET Q == Shortened(P, i, n, data)
             s == Q.slots[i]
         IN  /\ PageOK(Q) /\ Others(P, Q, {i}) /\ Q.data = data
             /\ s.offset = P.slots[i].offset /\ s.length = n
             /\ ~IsFree(s) /\ ~IsIndirection(s)
             /\ n > 0 => s.offset + n <= BlockSize
<1> DEFINE Q == Shortened(P, i, n, data)
           h == P.header
           o == P.slots[i]
           s == [o EXCEPT !.length = n]
<1>0. /\ P \in Page /\ h \in Header /\ P.slots \in [SlotIDs -> Slot] /\ o \in Slot
      /\ o.offset \in Nat /\ o.length \in 0..BlockSize /\ n \in 0..BlockSize
  BY PageFacts DEF Page
<1>1. /\ Q.header = [h EXCEPT !.freeSpace = @ + o.length - n]
      /\ Q.slots = [P.slots EXCEPT ![i] = s]
      /\ Q.data = data
  BY <1>0 DEF Shortened, Page, Header, Slot
<1>2. /\ s.offset = o.offset /\ s.length = n
      /\ s \in Slot /\ SlotOK(s) /\ ~IsFree(s) /\ ~IsIndirection(s)
  <2>1. s.offset = o.offset /\ s.length = n /\ s \in Slot
    BY <1>0 DEF Slot
  <2> QED
    BY <1>0, <2>1 DEF SlotOK, IsFree, IsIndirection
<1>3. h.freeSpace + o.length - n \in 0..(SizeModulus - 1)
  BY SpaceBack
<1>4. /\ Q.header.slotCount = h.slotCount
      /\ Q.header.freeSpace = h.freeSpace + o.length - n
      /\ Q.header.dataStart = h.dataStart
      /\ Q.header.firstFreeSlot = h.firstFreeSlot
      /\ Q.header \in Header
  BY <1>0, <1>1, <1>3 DEF Header
<1>7. Q \in Page
  <2>1. Q.slots \in [SlotIDs -> Slot]
    BY <1>0, <1>1, <1>2
  <2> HIDE DEF s
  <2> QED
    BY <1>0, <1>1, <1>4, <2>1 DEF Page, Shortened
<1>8. Q.slots[i] = s
  BY <1>0, <1>1
<1> HIDE DEF Q, s
<1>9. Inside(o, h.dataStart) /\ LayoutOK(P)
  BY DEF PageOK, LayoutOK
<1>10. PageOK(Q) /\ Others(P, Q, {i})
  <2>1. TouchedIn(P, Q, i)
    BY <1>1 DEF TouchedIn
  <2>2. Inside(s, Q.header.dataStart)
    BY <1>0, <1>2, <1>4, <1>9, PageFacts, SMTT(30) DEF Inside
  <2>3. \A j \in SlotIDs \ {i} : Inside(P.slots[j], Q.header.dataStart) /\ Apart(s, P.slots[j])
    <3> SUFFICES ASSUME NEW j \in SlotIDs \ {i}
                 PROVE  Inside(P.slots[j], Q.header.dataStart) /\ Apart(s, P.slots[j])
      OBVIOUS
    <3>1. Inside(P.slots[j], h.dataStart) /\ Apart(o, P.slots[j])
      BY <1>9 DEF LayoutOK
    <3>2. P.slots[j].offset \in Nat /\ P.slots[j].length \in Nat /\ n <= o.length
      BY PageFacts
    <3> QED
      BY <1>0, <1>2, <1>4, <3>1, <3>2 DEF Apart
  <2>4. /\ h.dataStart <= Q.header.dataStart /\ Q.header.dataStart <= BlockSize
        /\ Q.header.freeSpace = h.freeSpace + P.slots[i].length - s.length
        /\ Q.header.firstFreeSlot = IF IsFree(s) /\ i < h.firstFreeSlot THEN i ELSE h.firstFreeSlot
    BY <1>2, <1>4, <1>9, PageFacts DEF LayoutOK
  <2> QED
    BY <1>1, <1>2, <1>4, <1>7, <2>1, <2>2, <2>3, <2>4, SlotChanged
<1>11. n > 0 => o.offset + n <= BlockSize
  BY <1>0, <1>9, PageFacts, SMTT(30) DEF Inside
<1> QED
  BY <1>1, <1>2, <1>8, <1>10, <1>11 DEF Q

\* update with a record that is not longer.
LEMMA ReplacedOK ==
  ASSUME NEW P, PageOK(P), NEW i \in SlotIDs, ~IsFree(P.slots[i]), ~IsIndirection(P.slots[i]),
         NEW r \in Seq(Units), Len(r) <= P.slots[i].length
  PROVE  LET Q == ReplacedInPlace(P, i, r)
         IN  PageOK(Q) /\ ViewOf(Q, i) = Rec(r) /\ Others(P, Q, {i})
<1> DEFINE o == P.slots[i]
           cleared == Cleared(P.data, Area(o))
           data == Stored(cleared, o.offset, r)
           Q == Shortened(P, i, Len(r), data)
<1>1. ReplacedInPlace(P, i, r) = Q
  BY DEF ReplacedInPlace, Shortened
<1>2. /\ Len(r) \in Nat /\ o.offset \in Nat /\ o.length \in Nat
      /\ P.data \in [0..(BlockSize - 1) -> Units \cup {Junk}]
  BY PageFacts DEF Page
<1>3. cleared \in [0..(BlockSize - 1) -> Units \cup {Junk}]
  BY <1>2 DEF Cleared
<1>4. data \in [0..(BlockSize - 1) -> Units \cup {Junk}]
  BY <1>2, <1>3, StoredType
<1>5. \A k \in 0..(BlockSize - 1) : data[k] = P.data[k] \/ (o.offset <= k /\ k < o.offset + o.length)
  <2> SUFFICES ASSUME NEW k \in 0..(BlockSize - 1), ~(o.offset <= k /\ k < o.offset + o.length)
               PROVE  data[k] = P.data[k]
    OBVIOUS
  <2>1. k \notin o.offset..(o.offset + o.length - 1) /\ k \notin o.offset..(o.offset + Len(r) - 1)
    BY <1>2
  <2>2. cleared[k] = P.data[k]
    BY <1>2, <2>1 DEF Cleared, Area
  <2> QED
    BY <1>3, <2>1, <2>2 DEF Stored
<1> DEFINE s == Q.slots[i]
<1> HIDE DEF data, cleared, Q, s
<1>6. /\ PageOK(Q) /\ Others(P, Q, {i}) /\ Q.data = data
      /\ s.offset = o.offset /\ s.length = Len(r)
      /\ ~IsFree(s) /\ ~IsIndirection(s)
      /\ Len(r) > 0 => s.offset + Len(r) <= BlockSize
  BY <1>2, <1>4, <1>5, ShortenedOK DEF Q, s
<1>7. ReadRecord(Q, s) = r
  <2>1. Q.data = Stored(cleared, s.offset, r) /\ DOMAIN cleared = 0..(BlockSize - 1) /\ Q \in Page
    BY <1>3, <1>6 DEF data, PageOK
  <2> QED
    BY <1>2, <1>6, <2>1, StoredReads
<1>8. ViewOf(Q, i) = Rec(r)
  BY <1>6, <1>7 DEF ViewOf, s
<1> QED
  BY <1>1, <1>6, <1>8

\* update with a longer record, before it is inserted again.
LEMMA DroppedOK ==
  ASSUME NEW P, PageOK(P), NEW i \in SlotIDs, ~IsFree(P.slots[i]), ~IsIndirection(P.slots[i])
  PROVE  LET Q == RecordDropped(P, i)
         IN  PageOK(Q) /\ ViewOf(Q, i) = Rec(<< >>) /\ Others(P, Q, {i})
<1> DEFINE o == P.slots[i]
           data == Cleared(P.data, Area(o))
           Q == Shortened(P, i, 0, data)
<1>1. /\ o.offset \in Nat /\ o.length \in Nat /\ P.header.freeSpace \in Nat
      /\ P.data \in [0..(BlockSize - 1) -> Units \cup {Junk}] /\ P \in Page
  BY PageFacts DEF Page
<1>2. RecordDropped(P, i) = Q
  <2>1. P.header.freeSpace + o.length - 0 = P.header.freeSpace + o.length
    BY <1>1
  <2> QED
    BY <1>1, <2>1 DEF RecordDropped, Shortened, Page, Header, Slot
<1>4. data \in [0..(BlockSize - 1) -> Units \cup {Junk}]
  BY <1>1 DEF Cleared
<1>5. \A k \in 0..(BlockSize - 1) : data[k] = P.data[k] \/ (o.offset <= k /\ k < o.offset + o.length)
  <2> SUFFICES ASSUME NEW k \in 0..(BlockSize - 1), ~(o.offset <= k /\ k < o.offset + o.length)
               PROVE  data[k] = P.data[k]
    OBVIOUS
  <2>1. k \notin o.offset..(o.offset + o.length - 1)
    BY <1>1
  <2> QED
    BY <1>1, <2>1 DEF Cleared, Area
<1> DEFINE s == Q.slots[i]
<1> HIDE DEF data, Q, s
<1>6. /\ PageOK(Q) /\ Others(P, Q, {i}) /\ s.length = 0
      /\ ~IsFree(s) /\ ~IsIndirection(s)
  <2>1. PICK n \in Nat : n = 0
    OBVIOUS
  <2>2. n <= P.slots[i].length /\ Q = Shortened(P, i, n, data)
    BY <1>1, <2>1 DEF Q
  <2>3. LET R == Shortened(P, i, n, data)
            u == R.slots[i]
        IN  /\ PageOK(R) /\ Others(P, R, {i}) /\ R.data = data
            /\ u.offset = P.slots[i].offset /\ u.length = n
            /\ ~IsFree(u) /\ ~IsIndirection(u)
            /\ n > 0 => u.offset + n <= BlockSize
    BY <1>4, <1>5, <2>2, ShortenedOK
  <2> QED
    BY <2>1, <2>2, <2>3 DEF s
<1>7. ReadRecord(Q, s) = << >>
  BY <1>6 DEF ReadRecord
<1>8. ViewOf(Q, i) = Rec(<< >>)
  BY <1>6, <1>7 DEF ViewOf, s
<1> QED
  BY <1>2, <1>6, <1>8

\* update: a slot is made to lead to another page.
LEMMA RedirectedOK ==
  ASSUME NEW P, PageOK(P), NEW i \in SlotIDs, ~IsFree(P.slots[i]), P.slots[i].length = 0,
         NEW tid \in TIDs
  PROVE  LET Q == [P EXCEPT !.slots[i] = Indirection(tid)]
         IN  /\ PageOK(Q) /\ ViewOf(Q, i) = Way(tid) /\ Others(P, Q, {i})
             /\ Gives(P, Q)
<1> DEFINE Q == [P EXCEPT !.slots[i] = Indirection(tid)]
           h == P.header
           s == Indirection(tid)
<1>0. /\ P \in Page /\ h \in Header /\ P.slots \in [SlotIDs -> Slot]
  BY PageFacts DEF Page
<1>1. Q.header = h /\ Q.slots = [P.slots EXCEPT ![i] = s] /\ Q.data = P.data
  BY <1>0 DEF Page
<1>2. s \in Slot /\ SlotOK(s) /\ ~IsFree(s) /\ IsIndirection(s) /\ s.length = 0 /\ s.target = tid
  BY SizesAssumption DEF Indirection, Slot, SlotOK, IsFree, IsIndirection
<1>4. Q \in Page
  <2> HIDE DEF s
  <2> QED
    BY <1>0, <1>1, <1>2 DEF Page
<1>5. Q.slots[i] = s
  BY <1>0, <1>1
<1> HIDE DEF Q, s
<1>7. PageOK(Q) /\ Others(P, Q, {i})
  <2>1. TouchedIn(P, Q, i)
    BY <1>1 DEF TouchedIn
  <2>2. Inside(s, Q.header.dataStart)
    BY <1>2 DEF Inside
  <2>3. /\ h.dataStart <= Q.header.dataStart /\ Q.header.dataStart <= BlockSize
        /\ Q.header.freeSpace = h.freeSpace + P.slots[i].length - s.length
        /\ Q.header.slotCount = h.slotCount
        /\ Q.header.firstFreeSlot = IF IsFree(s) /\ i < h.firstFreeSlot THEN i ELSE h.firstFreeSlot
    BY <1>1, <1>2, PageFacts DEF PageOK, LayoutOK
  <2>4. \A j \in SlotIDs : Inside(P.slots[j], Q.header.dataStart) /\ Apart(s, P.slots[j])
    BY <1>1, <1>2 DEF PageOK, LayoutOK, Apart
  <2> QED
    BY <1>1, <1>2, <1>4, <2>1, <2>2, <2>3, <2>4, SlotChanged
<1>8. ViewOf(Q, i) = Way(tid)
  BY <1>2, <1>5 DEF ViewOf
<1>9. Gives(P, Q)
  BY <1>1, PageFacts DEF Gives
<1> QED
  BY <1>7, <1>8, <1>9 DEF Q

LEMMA NextFreeIs ==
  ASSUME NEW slots, NEW n \in Nat, NEW a \in 0..n
  PROVE  LET m == NextFree(slots, a, n)
         IN  /\ m \in a..n
             /\ m < n => IsFree(slots[m])
             /\ \A k \in a..(m - 1) : ~IsFree(slots[k])
<1> DEFINE S == {k \in a..(n - 1) : IsFree(slots[k])} \cup {n}
<1>1. S \in SUBSET (0..n) /\ S # {}
  OBVIOUS
<1>2. Min(S) \in S /\ \A y \in S : Min(S) <= y
  <2> HIDE DEF S
  <2> QED
    BY <1>1, MinIs
<1>3. NextFree(slots, a, n) = Min(S)
  BY DEF NextFree
<1> DEFINE m == NextFree(slots, a, n)
<1>4. m \in a..n /\ (m < n => IsFree(slots[m]))
  BY <1>2, <1>3
<1>5. ASSUME NEW k \in a..(m - 1) PROVE ~IsFree(slots[k])
  <2>1. k \in a..(n - 1) /\ ~(m <= k)
    BY <1>4
  <2>2. k \notin S
    BY <1>2, <1>3, <2>1
  <2> QED
    BY <2>1, <2>2
<1> QED
  BY <1>4, <1>5

(***************************************************************************)
(* insert: a page with room for one more slot and a record of length n.    *)
(***************************************************************************)
HasRoom(h, n) == /\ n + SlotSize <= h.freeSpace
                 /\ HeaderSize + SlotSize * (h.slotCount + 1) + n <= h.dataStart

\* The page with the record's place allocated and data copied.
Placed(P, n, data) ==
    LET new == Allocated(P.header, P.slots, n)
    IN  [header |-> new,
         slots |-> [P.slots EXCEPT ![NewSlotID(P.header)] =
                      [offset |-> new.dataStart, length |-> n, target |-> NoTID]],
         data |-> data]

LEMMA AllocatedOK ==
  ASSUME NEW P, PageOK(P), NEW n \in Nat, HasRoom(P.header, n)
  PROVE  LET h == P.header
             i == NewSlotID(h)
             new == Allocated(h, P.slots, n)
         IN  /\ i \in SlotIDs /\ IsFree(P.slots[i]) /\ P.slots[i].length = 0
             /\ new \in Header
             /\ new.dataStart = h.dataStart - n /\ new.dataStart >= 2
             /\ h.slotCount <= new.slotCount /\ i < new.slotCount
             /\ HeaderSize + SlotSize * new.slotCount <= new.dataStart
             /\ new.freeSpace = h.freeSpace - n - SlotSize * (new.slotCount - h.slotCount)
             /\ SlotSize * new.slotCount = SlotSize * h.slotCount
                                            + SlotSize * (new.slotCount - h.slotCount)
             /\ new.firstFreeSlot <= new.slotCount
             /\ new.firstFreeSlot < new.slotCount => new.firstFreeSlot \in SlotIDs \ {i}
                                                     /\ IsFree(P.slots[new.firstFreeSlot])
             /\ \A k \in 0..(new.firstFreeSlot - 1) : k \in SlotIDs /\ (k = i \/ ~IsFree(P.slots[k]))
<1> DEFINE h == P.header
           i == NewSlotID(h)
           new == Allocated(h, P.slots, n)
           c == h.slotCount
           f == h.firstFreeSlot
<1>0. /\ c \in 0..MaxSlots /\ f \in 0..MaxSlots /\ MaxSlots \in Nat
      /\ h.dataStart \in Int /\ h.freeSpace \in Nat /\ h.freeSpace < SizeModulus
      /\ BlockSize \in Nat /\ HeaderSize \in Nat \ {0} /\ SlotSize \in Nat \ {0}
      /\ SizeModulus \in Nat
      /\ h.dataStart <= BlockSize
  <2>1. h \in Header /\ h.dataStart <= BlockSize
    BY DEF PageOK, Page, LayoutOK
  <2>2. h.freeSpace < SizeModulus
    BY <2>1, PageFacts DEF Header
  <2> QED
    BY <2>1, <2>2, PageFacts
<1>p. SlotSize * c \in Nat /\ SlotSize * (c + 1) = SlotSize * c + SlotSize
  <2>1. c \in Nat
    BY <1>0
  <2> QED
    BY <2>1, SizeSteps
<1>1. /\ n + SlotSize <= h.freeSpace
      /\ HeaderSize + SlotSize * (c + 1) + n <= h.dataStart
  BY DEF HasRoom
<1>2. /\ f <= c
      /\ f < c => IsFree(P.slots[f])
      /\ \A k \in 0..(f - 1) : ~IsFree(P.slots[k])
  BY DEF PageOK, CacheOK
<1>3. \A k \in SlotIDs : k >= c => IsFree(P.slots[k])
  BY DEF PageOK, SlotsOK
<1>4. \A k \in SlotIDs : IsFree(P.slots[k]) => P.slots[k].length = 0
  BY DEF PageOK, SlotsOK, SlotOK
<1>5. c + 1 <= MaxSlots
  <2>1. HeaderSize + SlotSize * (c + 1) <= BlockSize
    BY <1>0, <1>1, <1>p
  <2>2. c \in Nat
    BY <1>0
  <2> QED
    BY <2>1, <2>2, SlotsFit
<1>6. \A k \in 0..c : k \in SlotIDs
  BY <1>0, <1>5 DEF SlotIDs
<1>7. /\ new.slotCount = IF f < c THEN c ELSE c + 1
      /\ new.firstFreeSlot = IF f < c THEN NextFree(P.slots, f + 1, c) ELSE c + 1
      /\ new.freeSpace = Less(h.freeSpace, IF f < c THEN n ELSE SlotSize + n)
      /\ new.dataStart = h.dataStart - n
      /\ new = [slotCount |-> new.slotCount, firstFreeSlot |-> new.firstFreeSlot,
                freeSpace |-> new.freeSpace, dataStart |-> new.dataStart]
      /\ i = IF f < c THEN f ELSE c
  BY DEF Allocated, Reuses, NewSlotID
<1>8. /\ h.freeSpace - n \in 0..(SizeModulus - 1)
      /\ h.freeSpace - (SlotSize + n) \in 0..(SizeModulus - 1)
  BY <1>0, <1>1
<1>9. /\ Less(h.freeSpace, n) = h.freeSpace - n
      /\ Less(h.freeSpace, SlotSize + n) = h.freeSpace - (SlotSize + n)
  BY <1>0, <1>8, SmallMod DEF Less
<1>10. new.dataStart \in Int /\ new.dataStart >= 2
  <2>1. new.dataStart = h.dataStart - n
    BY <1>7
  <2>2. PICK a \in Nat, b \in Nat : a = SlotSize * c /\ b = SlotSize * (c + 1)
    BY <1>0, <1>p
  <2>3. HeaderSize + b + n <= h.dataStart
    BY <1>1, <2>2
  <2>4. b = a + SlotSize
    BY <1>p, <2>2
  <2> HIDE DEF new, h, c
  <2> QED
    BY <1>0, <2>1, <2>3, <2>4
<1> HIDE DEF new, i
<1>11. CASE f < c
  <2> DEFINE m == NextFree(P.slots, f + 1, c)
  <2>1. /\ m \in (f + 1)..c
        /\ m < c => IsFree(P.slots[m])
        /\ \A k \in (f + 1)..(m - 1) : ~IsFree(P.slots[k])
    <3>1. c \in Nat /\ f + 1 \in 0..c
      BY <1>0, <1>11
    <3> QED
      BY <3>1, NextFreeIs
  <2>2. /\ new.slotCount = c /\ new.firstFreeSlot = m /\ i = f
        /\ new.freeSpace = h.freeSpace - n
    BY <1>7, <1>9, <1>11
  <2> HIDE DEF m
  <2>3. new \in Header
    BY <1>0, <1>7, <1>8, <1>10, <2>1, <2>2 DEF Header
  <2>4. \A k \in 0..(m - 1) : k \in SlotIDs /\ (k = f \/ ~IsFree(P.slots[k]))
    BY <1>0, <1>2, <1>6, <2>1
  <2>5. SlotSize * (c - c) = 0 /\ HeaderSize + SlotSize * c <= h.dataStart - n
    BY <1>0, <1>1, <1>p
  <2>6. m < c => m \in SlotIDs \ {f} /\ IsFree(P.slots[m])
    BY <1>0, <1>6, <2>1
  <2> QED
    BY <1>0, <1>p, <1>2, <1>4, <1>6, <1>7, <1>10, <1>11, <2>1, <2>2, <2>3, <2>4, <2>5, <2>6 DEF new, i
<1>12. CASE ~(f < c)
  <2>1. f = c
    BY <1>0, <1>2, <1>12
  <2>2. /\ new.slotCount = c + 1 /\ new.firstFreeSlot = c + 1 /\ i = c
        /\ new.freeSpace = h.freeSpace - (SlotSize + n)
    BY <1>7, <1>9, <1>12
  <2>3. new \in Header
    BY <1>0, <1>5, <1>7, <1>8, <1>10, <2>2 DEF Header
  <2>4. \A k \in 0..c : k \in SlotIDs /\ (k = c \/ ~IsFree(P.slots[k]))
    BY <1>0, <1>2, <1>6, <2>1
  <2>5. SlotSize * ((c + 1) - c) = SlotSize /\ HeaderSize + SlotSize * (c + 1) <= h.dataStart - n
    BY <1>0, <1>1, <1>p
  <2>6. c \in SlotIDs /\ IsFree(P.slots[c]) /\ P.slots[c].length = 0
    BY <1>0, <1>3, <1>4, <1>6
  <2>7. (c + 1) - 1 = c /\ h.freeSpace - (SlotSize + n) = h.freeSpace - n - SlotSize
    BY <1>0
  <2> QED
    BY <1>0, <1>p, <1>7, <1>10, <2>2, <2>3, <2>4, <2>5, <2>6, <2>7 DEF new, i
<1> QED
  BY <1>11, <1>12

LEMMA PlacedOK ==
  ASSUME NEW P, PageOK(P), NEW n \in Nat, HasRoom(P.header, n),
         NEW data \in [0..(BlockSize - 1) -> Units \cup {Junk}],
         \A k \in 0..(BlockSize - 1) :
            \/ data[k] = P.data[k]
            \/ P.header.dataStart - n <= k /\ k < P.header.dataStart
  PROVE  LET Q == Placed(P, n, data)
             i == NewSlotID(P.header)
             s == Q.slots[i]
         IN  /\ PageOK(Q) /\ Others(P, Q, {i}) /\ Q.data = data
             /\ s.offset = P.header.dataStart - n /\ s.offset >= 2
             /\ s.length = n /\ s.offset + n <= BlockSize
<1> DEFINE h == P.header
           i == NewSlotID(h)
           new == Allocated(h, P.slots, n)
           s == [offset |-> new.dataStart, length |-> n, target |-> NoTID]
           Q == Placed(P, n, data)
<1>0. /\ P \in Page /\ P.slots \in [SlotIDs -> Slot] /\ h.dataStart \in Int
      /\ h.slotCount \in Nat /\ h.freeSpace \in Nat /\ h.firstFreeSlot \in Nat
      /\ BlockSize \in Nat /\ HeaderSize \in Nat \ {0} /\ SlotSize \in Nat \ {0}
  BY PageFacts DEF Page
<1>1. /\ i \in SlotIDs /\ IsFree(P.slots[i]) /\ P.slots[i].length = 0
      /\ new \in Header
      /\ new.dataStart = h.dataStart - n /\ new.dataStart >= 2
      /\ h.slotCount <= new.slotCount /\ i < new.slotCount
      /\ HeaderSize + SlotSize * new.slotCount <= new.dataStart
      /\ new.freeSpace = h.freeSpace - n - SlotSize * (new.slotCount - h.slotCount)
      /\ SlotSize * new.slotCount = SlotSize * h.slotCount
                                     + SlotSize * (new.slotCount - h.slotCount)
      /\ new.firstFreeSlot <= new.slotCount
      /\ new.firstFreeSlot < new.slotCount => new.firstFreeSlot \in SlotIDs \ {i}
                                              /\ IsFree(P.slots[new.firstFreeSlot])
      /\ \A k \in 0..(new.firstFreeSlot - 1) : k \in SlotIDs /\ (k = i \/ ~IsFree(P.slots[k]))
  BY AllocatedOK
<1>2. Q.header = new /\ Q.slots = [P.slots EXCEPT ![i] = s] /\ Q.data = data
      /\ Q = [header |-> new, slots |-> [P.slots EXCEPT ![i] = s], data |-> data]
  BY DEF Placed
<1>3. /\ new.dataStart \in Int /\ new.slotCount \in Nat /\ new.firstFreeSlot \in Nat
  BY <1>1 DEF Header
<1> HIDE DEF new, i, Q
<1>4. h.dataStart <= BlockSize /\ n <= BlockSize
  <2>1. h.dataStart <= BlockSize
    BY DEF PageOK, LayoutOK
  <2> QED
    BY <1>0, <1>1, <2>1
<1>5. /\ s.offset = new.dataStart /\ s.length = n
      /\ s \in Slot /\ SlotOK(s) /\ ~IsFree(s)
  BY <1>0, <1>1, <1>3, <1>4, SMTT(30) DEF Slot, SlotOK, IsFree, IsIndirection
<1> HIDE DEF s
<1>6. Q \in Page
  BY <1>0, <1>1, <1>2, <1>5 DEF Page
<1>7. Q.slots[i] = s /\ \A j \in SlotIDs \ {i} : Q.slots[j] = P.slots[j]
  BY <1>0, <1>1, <1>2
<1>8. SlotsOK(Q)
  <2>1. \A j \in SlotIDs : j \in Nat
    BY PageFacts
  <2>2. SlotsOK(P)
    BY DEF PageOK
  <2> QED
    <3> SUFFICES ASSUME NEW j \in SlotIDs
                 PROVE  SlotOK(Q.slots[j]) /\ (j >= new.slotCount => IsFree(Q.slots[j]))
      BY <1>2 DEF SlotsOK
    <3>1. CASE j = i
      BY <1>1, <1>3, <1>5, <1>7, <2>1, <3>1
    <3>2. CASE j # i
      <4>1. j >= new.slotCount => j >= h.slotCount
        BY <1>0, <1>1, <1>3, <2>1, SMTT(30)
      <4> QED
        BY <1>7, <2>2, <3>2, <4>1 DEF SlotsOK
    <3> QED
      BY <3>1, <3>2
<1>9. CacheOK(Q)
  BY <1>1, <1>2, <1>5, <1>7 DEF CacheOK
<1>10. SpaceOK(Q)
  <2>1. Total(Q.slots, SlotIDs) = Total(P.slots, SlotIDs) - P.slots[i].length + Q.slots[i].length
    <3>1. \A j \in SlotIDs : P.slots[j].length \in Nat /\ Q.slots[j].length \in Nat
      BY <1>5, <1>7, PageFacts
    <3>2. \A j \in SlotIDs \ {i} : Q.slots[j].length = P.slots[j].length
      BY <1>7
    <3>3. i \in SlotIDs
      BY <1>1
    <3> DEFINE u == P.slots
               v == Q.slots
    <3>4. /\ \A j \in SlotIDs : u[j].length \in Nat /\ v[j].length \in Nat
          /\ \A j \in SlotIDs \ {i} : v[j].length = u[j].length
      BY <3>1, <3>2
    <3> HIDE DEF u, v
    <3>5. Total(v, SlotIDs) = Total(u, SlotIDs) - u[i].length + v[i].length
      <4>1. PICK w, x, z : w = u /\ x = v /\ z = i
        OBVIOUS
      <4>2. \A j \in SlotIDs : w[j].length \in Nat /\ x[j].length \in Nat
        BY <3>4, <4>1
      <4>3. \A j \in SlotIDs \ {z} : x[j].length = w[j].length
        BY <3>4, <4>1
      <4>4. Total(x, SlotIDs) = Total(w, SlotIDs) - w[z].length + x[z].length
        BY <3>3, <4>1, <4>2, <4>3, FiniteSlots, TotalChanged
      <4> QED
        BY <4>1, <4>4
    <3> QED
      BY <3>5 DEF u, v
  <2>2. Total(Q.slots, SlotIDs) = Total(P.slots, SlotIDs) + n /\ Total(P.slots, SlotIDs) \in Nat
    BY <1>1, <1>5, <1>7, <2>1, PageFacts
  <2>3. SpaceOK(P)
    BY DEF PageOK
  <2>4. SlotSize * h.slotCount \in Nat /\ SlotSize * new.slotCount \in Nat
    BY <1>0, <1>3, SizeSteps
  <2>5. PICK x \in Nat, y \in Nat : x = SlotSize * h.slotCount /\ y = SlotSize * new.slotCount
    BY <2>4
  <2>6. PICK z \in Int : z = SlotSize * (new.slotCount - h.slotCount)
    BY <1>0, <1>3
  <2>7. /\ y = x + z /\ new.freeSpace = h.freeSpace - n - z
        /\ h.freeSpace = BlockSize - HeaderSize - x - Total(P.slots, SlotIDs)
    BY <1>1, <2>3, <2>5, <2>6 DEF SpaceOK
  <2>8. new.freeSpace = BlockSize - HeaderSize - y - Total(Q.slots, SlotIDs)
    BY <1>0, <2>2, <2>7
  <2> QED
    BY <1>2, <2>5, <2>8 DEF SpaceOK
<1>11. \A j \in SlotIDs \ {i} : /\ Inside(P.slots[j], h.dataStart)
                                /\ P.slots[j].offset \in Nat /\ P.slots[j].length \in Nat
  BY PageFacts DEF PageOK, LayoutOK
<1>12. LayoutOK(Q)
  <2>1. new.dataStart <= BlockSize
    BY <1>0, <1>1, <1>4
  <2>2. \A j \in SlotIDs \ {i} : Inside(P.slots[j], new.dataStart) /\ Apart(s, P.slots[j])
                                 /\ Apart(P.slots[j], s)
    <3> SUFFICES ASSUME NEW j \in SlotIDs \ {i}
                 PROVE  /\ Inside(P.slots[j], new.dataStart) /\ Apart(s, P.slots[j])
                        /\ Apart(P.slots[j], s)
      OBVIOUS
    <3>1. /\ Inside(P.slots[j], h.dataStart)
          /\ P.slots[j].offset \in Nat /\ P.slots[j].length \in Nat
      BY <1>11
    <3>2. s.offset + n = h.dataStart /\ s.length = n /\ new.dataStart = h.dataStart - n
      BY <1>0, <1>1, <1>5
    <3> QED
      BY <1>0, <1>3, <3>1, <3>2 DEF Inside, Apart
  <2>3. Inside(s, new.dataStart)
    BY <1>0, <1>1, <1>4, <1>5 DEF Inside
  <2>4. \A j, k \in SlotIDs : j # k => Apart(Q.slots[j], Q.slots[k])
    <3> SUFFICES ASSUME NEW j \in SlotIDs, NEW k \in SlotIDs, j # k
                 PROVE  Apart(Q.slots[j], Q.slots[k])
      OBVIOUS
    <3>1. CASE j = i
      BY <1>7, <2>2, <3>1
    <3>2. CASE k = i
      BY <1>7, <2>2, <3>2
    <3>3. CASE j # i /\ k # i
      BY <1>7, <3>3 DEF PageOK, LayoutOK
    <3> QED
      BY <3>1, <3>2, <3>3
  <2> QED
    BY <1>1, <1>2, <1>7, <2>1, <2>2, <2>3, <2>4 DEF LayoutOK
<1>13. Others(P, Q, {i})
  <2> SUFFICES ASSUME NEW j \in SlotIDs \ {i}
               PROVE  ViewOf(Q, j) = ViewOf(P, j)
    BY DEF Others
  <2>1. ASSUME NEW k \in 0..(BlockSize - 1), P.slots[j].offset <= k,
               k < P.slots[j].offset + P.slots[j].length
        PROVE  Q.data[k] = P.data[k]
    <3>1. h.dataStart <= k
      BY <1>0, <1>11, <2>1, SMTT(30) DEF Inside
    <3> QED
      BY <1>0, <1>2, <3>1
  <2> QED
    BY <1>0, <1>6, <1>7, <2>1, ViewKept
<1>14. s.offset + n <= BlockSize
  BY <1>0, <1>1, <1>4, <1>5
<1> QED
  BY <1>1, <1>2, <1>5, <1>6, <1>7, <1>8, <1>9, <1>10, <1>12, <1>13, <1>14
     DEF PageOK, Q, i

LEMMA SamePage ==
  ASSUME NEW P \in Page, NEW Q \in Page,
         P.header = Q.header, P.slots = Q.slots, P.data = Q.data
  PROVE  P = Q
BY DEF Page

\* insert, its last part: the record is on the page.
LEMMA InsertedOK ==
  ASSUME NEW P, PageOK(P), NEW r \in Seq(Units), HasRoom(P.header, Len(r))
  PROVE  LET i == NewSlotID(P.header)
             new == Allocated(P.header, P.slots, Len(r))
             Q == [WithRecord(P, i, new.dataStart, r) EXCEPT !.header = new]
         IN  /\ i \in SlotIDs /\ ViewOf(P, i) = Void
             /\ PageOK(Q) /\ ViewOf(Q, i) = Rec(r) /\ Others(P, Q, {i})
<1> DEFINE h == P.header
           i == NewSlotID(h)
           n == Len(r)
           new == Allocated(h, P.slots, n)
           o == h.dataStart - n
           data == Stored(P.data, o, r)
           full == WithRecord(P, i, new.dataStart, r)
           Q == [full EXCEPT !.header = new]
           W == Placed(P, n, data)
           s == W.slots[i]
<1>0. /\ n \in Nat /\ h.dataStart \in Int /\ o \in Int
      /\ P \in Page /\ P.slots \in [SlotIDs -> Slot]
      /\ P.data \in [0..(BlockSize - 1) -> Units \cup {Junk}]
  BY PageFacts DEF Page
<1>1. /\ i \in SlotIDs /\ IsFree(P.slots[i]) /\ new \in Header /\ new.dataStart = o
  BY <1>0, AllocatedOK
<1>2. data \in [0..(BlockSize - 1) -> Units \cup {Junk}]
  BY <1>0, StoredType
<1>3. \A k \in 0..(BlockSize - 1) : data[k] = P.data[k] \/ (o <= k /\ k < h.dataStart)
  <2> SUFFICES ASSUME NEW k \in 0..(BlockSize - 1), ~(o <= k /\ k < h.dataStart)
               PROVE  data[k] = P.data[k]
    OBVIOUS
  <2>1. k \notin o..(o + n - 1)
    BY <1>0
  <2> QED
    BY <1>0, <2>1 DEF Stored
<1>4. /\ PageOK(W) /\ Others(P, W, {i}) /\ W.data = data
      /\ s.offset = o /\ s.offset >= 2
      /\ s.length = n /\ s.offset + n <= BlockSize
  <2> HIDE DEF data
  <2> QED
    BY <1>0, <1>2, <1>3, PlacedOK
<1>5. ReadRecord(W, s) = r
  <2>1. W \in Page /\ W.data = Stored(P.data, s.offset, r) /\ DOMAIN P.data = 0..(BlockSize - 1)
    BY <1>0, <1>4 DEF PageOK
  <2>2. s.offset \in Nat
    BY <1>0, <1>4
  <2> HIDE DEF W, s, data
  <2> QED
    BY <1>4, <2>1, <2>2, StoredReads
<1>6. ViewOf(W, i) = Rec(r)
  <2> HIDE DEF W
  <2> QED
    BY <1>0, <1>4, <1>5 DEF ViewOf, IsFree, IsIndirection
<1>7. Q = W
  <2>1. /\ W.header = new /\ W.data = data
        /\ W.slots = [P.slots EXCEPT ![i] = [offset |-> new.dataStart, length |-> n, target |-> NoTID]]
    BY DEF Placed
  <2>2. /\ full.slots = [P.slots EXCEPT ![i] = [offset |-> new.dataStart, length |-> n, target |-> NoTID]]
        /\ full.data = Stored(P.data, new.dataStart, r)
        /\ full.header = P.header
    BY <1>0 DEF WithRecord, Page
  <2>3. W \in Page
    BY <1>4 DEF PageOK
  <2>4. full.slots = W.slots /\ full.data = W.data /\ full.header = P.header
    BY <1>1, <2>1, <2>2
  <2>5. full \in Page
    <3>1. /\ W.slots \in [SlotIDs -> Slot] /\ W.data \in [0..(BlockSize - 1) -> Units \cup {Junk}]
      BY <2>3 DEF Page
    <3> HIDE DEF W
    <3> QED
      BY <1>0, <2>4, <3>1 DEF Page, WithRecord
  <2> HIDE DEF full, W, new
  <2>6. Q \in Page /\ Q.header = new /\ Q.slots = full.slots /\ Q.data = full.data
    BY <1>1, <2>5 DEF Page
  <2> QED
    <3>1. Q.header = W.header /\ Q.slots = W.slots /\ Q.data = W.data
      BY <2>1, <2>4, <2>6
    <3> HIDE DEF Q
    <3> QED
      BY <2>3, <2>6, <3>1, SamePage
<1>8. ViewOf(P, i) = Void
  BY <1>1 DEF ViewOf
<1> QED
  BY <1>1, <1>4, <1>6, <1>7, <1>8

\* A fresh page.
LEMMA EmptyPageOK ==
  ASSUME NEW n \in Nat, HeaderSize + SlotSize + n <= BlockSize
  PROVE  /\ PageOK(EmptyPage) /\ HasRoom(EmptyPage.header, n)
         /\ \A i \in SlotIDs : ViewOf(EmptyPage, i) = Void
<1> DEFINE P == EmptyPage
<1>1. /\ BlockSize \in Nat /\ HeaderSize \in Nat \ {0} /\ SlotSize \in Nat \ {0}
      /\ HeaderSize + SlotSize <= BlockSize
      /\ SizeModulus \in Nat /\ SizeModulus > BlockSize /\ MaxSlots \in Nat
      /\ SlotSize * 0 = 0 /\ SlotSize * (0 + 1) = SlotSize
  BY SizesAssumption, Sizes
<1>2. /\ P.header = [slotCount |-> 0, firstFreeSlot |-> 0, dataStart |-> BlockSize,
                     freeSpace |-> BlockSize - HeaderSize]
      /\ P.slots = [i \in SlotIDs |-> FreeSlot]
      /\ P.data = [k \in 0..(BlockSize - 1) |-> Junk]
  BY DEF EmptyPage
<1>3. FreeSlot \in Slot /\ SlotOK(FreeSlot) /\ IsFree(FreeSlot) /\ FreeSlot.length = 0
  BY SizesAssumption DEF FreeSlot, Slot, SlotOK, IsFree, IsIndirection
<1>4. P.header \in Header
  BY <1>1, <1>2 DEF Header
<1>5. P \in Page
  <2> HIDE DEF P
  <2>1. P.slots \in [SlotIDs -> Slot] /\ P.data \in [0..(BlockSize - 1) -> Units \cup {Junk}]
    BY <1>2, <1>3
  <2> QED
    BY <1>4, <2>1 DEF Page, P, EmptyPage
<1> HIDE DEF P
<1>6. \A i \in SlotIDs : P.slots[i] = FreeSlot
  BY <1>2
<1>7. SlotsOK(P)
  BY <1>3, <1>6 DEF SlotsOK
<1>8. CacheOK(P)
  BY <1>2 DEF CacheOK
<1>9. Total(P.slots, SlotIDs) = 0
  <2>1. \A i \in SlotIDs : P.slots[i].length \in Nat /\ P.slots[i].length = 0
    BY <1>3, <1>6
  <2>2. Total(P.slots, {}) = Total(P.slots, SlotIDs)
    BY <2>1, FiniteSlots, TotalOfUsed
  <2> QED
    BY <2>2, TotalOfNone
<1>10. SpaceOK(P)
  BY <1>1, <1>2, <1>9 DEF SpaceOK
<1>11. LayoutOK(P)
  BY <1>1, <1>2, <1>3, <1>6 DEF LayoutOK, Inside, Apart
<1>12. HasRoom(P.header, n)
  BY <1>1, <1>2 DEF HasRoom
<1>13. \A i \in SlotIDs : ViewOf(P, i) = Void
  BY <1>3, <1>6 DEF ViewOf
<1> QED
  BY <1>5, <1>7, <1>8, <1>10, <1>11, <1>12, <1>13 DEF PageOK, P
\* update: the slot takes over the record inserted into another slot.
LEMMA MovedOK ==
  ASSUME NEW P, PageOK(P), NEW i \in SlotIDs, NEW j \in SlotIDs, i # j,
         ~IsFree(P.slots[i]), P.slots[i].length = 0,
         ~IsFree(P.slots[j]), ~IsIndirection(P.slots[j])
  PROVE  LET Q == SlotMoved(P, i, j)
         IN  /\ PageOK(Q) /\ ViewOf(Q, i) = ViewOf(P, j) /\ ViewOf(Q, j) = Void
             /\ Others(P, Q, {i, j}) /\ Gives(P, Q)
<1> DEFINE h == P.header
           s == P.slots[j]
           M == [P EXCEPT !.slots[i] = s]
           Q == FreedSlot(M, j)
<1>0. /\ P \in Page /\ h \in Header /\ P.slots \in [SlotIDs -> Slot] /\ s \in Slot
  BY PageFacts DEF Page
<1>1. /\ M.header = h /\ M.slots = [P.slots EXCEPT ![i] = s] /\ M.data = P.data /\ M \in Page
  BY <1>0 DEF Page
<1> HIDE DEF M
<1>2. /\ Q.header = [h EXCEPT !.firstFreeSlot = IF j < @ THEN j ELSE @]
      /\ Q.slots = [M.slots EXCEPT ![j] = FreeSlot] /\ Q.data = P.data
  BY <1>0, <1>1 DEF FreedSlot, LowerFirstFree, Page
<1>3. FreeSlot \in Slot /\ SlotOK(FreeSlot) /\ IsFree(FreeSlot) /\ FreeSlot.length = 0
  BY SizesAssumption DEF FreeSlot, Slot, SlotOK, IsFree, IsIndirection
<1>4. /\ Q.header.slotCount = h.slotCount
      /\ Q.header.freeSpace = h.freeSpace
      /\ Q.header.dataStart = h.dataStart
      /\ Q.header.firstFreeSlot = IF j < h.firstFreeSlot THEN j ELSE h.firstFreeSlot
      /\ Q.header \in Header
  <2>1. (IF j < h.firstFreeSlot THEN j ELSE h.firstFreeSlot) \in 0..MaxSlots
    BY PageFacts
  <2> QED
    BY <1>0, <1>2, <2>1 DEF Header
<1>5. Q \in Page
  BY <1>0, <1>1, <1>2, <1>3, <1>4 DEF Page, FreedSlot
<1>6. /\ M.slots[i] = s /\ Q.slots[i] = s /\ Q.slots[j] = FreeSlot /\ M.slots[j] = s
      /\ \A k \in SlotIDs \ {i} : M.slots[k] = P.slots[k]
      /\ \A k \in SlotIDs \ {i, j} : Q.slots[k] = P.slots[k]
      /\ \A k \in SlotIDs \ {j} : Q.slots[k] = M.slots[k]
  BY <1>0, <1>1, <1>2
<1> HIDE DEF Q
<1> HIDE DEF s
<1>7. SlotOK(s) /\ ~IsFree(s) /\ ~IsIndirection(s) /\ s.length \in Nat /\ s.offset \in Nat
  BY PageFacts DEF PageOK, SlotsOK, s
<1>8. /\ i < h.slotCount /\ j < h.slotCount /\ h.slotCount \in Nat /\ h.firstFreeSlot \in Nat
      /\ i \in Nat /\ j \in Nat
  BY PageFacts
<1>9. SlotsOK(Q)
  <2>1. SlotsOK(P)
    BY DEF PageOK
  <2> SUFFICES ASSUME NEW k \in SlotIDs
               PROVE  SlotOK(Q.slots[k]) /\ (k >= h.slotCount => IsFree(Q.slots[k]))
    BY <1>4 DEF SlotsOK
  <2>2. CASE k = i
    BY <1>6, <1>7, <1>8, <2>2
  <2>3. CASE k = j
    BY <1>3, <1>6, <2>3
  <2>4. CASE k # i /\ k # j
    BY <1>6, <2>1, <2>4 DEF SlotsOK
  <2> QED
    BY <2>2, <2>3, <2>4
<1>10. CacheOK(Q)
  <2>1. \A k \in 0..(h.firstFreeSlot - 1) : k \in SlotIDs
    BY PageFacts DEF SlotIDs
  <2>3. CacheOK(P)
    BY DEF PageOK
  <2>4. h.firstFreeSlot < h.slotCount => h.firstFreeSlot \in SlotIDs
    BY PageFacts, SMTT(30) DEF SlotIDs
  <2>5. \A k \in 0..(h.firstFreeSlot - 1) : k # j => ~IsFree(Q.slots[k])
    BY <1>6, <1>7, <2>1, <2>3 DEF CacheOK
  <2>6. CASE j < h.firstFreeSlot
    <3>1. \A k \in 0..(j - 1) : k # j /\ k \in 0..(h.firstFreeSlot - 1)
      BY <1>8, <2>6
    <3> QED
      BY <1>3, <1>4, <1>6, <1>8, <2>3, <2>5, <2>6, <3>1 DEF CacheOK
  <2>7. CASE ~(j < h.firstFreeSlot)
    <3>1. Q.header.firstFreeSlot = h.firstFreeSlot
      BY <1>4, <2>7
    <3>2. \A k \in 0..(h.firstFreeSlot - 1) : ~IsFree(Q.slots[k])
      BY <1>8, <2>5, <2>7
    <3>3. h.firstFreeSlot < h.slotCount => IsFree(Q.slots[h.firstFreeSlot])
      BY <1>3, <1>6, <2>3, <2>4 DEF CacheOK
    <3> QED
      BY <1>4, <2>3, <3>1, <3>2, <3>3 DEF CacheOK
  <2> QED
    BY <2>6, <2>7
<1>11. Total(Q.slots, SlotIDs) = Total(P.slots, SlotIDs)
  <2>1. PICK w, x, z, a, b : w = P.slots /\ x = M.slots /\ z = Q.slots /\ a = i /\ b = j
    OBVIOUS
  <2>2. \A k \in SlotIDs : w[k].length \in Nat
    BY <2>1, PageFacts
  <2>3. \A k \in SlotIDs : x[k].length \in Nat
    BY <1>6, <1>7, <2>1, <2>2
  <2>4. \A k \in SlotIDs : z[k].length \in Nat
    BY <1>3, <1>6, <2>1, <2>3
  <2>5. \A k \in SlotIDs \ {a} : x[k].length = w[k].length
    BY <1>6, <2>1
  <2>6. \A k \in SlotIDs \ {b} : z[k].length = x[k].length
    BY <1>6, <2>1
  <2>7. a \in SlotIDs /\ b \in SlotIDs
    BY <2>1
  <2>8. Total(x, SlotIDs) = Total(w, SlotIDs) - w[a].length + x[a].length
    BY <2>2, <2>3, <2>5, <2>7, FiniteSlots, TotalChanged
  <2>9. Total(z, SlotIDs) = Total(x, SlotIDs) - x[b].length + z[b].length
    BY <2>3, <2>4, <2>6, <2>7, FiniteSlots, TotalChanged
  <2>10. w[a].length = 0 /\ x[a].length = s.length /\ x[b].length = s.length /\ z[b].length = 0
    BY <1>3, <1>6, <2>1
  <2>11. Total(w, SlotIDs) \in Nat
    BY <2>1, PageFacts
  <2> QED
    BY <1>7, <2>1, <2>8, <2>9, <2>10, <2>11
<1>12. SpaceOK(Q)
  BY <1>4, <1>11 DEF PageOK, SpaceOK
<1>13. LayoutOK(Q)
  <2>1. LayoutOK(P)
    BY DEF PageOK
  <2>2. \A k \in SlotIDs : Inside(Q.slots[k], h.dataStart)
    BY <1>3, <1>6, <2>1 DEF LayoutOK, Inside, s
  <2>3. \A k \in SlotIDs \ {i, j} : Apart(s, P.slots[k]) /\ Apart(P.slots[k], s)
    BY <2>1 DEF LayoutOK, s
  <2>4. \A k, l \in SlotIDs : k # l => Apart(Q.slots[k], Q.slots[l])
    <3> SUFFICES ASSUME NEW k \in SlotIDs, NEW l \in SlotIDs, k # l
                 PROVE  Apart(Q.slots[k], Q.slots[l])
      OBVIOUS
    <3>1. CASE k = j \/ l = j
      BY <1>3, <1>6, <3>1 DEF Apart
    <3>2. CASE k = i /\ l # j
      BY <1>6, <2>3, <3>2
    <3>3. CASE l = i /\ k # j
      BY <1>6, <2>3, <3>3
    <3>4. CASE k \notin {i, j} /\ l \notin {i, j}
      BY <1>6, <2>1, <3>4 DEF LayoutOK
    <3> QED
      BY <3>1, <3>2, <3>3, <3>4
  <2> QED
    BY <1>4, <2>1, <2>2, <2>4 DEF LayoutOK
<1>14. ViewOf(Q, i) = ViewOf(P, j) /\ ViewOf(Q, j) = Void
  <2>1. ReadRecord(Q, s) = ReadRecord(P, s)
    BY <1>2 DEF ReadRecord
  <2> QED
    BY <1>3, <1>6, <2>1 DEF ViewOf, s
<1>15. Others(P, Q, {i, j})
  <2> SUFFICES ASSUME NEW k \in SlotIDs \ {i, j}
               PROVE  ViewOf(Q, k) = ViewOf(P, k)
    BY DEF Others
  <2>1. ReadRecord(Q, P.slots[k]) = ReadRecord(P, P.slots[k])
    BY <1>2 DEF ReadRecord
  <2> QED
    BY <1>6, <2>1 DEF ViewOf
<1>16. Gives(P, Q)
  BY <1>4, PageFacts DEF Gives
<1> QED
  BY <1>5, <1>9, <1>10, <1>12, <1>13, <1>14, <1>15, <1>16 DEF PageOK, SlotMoved, Q, M, s

(***************************************************************************)
(* compactPage.  The records moved so far, s, are an upper set: none of    *)
(* the others lies behind one of them.  They fill the end of the page in   *)
(* one piece, and the others lie before it, as they were.                  *)
(***************************************************************************)
Upper(P, s) == \A i \in UsedSlots(P) \ s : \A j \in s : P.slots[i].offset <= P.slots[j].offset

States == [offset : Int, slots : [SlotIDs -> Slot],
           data : [0..(BlockSize - 1) -> Units \cup {Junk}]]

\* The slot x of the page has its record in st as it was.
SameRecord(P, st, x) ==
    \A k \in 1..P.slots[x].length :
        UnitAt(st.data, st.slots[x].offset + k - 1) = UnitAt(P.data, P.slots[x].offset + k - 1)

MovedTo(P, st, x) ==
    /\ st.slots[x].length = P.slots[x].length
    /\ st.slots[x].target = P.slots[x].target
    /\ P.slots[x].length = 0 => st.slots[x].offset = P.slots[x].offset
    /\ P.slots[x].length > 0 => /\ st.offset <= st.slots[x].offset
                                /\ st.slots[x].offset + P.slots[x].length <= BlockSize

NotYet(P, st, x) ==
    /\ st.slots[x] = P.slots[x]
    /\ P.slots[x].length > 0 => P.slots[x].offset + P.slots[x].length <= st.offset

MovedUp(P, st, s) ==
    /\ st \in States
    /\ st.offset = BlockSize - Total(P.slots, s)
    /\ \A x \in s : MovedTo(P, st, x)
    /\ \A x \in SlotIDs \ s : NotYet(P, st, x)
    /\ \A x \in SlotIDs : SameRecord(P, st, x)
    /\ \A x, y \in s : x # y => Apart(st.slots[x], st.slots[y])

LEMMA UsedFacts ==
  ASSUME NEW P, PageOK(P)
  PROVE  /\ UsedSlots(P) \subseteq SlotIDs /\ IsFiniteSet(UsedSlots(P))
         /\ \A i \in SlotIDs : P.slots[i].length > 0 => i \in UsedSlots(P)
         /\ \A i \in SlotIDs : i \in UsedSlots(P) <=> ~IsFree(P.slots[i]) /\ ~IsIndirection(P.slots[i])
<1>1. P.header.slotCount \in 0..MaxSlots /\ MaxSlots \in Nat
  BY PageFacts
<1>2. UsedSlots(P) \subseteq SlotIDs
  BY <1>1 DEF UsedSlots, SlotIDs
<1>3. IsFiniteSet(UsedSlots(P))
  BY <1>2, FiniteSlots, FS_Subset
<1>4. ASSUME NEW i \in SlotIDs, ~IsFree(P.slots[i]), ~IsIndirection(P.slots[i])
      PROVE  i \in UsedSlots(P)
  <2>1. i \in Nat /\ i < P.header.slotCount
    BY <1>4, PageFacts
  <2>2. i \in 0..(P.header.slotCount - 1)
    BY <1>1, <2>1
  <2> QED
    BY <1>4, <2>2 DEF UsedSlots
<1>5. ASSUME NEW i \in SlotIDs, P.slots[i].length > 0
      PROVE  ~IsFree(P.slots[i]) /\ ~IsIndirection(P.slots[i])
  BY <1>5 DEF PageOK, SlotsOK, SlotOK
<1> QED
  BY <1>2, <1>3, <1>4, <1>5 DEF UsedSlots

LEMMA LastMovedIs ==
  ASSUME NEW P, PageOK(P), NEW s \in SUBSET UsedSlots(P), s # {}
  PROVE  /\ LastMoved(P, s) \in s
         /\ \A j \in s : P.slots[LastMoved(P, s)].offset <= P.slots[j].offset
<1> DEFINE U == UsedSlots(P)
           D == {q \in SUBSET U : q # {} => \E i \in q : \A j \in q : P.slots[i].offset <= P.slots[j].offset}
<1>1. \A i \in U : P.slots[i].offset \in Nat
  BY UsedFacts, PageFacts
<1> HIDE DEF U
<1>2. ASSUME NEW q \in SUBSET U, \A x \in q : q \ {x} \in D
      PROVE  q \in D
  <2> SUFFICES ASSUME q # {}
               PROVE  \E i \in q : \A j \in q : P.slots[i].offset <= P.slots[j].offset
    OBVIOUS
  <2>1. PICK x \in q : TRUE
    OBVIOUS
  <2>2. CASE q \ {x} = {}
    <3>1. \A j \in q : j = x
      BY <2>2
    <3> QED
      BY <1>1, <2>1, <3>1
  <2>3. CASE q \ {x} # {}
    <3>1. q \ {x} \in D
      BY <1>2, <2>1
    <3>2. PICK y \in q \ {x} : \A j \in q \ {x} : P.slots[y].offset <= P.slots[j].offset
      BY <2>3, <3>1
    <3>3. CASE P.slots[x].offset <= P.slots[y].offset
      <4>1. \A j \in q : P.slots[x].offset <= P.slots[j].offset
        BY <1>1, <3>2, <3>3
      <4> QED
        BY <4>1
    <3>4. CASE ~(P.slots[x].offset <= P.slots[y].offset)
      <4>1. \A j \in q : P.slots[y].offset <= P.slots[j].offset
        BY <1>1, <3>2, <3>4
      <4> QED
        BY <4>1
    <3> QED
      BY <3>3, <3>4
  <2> QED
    BY <2>2, <2>3
<1>3. IsFiniteSet(U)
  BY UsedFacts DEF U
<1> HIDE DEF D
<1>4. \A q \in SUBSET U : q \in D
  BY <1>2, <1>3, SubsetInduction
<1>5. \E i \in s : \A j \in s : P.slots[i].offset <= P.slots[j].offset
  BY <1>4 DEF D, U
<1> QED
  BY <1>5 DEF LastMoved

\* A step of the loop, on numbers: nothing that matters lies under a move.
LEMMA MoveMisses ==
  ASSUME NEW n \in Nat, n > 0, NEW from \in Nat, NEW to \in Int, NEW end \in Int, end = to + n,
         from + n <= end, NEW data, NEW k \in Int, k < from \/ k >= end
  PROVE  UnitAt(MovedData(data, from, to, n), k) = UnitAt(data, k)
<1>1. k \notin to..(to + n - 1) /\ k \notin from..(from + n - 1)
  OBVIOUS
<1>2. DOMAIN MovedData(data, from, to, n) = DOMAIN data
  BY DEF MovedData
<1> QED
  BY <1>1, <1>2 DEF UnitAt, MovedData

LEMMA MoveHits ==
  ASSUME NEW n \in Nat, n > 0, NEW from \in Nat, NEW to \in Nat, to + n <= BlockSize,
         NEW data, DOMAIN data = 0..(BlockSize - 1), NEW k \in 1..n
  PROVE  UnitAt(MovedData(data, from, to, n), to + k - 1) = UnitAt(data, from + k - 1)
<1>1. /\ to + k - 1 \in to..(to + n - 1) /\ to + k - 1 \in 0..(BlockSize - 1)
      /\ from + (to + k - 1) - to = from + k - 1
  BY SizesAssumption
<1>2. DOMAIN MovedData(data, from, to, n) = 0..(BlockSize - 1)
  BY DEF MovedData
<1>3. MovedData(data, from, to, n)[to + k - 1] = UnitAt(data, from + (to + k - 1) - to)
  BY <1>1 DEF MovedData
<1> QED
  BY <1>1, <1>2, <1>3 DEF UnitAt

LEMMA MovedDataType ==
  ASSUME NEW data \in [0..(BlockSize - 1) -> Units \cup {Junk}], NEW from, NEW to, NEW n
  PROVE  MovedData(data, from, to, n) \in [0..(BlockSize - 1) -> Units \cup {Junk}]
<1>1. \A k : UnitAt(data, k) \in Units \cup {Junk}
  BY DEF UnitAt
<1> QED
  BY <1>1 DEF MovedData

LEMMA MoveUpType ==
  ASSUME NEW st \in States, NEW x \in SlotIDs
  PROVE  MoveUp(st, x) \in States
<1> DEFINE s == st.slots[x]
           o == st.offset - s.length
           new == [st.slots EXCEPT ![x].offset = o]
<1>1. /\ st.offset \in Int /\ st.slots \in [SlotIDs -> Slot] /\ s \in Slot
      /\ st.data \in [0..(BlockSize - 1) -> Units \cup {Junk}]
  BY DEF States
<1>2. o \in Int
  BY <1>1, SizesAssumption DEF Slot
<1>3. [s EXCEPT !.offset = o] \in Slot
  BY <1>1, <1>2 DEF Slot
<1>4. new \in [SlotIDs -> Slot]
  BY <1>1, <1>3
<1>5. MovedData(st.data, s.offset, o, s.length) \in [0..(BlockSize - 1) -> Units \cup {Junk}]
  BY <1>1, MovedDataType
<1> QED
  BY <1>2, <1>4, <1>5 DEF MoveUp, States

\* One step of the loop.
LEMMA MovedUpStep ==
  ASSUME NEW P, PageOK(P), NEW s \in SUBSET UsedSlots(P), Upper(P, s),
         NEW x \in s, \A j \in s : P.slots[x].offset <= P.slots[j].offset,
         NEW st, MovedUp(P, st, s \ {x})
  PROVE  MovedUp(P, MoveUp(st, x), s)
<1> DEFINE n == P.slots[x].length
           from == P.slots[x].offset
           e == st.offset
           o == e - n
           r == s \ {x}
           new == MoveUp(st, x)
<1>1. /\ s \subseteq SlotIDs /\ x \in SlotIDs /\ IsFiniteSet(s) /\ IsFiniteSet(r)
  BY UsedFacts, FS_Subset
<1>2. /\ st \in States /\ e \in Int /\ st.slots \in [SlotIDs -> Slot]
      /\ st.data \in [0..(BlockSize - 1) -> Units \cup {Junk}]
      /\ e = BlockSize - Total(P.slots, r)
      /\ st.slots[x] = P.slots[x]
      /\ n > 0 => from + n <= e
  BY <1>1 DEF MovedUp, NotYet, States
<1>3. n \in Nat /\ from \in Nat /\ BlockSize \in Nat
  BY <1>1, PageFacts
<1>4. Total(P.slots, s) = Total(P.slots, r) + n /\ Total(P.slots, r) \in Nat
  <2>1. \A i \in s : P.slots[i].length \in Nat
    BY <1>1, PageFacts
  <2> QED
    BY <1>1, <2>1, TotalSplit, TotalType
<1>5. new \in States
  BY <1>1, <1>2, MoveUpType
<1>6. CASE n = 0
  <2>1. new = st
    BY <1>2, <1>6 DEF MoveUp
  <2>2. Total(P.slots, s) = Total(P.slots, r)
    BY <1>4, <1>6
  <2>3. MovedTo(P, st, x)
    BY <1>2, <1>6 DEF MovedTo
  <2>4. \A z \in s : MovedTo(P, st, z)
    BY <2>3 DEF MovedUp
  <2>5. \A y, z \in s : y # z => Apart(st.slots[y], st.slots[z])
    BY <1>2, <1>6 DEF MovedUp, Apart
  <2> QED
    BY <1>2, <2>1, <2>2, <2>4, <2>5 DEF MovedUp
<1>7. CASE n # 0
  <2>0. n > 0
    BY <1>3, <1>7
  <2>1. /\ new.offset = o
        /\ new.slots = [st.slots EXCEPT ![x].offset = o]
        /\ new.data = MovedData(st.data, from, o, n)
    BY <1>2, <1>7 DEF MoveUp
  <2>2. /\ new.slots[x].offset = o /\ new.slots[x].length = n
        /\ new.slots[x].target = P.slots[x].target
        /\ \A z \in SlotIDs \ {x} : new.slots[z] = st.slots[z]
    <3>1. P.slots[x] \in Slot
      BY <1>1, PageFacts
    <3> QED
      BY <1>1, <1>2, <2>1, <3>1 DEF Slot
  <2> HIDE DEF new
  <2>3. /\ o \in Nat /\ o < e /\ o + n = e /\ e <= BlockSize /\ from <= o
    BY <1>2, <1>3, <1>4, <2>0
  <2>4. new.offset = BlockSize - Total(P.slots, s)
    BY <1>2, <1>3, <1>4, <2>1
  <2>5. \A z \in s : MovedTo(P, new, z)
    <3> SUFFICES ASSUME NEW z \in s PROVE MovedTo(P, new, z)
      OBVIOUS
    <3>1. CASE z = x
      BY <2>0, <2>1, <2>2, <2>3, <3>1 DEF MovedTo
    <3>2. CASE z # x
      <4>1. MovedTo(P, st, z) /\ new.slots[z] = st.slots[z] /\ st.slots[z].offset \in Int
        BY <1>1, <1>2, <2>2, <3>2 DEF MovedUp, Slot
      <4> QED
        BY <1>2, <2>1, <2>3, <4>1 DEF MovedTo
    <3> QED
      BY <3>1, <3>2
  <2>6. \A z \in SlotIDs \ s : P.slots[z].length > 0 => P.slots[z].offset + P.slots[z].length <= from
    <3> SUFFICES ASSUME NEW z \in SlotIDs \ s, P.slots[z].length > 0
                 PROVE  P.slots[z].offset + P.slots[z].length <= from
      OBVIOUS
    <3>1. z \in UsedSlots(P) \ s
      BY UsedFacts
    <3>2. P.slots[z].offset <= from
      BY <3>1 DEF Upper
    <3>3. Apart(P.slots[z], P.slots[x])
      BY <1>1 DEF PageOK, LayoutOK
    <3>4. P.slots[z].offset \in Nat /\ P.slots[z].length \in Nat
      BY PageFacts
    <3> QED
      BY <1>3, <2>0, <3>2, <3>3, <3>4 DEF Apart
  <2>7. \A z \in SlotIDs \ s : NotYet(P, new, z)
    <3> SUFFICES ASSUME NEW z \in SlotIDs \ s PROVE NotYet(P, new, z)
      OBVIOUS
    <3>1. NotYet(P, st, z) /\ new.slots[z] = st.slots[z]
      BY <2>2 DEF MovedUp
    <3>2. P.slots[z].offset \in Nat /\ P.slots[z].length \in Nat
      BY PageFacts
    <3> QED
      BY <1>3, <2>1, <2>3, <2>6, <3>1, <3>2 DEF NotYet
  <2>8. \A z \in SlotIDs : SameRecord(P, new, z)
    <3> SUFFICES ASSUME NEW z \in SlotIDs, NEW k \in 1..P.slots[z].length
                 PROVE  UnitAt(new.data, new.slots[z].offset + k - 1)
                          = UnitAt(P.data, P.slots[z].offset + k - 1)
      BY DEF SameRecord
    <3>1. UnitAt(st.data, st.slots[z].offset + k - 1) = UnitAt(P.data, P.slots[z].offset + k - 1)
      BY DEF MovedUp, SameRecord
    <3>2. P.slots[z].offset \in Nat /\ P.slots[z].length \in Nat /\ st.slots[z].offset \in Int
      BY <1>2, PageFacts DEF Slot
    <3>3. CASE z = x
      <4>1. UnitAt(new.data, o + k - 1) = UnitAt(st.data, from + k - 1)
        <5>1. DOMAIN st.data = 0..(BlockSize - 1) /\ o + n <= BlockSize /\ k \in 1..n
          BY <1>2, <2>3, <3>3
        <5> HIDE DEF o, from, n
        <5> QED
          BY <1>3, <2>0, <2>1, <2>3, <5>1, MoveHits
      <4> QED
        BY <1>2, <2>2, <3>1, <3>3, <4>1
    <3>4. CASE z # x
      <4> DEFINE q == st.slots[z].offset + k - 1
      <4>1. q \in Int /\ (q < from \/ q >= e)
        <5>1. CASE z \in r
          <6>1. MovedTo(P, st, z)
            BY <5>1 DEF MovedUp
          <6> QED
            BY <1>2, <3>2, <6>1 DEF MovedTo
        <5>2. CASE z \notin s
          <6>1. st.slots[z].offset = P.slots[z].offset
            BY <5>2 DEF MovedUp, NotYet
          <6>2. P.slots[z].length > 0
            BY <3>2
          <6>3. P.slots[z].offset + P.slots[z].length <= from
            BY <2>6, <5>2, <6>2
          <6> QED
            BY <1>3, <3>2, <6>1, <6>3
        <5> QED
          BY <3>4, <5>1, <5>2
      <4> HIDE DEF q
      <4>2. UnitAt(new.data, q) = UnitAt(st.data, q)
        <5>1. PICK w \in Nat, u \in Nat, v \in Int, y \in Int : w = n /\ u = from /\ v = o /\ y = e
          BY <1>2, <1>3, <2>3
        <5>2. w > 0 /\ y = v + w /\ u + w <= y /\ (q < u \/ q >= y)
          BY <1>2, <2>0, <2>3, <4>1, <5>1
        <5>3. UnitAt(MovedData(st.data, u, v, w), q) = UnitAt(st.data, q)
          BY <4>1, <5>2, MoveMisses
        <5> QED
          BY <2>1, <5>1, <5>3
      <4> QED
        BY <2>2, <3>1, <3>4, <4>2 DEF q
    <3> QED
      BY <3>3, <3>4
  <2>9. \A y, z \in s : y # z => Apart(new.slots[y], new.slots[z])
    <3> SUFFICES ASSUME NEW y \in s, NEW z \in s, y # z
                 PROVE  Apart(new.slots[y], new.slots[z])
      OBVIOUS
    <3>1. \A w \in r : /\ st.slots[w].offset \in Int /\ P.slots[w].length \in Nat
                       /\ st.slots[w].length = P.slots[w].length
                       /\ P.slots[w].length > 0 => e <= st.slots[w].offset
                       /\ new.slots[w] = st.slots[w]
      BY <1>1, <1>2, <2>2, PageFacts DEF MovedUp, MovedTo, Slot
    <3>2. \A w \in r : Apart(new.slots[x], new.slots[w]) /\ Apart(new.slots[w], new.slots[x])
      BY <1>3, <2>2, <2>3, <3>1 DEF Apart
    <3>3. CASE y = x \/ z = x
      BY <3>2, <3>3
    <3>4. CASE y # x /\ z # x
      BY <3>1, <3>4 DEF MovedUp
    <3> QED
      BY <3>3, <3>4
  <2>10. MovedUp(P, new, s)
    BY <1>5, <2>4, <2>5, <2>7, <2>8, <2>9 DEF MovedUp
  <2> QED
    BY <2>10 DEF new
<1> QED
  BY <1>6, <1>7

\* The whole loop.
LEMMA LoopOK ==
  ASSUME NEW P, PageOK(P)
  PROVE  \E st : MovedUp(P, st, UsedSlots(P)) /\ Compacted(P) =
            [header |-> [P.header EXCEPT !.dataStart = st.offset],
             slots |-> st.slots, data |-> st.data]
<1> DEFINE U == UsedSlots(P)
           base == [offset |-> BlockSize, slots |-> P.slots, data |-> P.data]
           Iter(f) == f = [s \in SUBSET U |-> IF s = {} THEN base
                             ELSE LET x == LastMoved(P, s) IN MoveUp(f[s \ {x}], x)]
           c == [s \in SUBSET U |-> LastMoved(P, s)]
           step == [x \in U |-> [v \in States |-> MoveUp(v, x)]]
           it == CHOOSE f : Iter(f)
<1>1. /\ U \subseteq SlotIDs /\ IsFiniteSet(U)
  BY UsedFacts
<1>2. base \in States
  BY SizesAssumption DEF PageOK, Page, States
<1>3. PICK f \in [SUBSET U -> States] :
         \A s \in SUBSET U : f[s] = IF s = {} THEN base ELSE step[c[s]][f[s \ {c[s]}]]
  <2>1. Chooses(c, U)
    BY LastMovedIs DEF Chooses
  <2>2. StepsIn(step, U, States)
    BY <1>1, MoveUpType DEF StepsIn
  <2> HIDE DEF c, step, base, U
  <2>3. \E f : IsFold(f, U, States, base, c, step)
    BY <1>1, <1>2, <2>1, <2>2, FoldExists
  <2> QED
    BY <2>3 DEF IsFold
<1>4. ASSUME NEW s \in SUBSET U
      PROVE  f[s] = IF s = {} THEN base ELSE MoveUp(f[s \ {LastMoved(P, s)}], LastMoved(P, s))
  <2>1. CASE s # {}
    <3>1. LastMoved(P, s) \in s /\ LastMoved(P, s) \in U
      BY <2>1, LastMovedIs
    <3>2. c[s] = LastMoved(P, s) /\ f[s \ {LastMoved(P, s)}] \in States
      BY <3>1
    <3>3. f[s] = step[LastMoved(P, s)][f[s \ {LastMoved(P, s)}]]
      BY <1>3, <2>1, <3>2
    <3> QED
      BY <2>1, <3>1, <3>2, <3>3
  <2> QED
    BY <1>3, <2>1
<1>5. Iter(f)
  BY <1>4
<1>6. Iter(it)
  BY <1>5
<1>7. Compacted(P) = [header |-> [P.header EXCEPT !.dataStart = it[U].offset],
                      slots |-> it[U].slots, data |-> it[U].data]
  BY DEF Compacted, MapThenFoldSet
<1> HIDE DEF it
<1>8. \A s \in SUBSET U : it[s] = IF s = {} THEN base
                                  ELSE MoveUp(it[s \ {LastMoved(P, s)}], LastMoved(P, s))
  BY <1>6
<1> DEFINE D == {s \in SUBSET U : Upper(P, s) => MovedUp(P, it[s], s)}
<1>9. ASSUME NEW s \in SUBSET U, \A x \in s : s \ {x} \in D
      PROVE  s \in D
  <2> SUFFICES ASSUME Upper(P, s) PROVE MovedUp(P, it[s], s)
    OBVIOUS
  <2>1. CASE s = {}
    <3>1. it[s] = base
      BY <1>8, <2>1
    <3>2. BlockSize - Total(P.slots, {}) = BlockSize
      BY TotalOfNone, SizesAssumption
    <3>3. \A x \in SlotIDs : NotYet(P, base, x)
      BY DEF NotYet, PageOK, LayoutOK, Inside
    <3>4. \A x \in SlotIDs : SameRecord(P, base, x)
      BY DEF SameRecord
    <3>5. base.offset = BlockSize - Total(P.slots, {})
      BY <3>2
    <3> HIDE DEF base
    <3> QED
      BY <1>2, <2>1, <3>1, <3>3, <3>4, <3>5 DEF MovedUp
  <2>2. CASE s # {}
    <3> DEFINE x == LastMoved(P, s)
    <3>1. x \in s /\ \A j \in s : P.slots[x].offset <= P.slots[j].offset
      BY <2>2, LastMovedIs
    <3>2. it[s] = MoveUp(it[s \ {x}], x)
      BY <1>8, <2>2
    <3> HIDE DEF x
    <3>3. Upper(P, s \ {x})
      BY <3>1 DEF Upper
    <3>4. MovedUp(P, it[s \ {x}], s \ {x})
      BY <1>9, <3>1, <3>3
    <3> QED
      BY <3>1, <3>2, <3>4, MovedUpStep
  <2> QED
    BY <2>1, <2>2
<1> HIDE DEF D
<1>10. \A s \in SUBSET U : s \in D
  <2> HIDE DEF U
  <2> QED
    BY <1>1, <1>9, SubsetInduction
<1>11. Upper(P, U)
  BY DEF Upper
<1>12. MovedUp(P, it[U], U)
  BY <1>10, <1>11 DEF D
<1> QED
  BY <1>7, <1>12

\* compactPage: the page looks the same, and its room is in one piece.
LEMMA CompactedOK ==
  ASSUME NEW P, PageOK(P)
  PROVE  LET Q == Compacted(P)
         IN  /\ PageOK(Q) /\ Others(P, Q, {})
             /\ Q.header.slotCount = P.header.slotCount
             /\ \A n \in Nat : Fits(P.header, n) => HasRoom(Q.header, n)
<1> DEFINE U == UsedSlots(P)
           h == P.header
           Q == Compacted(P)
           c == SlotSize * h.slotCount
           used == Total(P.slots, U)
<1>1. PICK st : MovedUp(P, st, U) /\ Q = [header |-> [h EXCEPT !.dataStart = st.offset],
                                          slots |-> st.slots, data |-> st.data]
  BY LoopOK
<1>2. /\ U \subseteq SlotIDs /\ \A i \in SlotIDs \ U : P.slots[i].length = 0
      /\ \A i \in U : ~IsFree(P.slots[i]) /\ ~IsIndirection(P.slots[i])
  <2>1. \A i \in SlotIDs : P.slots[i].length \in Nat
    BY PageFacts
  <2> QED
    BY <2>1, UsedFacts
<1>3. Total(P.slots, SlotIDs) = used /\ used \in Nat
  <2>1. \A i \in SlotIDs : P.slots[i].length \in Nat
    BY PageFacts
  <2>2. \A i \in SlotIDs \ U : P.slots[i].length = 0 /\ U \in SUBSET SlotIDs
    BY <1>2
  <2>3. Total(P.slots, U) = Total(P.slots, SlotIDs)
    <3> HIDE DEF U
    <3> QED
      BY <1>2, <2>1, <2>2, FiniteSlots, TotalOfUsed
  <2> QED
    BY <2>3, PageFacts
<1>4. /\ h \in Header /\ h.freeSpace = BlockSize - HeaderSize - c - used
      /\ h.slotCount \in Nat /\ h.freeSpace \in Nat /\ h.dataStart \in Int /\ c \in Nat
      /\ BlockSize \in Nat /\ HeaderSize \in Nat /\ SlotSize \in Nat
  BY <1>3, PageFacts, SMTT(30) DEF PageOK, Page, SpaceOK
<1>5. /\ st.offset = BlockSize - used /\ st.slots \in [SlotIDs -> Slot]
      /\ st.data \in [0..(BlockSize - 1) -> Units \cup {Junk}]
  BY <1>1 DEF MovedUp, States
<1>6. /\ Q.header.slotCount = h.slotCount /\ Q.header.freeSpace = h.freeSpace
      /\ Q.header.firstFreeSlot = h.firstFreeSlot /\ Q.header.dataStart = BlockSize - used
      /\ Q.header \in Header /\ Q.slots = st.slots /\ Q.data = st.data
  <2>1. BlockSize - used \in Int
    BY <1>3, <1>4
  <2>2. Q.header = [h EXCEPT !.dataStart = BlockSize - used] /\ Q.slots = st.slots /\ Q.data = st.data
    BY <1>1, <1>5
  <2> HIDE DEF Q, used
  <2> QED
    BY <1>4, <2>1, <2>2 DEF Header
<1>7. Q \in Page
  BY <1>1, <1>5, <1>6 DEF Page
<1> HIDE DEF Q
<1>8. ASSUME NEW i \in U
      PROVE  /\ Q.slots[i].length = P.slots[i].length /\ Q.slots[i].target = P.slots[i].target
             /\ SlotOK(Q.slots[i]) /\ ~IsFree(Q.slots[i]) /\ ~IsIndirection(Q.slots[i])
             /\ Inside(Q.slots[i], Q.header.dataStart)
  <2>1. MovedTo(P, st, i) /\ i \in SlotIDs
    BY <1>1, <1>2 DEF MovedUp
  <2>2. Q.slots[i] \in Slot /\ Q.slots[i].offset \in Int
    BY <1>2, <1>5, <1>6 DEF Slot
  <2>3. /\ P.slots[i].offset \in Nat /\ P.slots[i].length \in Nat
        /\ ~IsFree(P.slots[i]) /\ ~IsIndirection(P.slots[i])
    BY <1>2, <2>1, PageFacts
  <2>4. BlockSize - used >= 2
    <3>1. HeaderSize >= 1
      BY SizesAssumption
    <3>2. i \in Nat /\ i < h.slotCount
      BY <2>1, <2>3, PageFacts
    <3>3. PICK m \in Nat : m + 1 = h.slotCount
      <4>1. h.slotCount - 1 \in Nat /\ (h.slotCount - 1) + 1 = h.slotCount
        BY <1>4, <3>2
      <4> QED
        BY <4>1
    <3>4. SlotSize * (m + 1) = SlotSize * m + SlotSize /\ SlotSize * m \in Nat
      BY SizeSteps
    <3>5. c = SlotSize * m + SlotSize
      BY <3>3, <3>4
    <3>6. c >= 1
      <4>1. PICK y \in Nat : y = SlotSize * m
        BY <3>4
      <4>2. SlotSize \in Nat \ {0} /\ c = y + SlotSize
        BY <3>5, <4>1, SizesAssumption
      <4> HIDE DEF c
      <4> QED
        BY <4>2
    <3> QED
      BY <1>3, <1>4, <3>1, <3>6
  <2>5. Q.slots[i].offset >= 2
    <3>1. CASE P.slots[i].length = 0
      BY <1>6, <2>1, <2>3, <3>1 DEF MovedTo, IsFree, IsIndirection
    <3>2. CASE P.slots[i].length > 0
      BY <1>3, <1>4, <1>5, <1>6, <2>1, <2>2, <2>4, <3>2 DEF MovedTo
    <3> QED
      BY <2>3, <3>1, <3>2
  <2>6. ~IsFree(Q.slots[i]) /\ ~IsIndirection(Q.slots[i])
    BY <2>5 DEF IsFree, IsIndirection
  <2>7. SlotOK(Q.slots[i])
    BY <2>2, <2>5, <2>6 DEF SlotOK
  <2> QED
    BY <1>5, <1>6, <2>1, <2>2, <2>3, <2>6, <2>7 DEF MovedTo, Inside
<1>9. \A i \in SlotIDs \ U : Q.slots[i] = P.slots[i]
  BY <1>1, <1>6 DEF MovedUp, NotYet
<1>10. SlotsOK(Q)
  <2>1. \A i \in SlotIDs : i \in U => ~(i >= h.slotCount)
    BY <1>2, <1>4, PageFacts
  <2> QED
    BY <1>6, <1>8, <1>9, <2>1 DEF PageOK, SlotsOK
<1>11. \A i \in SlotIDs : IsFree(Q.slots[i]) <=> IsFree(P.slots[i])
  BY <1>2, <1>8, <1>9
<1>12. CacheOK(Q)
  <2>1. \A k \in 0..(h.firstFreeSlot - 1) : k \in SlotIDs
    BY PageFacts DEF SlotIDs
  <2>2. h.firstFreeSlot < h.slotCount => h.firstFreeSlot \in SlotIDs
    BY PageFacts DEF SlotIDs
  <2> QED
    BY <1>6, <1>11, <2>1, <2>2 DEF PageOK, CacheOK
<1>13. Total(Q.slots, SlotIDs) = used
  <2>1. \A i \in SlotIDs : P.slots[i].length \in Nat /\ Q.slots[i].length = P.slots[i].length
    BY <1>8, <1>9, PageFacts
  <2>2. PICK w, z : w = P.slots /\ z = Q.slots
    OBVIOUS
  <2>3. Total(z, SlotIDs) = Total(w, SlotIDs)
    BY <2>1, <2>2, FiniteSlots, TotalSame
  <2> QED
    BY <1>3, <2>2, <2>3
<1>14. SpaceOK(Q)
  BY <1>4, <1>6, <1>13 DEF SpaceOK
<1>15. LayoutOK(Q)
  <2>1. HeaderSize + SlotSize * Q.header.slotCount <= Q.header.dataStart
        /\ Q.header.dataStart <= BlockSize
    BY <1>3, <1>4, <1>6
  <2>2. \A i \in SlotIDs : Inside(Q.slots[i], Q.header.dataStart)
    BY <1>2, <1>8, <1>9 DEF Inside
  <2>3. \A i, j \in SlotIDs : i # j => Apart(Q.slots[i], Q.slots[j])
    <3> SUFFICES ASSUME NEW i \in SlotIDs, NEW j \in SlotIDs, i # j
                 PROVE  Apart(Q.slots[i], Q.slots[j])
      OBVIOUS
    <3>1. CASE i \in U /\ j \in U
      BY <1>1, <1>6, <3>1 DEF MovedUp
    <3>2. CASE i \notin U \/ j \notin U
      BY <1>2, <1>9, <3>2 DEF Apart
    <3> QED
      BY <3>1, <3>2
  <2> QED
    BY <2>1, <2>2, <2>3 DEF LayoutOK
<1>16. Others(P, Q, {})
  <2> SUFFICES ASSUME NEW i \in SlotIDs
               PROVE  ViewOf(Q, i) = ViewOf(P, i)
    BY DEF Others
  <2>1. SameRecord(P, st, i)
    BY <1>1 DEF MovedUp
  <2>2. Q.slots[i].length = P.slots[i].length /\ Q.slots[i].target = P.slots[i].target
    BY <1>8, <1>9
  <2>3. ReadRecord(Q, Q.slots[i]) = ReadRecord(P, P.slots[i])
    BY <1>6, <2>1, <2>2 DEF ReadRecord, SameRecord
  <2>4. CASE i \in U
    BY <1>2, <1>8, <2>3, <2>4 DEF ViewOf
  <2>5. CASE i \notin U
    BY <1>9, <2>3, <2>5 DEF ViewOf
  <2> QED
    BY <2>4, <2>5
<1>17. ASSUME NEW n \in Nat, Fits(h, n)
       PROVE  HasRoom(Q.header, n)
  <2>1. SlotSize * (h.slotCount + 1) = c + SlotSize
    BY <1>4, SizeSteps
  <2> QED
    BY <1>3, <1>4, <1>6, <1>17, <2>1 DEF Fits, HasRoom
<1> QED
  BY <1>6, <1>7, <1>10, <1>12, <1>14, <1>15, <1>16, <1>17 DEF PageOK, Q

\* insert: a page that needs no compaction has its room in one piece.
LEMMA RoomInOnePiece ==
  ASSUME NEW P, PageOK(P), NEW n \in Nat, Fits(P.header, n), ~NeedsCompaction(P.header, n)
  PROVE  HasRoom(P.header, n)
<1>1. P.header.slotCount \in Nat /\ P.header.dataStart \in Int /\ HeaderSize \in Nat /\ SlotSize \in Nat
  BY PageFacts
<1>2. PICK x \in Nat : x = SlotSize * (P.header.slotCount + 1) /\ x = (P.header.slotCount + 1) * SlotSize
  <2>1. (P.header.slotCount + 1) * SlotSize = SlotSize * P.header.slotCount + SlotSize
    BY <1>1
  <2>2. SlotSize * (P.header.slotCount + 1) = SlotSize * P.header.slotCount + SlotSize
    BY <1>1, SizeSteps
  <2>3. SlotSize * (P.header.slotCount + 1) \in Nat
    BY <1>1
  <2> QED
    BY ONLY <2>1, <2>2, <2>3
<1> QED
  BY <1>1, <1>2 DEF Fits, NeedsCompaction, HasRoom

\* The calls of others give room and take none.
LEMMA RoomStays ==
  ASSUME NEW P, PageOK(P), NEW Q, PageOK(Q), Gives(P, Q), NEW n \in Nat
  PROVE  /\ Fits(P.header, n) => Fits(Q.header, n)
         /\ HasRoom(P.header, n) => HasRoom(Q.header, n)
<1>1. /\ P.header.freeSpace \in Nat /\ Q.header.freeSpace \in Nat /\ P.header.dataStart \in Int
      /\ Q.header.dataStart \in Int /\ SlotSize \in Nat /\ HeaderSize \in Nat
      /\ P.header.slotCount \in Nat
  BY PageFacts
<1>2. PICK x \in Nat : x = SlotSize * (P.header.slotCount + 1)
  <2>1. P.header.slotCount + 1 \in Nat
    BY <1>1
  <2> QED
    BY <2>1, SizeSteps
<1> QED
  BY <1>1, <1>2 DEF Gives, Fits, HasRoom

(***************************************************************************)
(* What the runs check of a page.                                          *)
(***************************************************************************)
LEMMA PageSpace ==
  ASSUME NEW P, PageOK(P)
  PROVE  P.header.freeSpace =
            BlockSize - HeaderSize - SlotSize * P.header.slotCount
              - FoldSet(LAMBDA i, sum : sum + P.slots[i].length, 0, UsedSlots(P))
<1> DEFINE U == UsedSlots(P)
<1>1. \A i \in SlotIDs : P.slots[i].length \in Nat
  BY PageFacts
<1>2. U \in SUBSET SlotIDs /\ \A i \in SlotIDs \ U : P.slots[i].length = 0
  BY <1>1, UsedFacts
<1>3. Total(P.slots, U) = Total(P.slots, SlotIDs)
  <2> HIDE DEF U
  <2> QED
    BY <1>1, <1>2, FiniteSlots, TotalOfUsed
<1> QED
  BY <1>3 DEF PageOK, SpaceOK, Total

LEMMA PageFirstFree ==
  ASSUME NEW P, PageOK(P)
  PROVE  P.header.firstFreeSlot = NextFree(P.slots, 0, P.header.slotCount)
<1> DEFINE n == P.header.slotCount
           f == P.header.firstFreeSlot
           m == NextFree(P.slots, 0, n)
<1>1. n \in Nat /\ f \in Nat /\ f <= n
  BY PageFacts DEF PageOK, CacheOK
<1>2. /\ m \in 0..n
      /\ m < n => IsFree(P.slots[m])
      /\ \A k \in 0..(m - 1) : ~IsFree(P.slots[k])
  <2>1. PICK z \in Nat : z = 0
    OBVIOUS
  <2>2. z \in 0..n
    BY <1>1, <2>1
  <2>3. LET q == NextFree(P.slots, z, n)
        IN  /\ q \in z..n
            /\ q < n => IsFree(P.slots[q])
            /\ \A k \in z..(q - 1) : ~IsFree(P.slots[k])
    <3> HIDE DEF n
    <3> QED
      BY <1>1, <2>2, NextFreeIs
  <2> QED
    BY <2>1, <2>3
<1>3. /\ f < n => IsFree(P.slots[f])
      /\ \A k \in 0..(f - 1) : ~IsFree(P.slots[k])
  BY DEF PageOK, CacheOK
<1> HIDE DEF n, f, m
<1>4. ~(m < f)
  <2> SUFFICES ASSUME m < f PROVE FALSE
    OBVIOUS
  <2>1. m \in 0..(f - 1) /\ m < n
    BY <1>1, <1>2
  <2> QED
    BY <1>2, <1>3, <2>1
<1>5. ~(f < m)
  <2> SUFFICES ASSUME f < m PROVE FALSE
    OBVIOUS
  <2>1. f \in 0..(m - 1) /\ f < n
    BY <1>1, <1>2
  <2> QED
    BY <1>2, <1>3, <2>1
<1>6. f = m
  BY <1>1, <1>2, <1>4, <1>5
<1> QED
  BY <1>6 DEF f, m, n

LEMMA PageApart ==
  ASSUME NEW P, PageOK(P)
  PROVE  LET h == P.header
         IN  /\ HeaderSize + SlotSize * h.slotCount <= h.dataStart
             /\ \A i \in UsedSlots(P) : Area(P.slots[i]) \subseteq h.dataStart..(BlockSize - 1)
             /\ \A i, j \in UsedSlots(P) :
                   i # j => Area(P.slots[i]) \cap Area(P.slots[j]) = {}
<1>1. UsedSlots(P) \subseteq SlotIDs /\ LayoutOK(P)
  BY UsedFacts DEF PageOK
<1>2. /\ P.header.dataStart \in Int /\ BlockSize \in Nat
      /\ \A i \in SlotIDs : P.slots[i].offset \in Nat /\ P.slots[i].length \in Nat
  BY PageFacts
<1>3. ASSUME NEW i \in UsedSlots(P)
      PROVE  Area(P.slots[i]) \subseteq P.header.dataStart..(BlockSize - 1)
  <2>1. Inside(P.slots[i], P.header.dataStart) /\ P.slots[i].offset \in Nat /\ P.slots[i].length \in Nat
    BY <1>1, <1>2 DEF LayoutOK
  <2> QED
    BY <1>2, <2>1 DEF Inside, Area
<1>4. ASSUME NEW i \in UsedSlots(P), NEW j \in UsedSlots(P), i # j
      PROVE  Area(P.slots[i]) \cap Area(P.slots[j]) = {}
  <2>1. /\ Apart(P.slots[i], P.slots[j]) /\ P.slots[i].offset \in Nat /\ P.slots[i].length \in Nat
        /\ P.slots[j].offset \in Nat /\ P.slots[j].length \in Nat
    BY <1>1, <1>2, <1>4 DEF LayoutOK
  <2> QED
    BY <2>1 DEF Apart, Area
<1> QED
  BY <1>1, <1>3, <1>4 DEF LayoutOK

-----------------------------------------------------------------------------

OneWriter ==
    \A t, u \in Threads : /\ Ops[t] \cap {"insert", "update"} # {}
                          /\ Ops[u] \cap {"insert", "update"} # {} => t = u

-----------------------------------------------------------------------------
(***************************************************************************)
(* What the slots of the segment are to the calls, the layout of the pages *)
(* left out.                                                               *)
(***************************************************************************)
View(pgs) == [x \in TIDs |-> ViewOf(pgs[x.pageID], x.slotID)]

IsVoid(v) == v.kind = "free"
IsWay(v) == v.kind = "way"
IsRec(v) == v.kind = "record"

Views == {Void} \cup {Way(x) : x \in TIDs} \cup {Rec(r) : r \in Seq(Units \cup {Junk})}

Follow(V, x) == IF IsWay(V[x]) THEN V[x].to ELSE x

\* The record r is found from x on.
Leads(V, x, r) == V[Follow(V, x)] = Rec(r)

(***************************************************************************)
(* How the slots that are not free hang together.  Somebody knows each     *)
(* root: a client its TID, or a call that is about to give the slot up or  *)
(* has just made it.  Every other slot that is taken is where exactly one  *)
(* indirection leads, and no indirection leads to a root.  An indirection  *)
(* that leads to another one is being looked after (deep), and one that is *)
(* about to be freed does not count (leaving).                             *)
(***************************************************************************)
Live(V, leaving) == {x \in TIDs \ leaving : IsWay(V[x])}

Forest(V, roots, leaving, deep) ==
    /\ V \in [TIDs -> Views] /\ roots \subseteq TIDs /\ leaving \subseteq roots
    /\ \A x \in roots : ~IsVoid(V[x])
    /\ \A x \in Live(V, leaving) : /\ V[x].to \in TIDs \ roots
                                   /\ ~IsVoid(V[V[x].to])
                                   /\ IsWay(V[V[x].to]) => x \in deep
    /\ \A x, y \in Live(V, leaving) : V[x].to = V[y].to => x = y
    /\ \A x \in TIDs \ roots : ~IsVoid(V[x]) => \E y \in Live(V, leaving) : V[y].to = x

LEMMA ViewsFacts ==
  /\ IsVoid(Void) /\ ~IsWay(Void) /\ ~IsRec(Void) /\ Void \in Views
  /\ \A x \in TIDs : /\ IsWay(Way(x)) /\ ~IsVoid(Way(x)) /\ ~IsRec(Way(x)) /\ Way(x).to = x
                     /\ Way(x) \in Views
  /\ \A r \in Seq(Units \cup {Junk}) : /\ IsRec(Rec(r)) /\ ~IsVoid(Rec(r)) /\ ~IsWay(Rec(r))
                                       /\ Rec(r) \in Views /\ Rec(r).rec = r
  /\ \A v \in Views : /\ v.to \in TIDs \cup {NoTID}
                      /\ ~IsVoid(v) /\ ~IsWay(v) => IsRec(v)
<1>1. IsVoid(Void) /\ ~IsWay(Void) /\ ~IsRec(Void) /\ Void \in Views
  BY DEF Void, Views, IsVoid, IsWay, IsRec
<1>2. \A x \in TIDs : /\ IsWay(Way(x)) /\ ~IsVoid(Way(x)) /\ ~IsRec(Way(x)) /\ Way(x).to = x
                      /\ Way(x) \in Views
  BY DEF Way, Views, IsVoid, IsWay, IsRec
<1>3. \A r \in Seq(Units \cup {Junk}) : /\ IsRec(Rec(r)) /\ ~IsVoid(Rec(r)) /\ ~IsWay(Rec(r))
                                        /\ Rec(r) \in Views /\ Rec(r).rec = r
  BY DEF Rec, Views, IsVoid, IsWay, IsRec
<1>4. \A v \in Views : /\ v.to \in TIDs \cup {NoTID}
                       /\ ~IsVoid(v) /\ ~IsWay(v) => IsRec(v)
  BY DEF Void, Way, Rec, Views, IsVoid, IsWay, IsRec
<1> QED
  BY <1>1, <1>2, <1>3, <1>4

LEMMA ViewsAre ==
  ASSUME NEW v \in Views
  PROVE  /\ IsVoid(v) => v = Void
         /\ IsWay(v) => v.to \in TIDs /\ v = Way(v.to)
         /\ IsRec(v) => v.rec \in Seq(Units \cup {Junk}) /\ v = Rec(v.rec)
BY DEF Void, Way, Rec, Views, IsVoid, IsWay, IsRec

LEMMA ForestIs ==
  ASSUME NEW V, NEW roots, NEW leaving, NEW deep, NEW L, L = Live(V, leaving),
         V \in [TIDs -> Views], roots \subseteq TIDs, leaving \subseteq roots,
         \A x \in roots : ~IsVoid(V[x]),
         \A x \in L : /\ V[x].to \in TIDs \ roots
                      /\ ~IsVoid(V[V[x].to])
                      /\ IsWay(V[V[x].to]) => x \in deep,
         \A x, y \in L : V[x].to = V[y].to => x = y,
         \A x \in TIDs \ roots : ~IsVoid(V[x]) => \E y \in L : V[y].to = x
  PROVE  Forest(V, roots, leaving, deep)
BY DEF Forest

\* A record appears in a free slot (insert).
LEMMA ForestInsert ==
  ASSUME NEW V, NEW roots, NEW leaving, NEW deep, Forest(V, roots, leaving, deep),
         NEW n \in TIDs, IsVoid(V[n]), NEW v \in Views, IsRec(v)
  PROVE  Forest([V EXCEPT ![n] = v], roots \cup {n}, leaving, deep)
<1> DEFINE W == [V EXCEPT ![n] = v]
           L == Live(V, leaving)
<1>1. /\ V \in [TIDs -> Views] /\ W \in [TIDs -> Views] /\ W[n] = v
      /\ \A x \in TIDs \ {n} : W[x] = V[x]
      /\ ~IsWay(v) /\ ~IsVoid(v) /\ ~IsWay(V[n])
  BY DEF Forest, IsRec, IsVoid, IsWay
<1>2. Live(W, leaving) = L
  BY <1>1 DEF Live
<1>3. n \notin roots /\ n \notin L /\ \A x \in L : V[x].to # n /\ x \in TIDs /\ W[x] = V[x]
  BY <1>1 DEF Forest, Live
<1> HIDE DEF W, L
<1>5. \A x \in L : /\ W[x].to \in TIDs \ (roots \cup {n})
                   /\ ~IsVoid(W[W[x].to])
                   /\ IsWay(W[W[x].to]) => x \in deep
  BY <1>1, <1>3 DEF Forest, L
<1>6. \A x, y \in L : W[x].to = W[y].to => x = y
  BY <1>3 DEF Forest, L
<1>7. \A x \in TIDs \ (roots \cup {n}) : ~IsVoid(W[x]) => \E y \in L : W[y].to = x
  BY <1>1, <1>3 DEF Forest, L
<1>8. \A x \in roots \cup {n} : ~IsVoid(W[x])
  BY <1>1, <1>3 DEF Forest
<1>9. roots \subseteq TIDs /\ leaving \subseteq roots
  BY DEF Forest
<1>10. Forest(W, roots \cup {n}, leaving, deep)
  BY <1>1, <1>2, <1>5, <1>6, <1>7, <1>8, <1>9, ForestIs
<1> QED
  BY <1>10 DEF W

\* A record changes (update).
LEMMA ForestRecord ==
  ASSUME NEW V, NEW roots, NEW leaving, NEW deep, Forest(V, roots, leaving, deep),
         NEW c \in TIDs, IsRec(V[c]), NEW v \in Views, IsRec(v)
  PROVE  Forest([V EXCEPT ![c] = v], roots, leaving, deep)
<1> DEFINE W == [V EXCEPT ![c] = v]
           L == Live(V, leaving)
<1>1. /\ V \in [TIDs -> Views] /\ W \in [TIDs -> Views] /\ W[c] = v
      /\ \A x \in TIDs \ {c} : W[x] = V[x]
      /\ ~IsWay(v) /\ ~IsVoid(v) /\ ~IsWay(V[c]) /\ ~IsVoid(V[c])
  BY DEF Forest, IsRec, IsVoid, IsWay
<1>2. Live(W, leaving) = L
  BY <1>1 DEF Live
<1>3. \A x \in L : x \in TIDs /\ W[x] = V[x]
  BY <1>1 DEF Live
<1>4. \A x \in TIDs : (IsVoid(W[x]) <=> IsVoid(V[x])) /\ (IsWay(W[x]) <=> IsWay(V[x]))
  BY <1>1
<1> HIDE DEF W, L
<1>5. \A x \in L : /\ W[x].to \in TIDs \ roots
                   /\ ~IsVoid(W[W[x].to])
                   /\ IsWay(W[W[x].to]) => x \in deep
  BY <1>1, <1>3, <1>4 DEF Forest, L
<1>6. \A x, y \in L : W[x].to = W[y].to => x = y
  BY <1>3 DEF Forest, L
<1>7. \A x \in TIDs \ roots : ~IsVoid(W[x]) => \E y \in L : W[y].to = x
  BY <1>3, <1>4 DEF Forest, L
<1>8. \A x \in roots : ~IsVoid(W[x])
  BY <1>4 DEF Forest
<1>9. roots \subseteq TIDs /\ leaving \subseteq roots
  BY DEF Forest
<1>10. Forest(W, roots, leaving, deep)
  BY <1>1, <1>2, <1>5, <1>6, <1>7, <1>8, <1>9, ForestIs
<1> QED
  BY <1>10 DEF W

\* A root becomes free: a record, or an indirection nobody counts.
LEMMA ForestFree ==
  ASSUME NEW V, NEW roots, NEW leaving, NEW deep, Forest(V, roots, leaving, deep),
         NEW c \in roots, IsRec(V[c]) \/ c \in leaving
  PROVE  Forest([V EXCEPT ![c] = Void], roots \ {c}, leaving \ {c}, deep)
<1> DEFINE W == [V EXCEPT ![c] = Void]
           L == Live(V, leaving)
<1>0. c \in TIDs /\ leaving \subseteq roots /\ roots \subseteq TIDs
  BY DEF Forest
<1>1. /\ V \in [TIDs -> Views] /\ W \in [TIDs -> Views] /\ W[c] = Void
      /\ \A x \in TIDs \ {c} : W[x] = V[x]
      /\ ~IsWay(Void) /\ IsVoid(Void)
  BY <1>0, ViewsFacts DEF Forest
<1>2. Live(W, leaving \ {c}) = L /\ c \notin L
  BY <1>0, <1>1 DEF Live, IsRec, IsWay
<1>3. \A x \in L : x \in TIDs /\ W[x] = V[x] /\ V[x].to # c
  BY <1>1, <1>2 DEF Live, Forest
<1> HIDE DEF W, L
<1>4. \A x \in L : /\ W[x].to \in TIDs \ (roots \ {c})
                   /\ ~IsVoid(W[W[x].to])
                   /\ IsWay(W[W[x].to]) => x \in deep
  BY <1>1, <1>3 DEF Forest, L
<1>5. \A x, y \in L : W[x].to = W[y].to => x = y
  BY <1>3 DEF Forest, L
<1>6. \A x \in TIDs \ (roots \ {c}) : ~IsVoid(W[x]) => \E y \in L : W[y].to = x
  BY <1>1, <1>3 DEF Forest, L
<1>7. \A x \in roots \ {c} : ~IsVoid(W[x])
  BY <1>0, <1>1 DEF Forest
<1>8. roots \ {c} \subseteq TIDs /\ leaving \ {c} \subseteq roots \ {c}
  BY <1>0
<1>9. Forest(W, roots \ {c}, leaving \ {c}, deep)
  BY <1>1, <1>2, <1>4, <1>5, <1>6, <1>7, <1>8, ForestIs
<1> QED
  BY <1>9 DEF W

\* An indirection becomes free, and its caller goes on with what it led to (remove).
LEMMA ForestFollow ==
  ASSUME NEW V, NEW roots, NEW leaving, NEW deep, Forest(V, roots, leaving, deep),
         NEW c \in roots \ leaving, IsWay(V[c])
  PROVE  Forest([V EXCEPT ![c] = Void], (roots \ {c}) \cup {V[c].to}, leaving, deep)
<1> DEFINE W == [V EXCEPT ![c] = Void]
           L == Live(V, leaving)
           d == V[c].to
<1>0. c \in TIDs /\ leaving \subseteq roots /\ roots \subseteq TIDs /\ c \in L
  BY DEF Forest, Live
<1>1. /\ V \in [TIDs -> Views] /\ W \in [TIDs -> Views] /\ W[c] = Void
      /\ \A x \in TIDs \ {c} : W[x] = V[x]
      /\ ~IsWay(Void) /\ IsVoid(Void)
  BY <1>0, ViewsFacts DEF Forest
<1>2. Live(W, leaving) = L \ {c}
  BY <1>0, <1>1 DEF Live
<1>3. d \in TIDs \ roots /\ ~IsVoid(V[d]) /\ d # c
  BY <1>0 DEF Forest
<1>4. \A x \in L \ {c} : x \in TIDs /\ W[x] = V[x] /\ V[x].to # c /\ V[x].to # d
  BY <1>0, <1>1 DEF Live, Forest
<1> HIDE DEF W, L, d
<1>5. \A x \in L \ {c} : /\ W[x].to \in TIDs \ ((roots \ {c}) \cup {d})
                         /\ ~IsVoid(W[W[x].to])
                         /\ IsWay(W[W[x].to]) => x \in deep
  BY <1>1, <1>4 DEF Forest, L
<1>6. \A x, y \in L \ {c} : W[x].to = W[y].to => x = y
  BY <1>4 DEF Forest, L
<1>7. ASSUME NEW x \in TIDs \ ((roots \ {c}) \cup {d}), ~IsVoid(W[x])
      PROVE  \E y \in L \ {c} : W[y].to = x
  <2>1. x # c /\ x \notin roots /\ ~IsVoid(V[x])
    BY <1>1, <1>7
  <2>2. PICK y \in L : V[y].to = x
    BY <2>1 DEF Forest, L
  <2>3. y # c
    BY <1>7, <2>2 DEF d
  <2> QED
    BY <1>4, <2>2, <2>3
<1>8. \A x \in (roots \ {c}) \cup {d} : ~IsVoid(W[x])
  BY <1>0, <1>1, <1>3 DEF Forest
<1>9. (roots \ {c}) \cup {d} \subseteq TIDs /\ leaving \subseteq (roots \ {c}) \cup {d}
  BY <1>0, <1>3
<1>10. Forest(W, (roots \ {c}) \cup {d}, leaving, deep)
  BY <1>1, <1>2, <1>5, <1>6, <1>7, <1>8, <1>9, ForestIs
<1> QED
  BY <1>10 DEF W, d

\* A record moves from a root to the slot c (update, on one page).
LEMMA ForestMove ==
  ASSUME NEW V, NEW roots, NEW leaving, NEW deep, Forest(V, roots, leaving, deep),
         NEW c \in TIDs, IsRec(V[c]), NEW n \in roots \ leaving, IsRec(V[n]), c # n
  PROVE  Forest([V EXCEPT ![c] = V[n], ![n] = Void], roots \ {n}, leaving, deep)
<1> DEFINE U == [V EXCEPT ![c] = V[n]]
           W == [U EXCEPT ![n] = Void]
<1>2. n \in TIDs /\ V \in [TIDs -> Views] /\ V[n] \in Views
  BY DEF Forest
<1>3. Forest(U, roots, leaving, deep)
  BY <1>2, ForestRecord
<1>4. U[n] = V[n]
  BY <1>2
<1> HIDE DEF U
<1>5. Forest(W, roots \ {n}, leaving \ {n}, deep)
  BY <1>3, <1>4, ForestFree
<1>6. leaving \ {n} = leaving
  OBVIOUS
<1> QED
  BY <1>5, <1>6 DEF U

\* The slot c is made to lead to the record at a root (update, on two pages).
LEMMA ForestPoint ==
  ASSUME NEW V, NEW roots, NEW leaving, NEW deep, Forest(V, roots, leaving, deep),
         NEW c \in TIDs \ leaving, IsRec(V[c]), NEW n \in roots \ leaving, IsRec(V[n]), c # n,
         NEW deep2, deep \subseteq deep2,
         \A x \in Live(V, leaving) : V[x].to = c => x \in deep2
  PROVE  Forest([V EXCEPT ![c] = Way(n)], roots \ {n}, leaving, deep2)
<1> DEFINE W == [V EXCEPT ![c] = Way(n)]
           L == Live(V, leaving)
           M == L \cup {c}
<1>0. n \in TIDs /\ roots \subseteq TIDs /\ leaving \subseteq roots \ {n}
  BY DEF Forest
<1>1. /\ V \in [TIDs -> Views] /\ W \in [TIDs -> Views] /\ W[c] = Way(n)
      /\ \A x \in TIDs \ {c} : W[x] = V[x]
      /\ IsWay(Way(n)) /\ ~IsVoid(Way(n)) /\ Way(n).to = n
      /\ ~IsWay(V[c]) /\ ~IsVoid(V[c]) /\ ~IsWay(V[n]) /\ ~IsVoid(V[n])
  BY <1>0, ViewsFacts DEF Forest, IsRec, IsWay, IsVoid
<1>2. M = Live(W, leaving)
  BY <1>1 DEF Live
<1>3. \A x \in L : x \in TIDs /\ W[x] = V[x] /\ x # c /\ V[x].to # n
  BY <1>1 DEF Live, Forest
<1> HIDE DEF W, L
<1>4. ASSUME NEW x \in M
      PROVE  W[x].to \in TIDs \ (roots \ {n}) /\ ~IsVoid(W[W[x].to])
             /\ (IsWay(W[W[x].to]) => x \in deep2)
  <2>1. CASE x = c
    BY <1>0, <1>1, <2>1
  <2>2. CASE x \in L
    <3>1. /\ V[x].to \in TIDs \ roots /\ ~IsVoid(V[V[x].to])
          /\ IsWay(V[V[x].to]) => x \in deep
      BY <2>2 DEF Forest, L
    <3>2. W[x] = V[x]
      BY <1>3, <2>2
    <3>3. CASE V[x].to = c
      BY <1>1, <2>2, <3>1, <3>2, <3>3 DEF L
    <3>4. CASE V[x].to # c
      BY <1>1, <3>1, <3>2, <3>4
    <3> QED
      BY <3>3, <3>4
  <2> QED
    BY <2>1, <2>2
<1>5. \A x, y \in M : W[x].to = W[y].to => x = y
  BY <1>1, <1>3 DEF Forest, L
<1>6. \A x \in TIDs \ (roots \ {n}) : ~IsVoid(W[x]) => \E y \in M : W[y].to = x
  <2> SUFFICES ASSUME NEW x \in TIDs \ (roots \ {n}), ~IsVoid(W[x])
               PROVE  \E y \in M : W[y].to = x
    OBVIOUS
  <2>1. CASE x = n
    BY <1>1, <2>1
  <2>2. CASE x # n
    <3>1. x \in TIDs \ roots /\ ~IsVoid(V[x])
      BY <1>1, <2>2
    <3>2. PICK y \in L : V[y].to = x
      BY <3>1 DEF Forest, L
    <3> QED
      BY <1>3, <3>2
  <2> QED
    BY <2>1, <2>2
<1>7. \A x \in roots \ {n} : ~IsVoid(W[x])
  <2>1. \A x \in roots : ~IsVoid(V[x]) /\ x \in TIDs
    BY DEF Forest
  <2> QED
    BY <1>1, <2>1
<1>8. Forest(W, roots \ {n}, leaving, deep2)
  BY <1>0, <1>1, <1>2, <1>4, <1>5, <1>6, <1>7, ForestIs
<1> QED
  BY <1>8 DEF W

\* The first of two indirections is made to skip the second (update).
LEMMA ForestSkip ==
  ASSUME NEW V, NEW roots, NEW leaving, NEW deep, Forest(V, roots, leaving, deep),
         NEW x \in Live(V, leaving), NEW y, y = V[x].to, IsWay(V[y]),
         NEW z, z = V[y].to, ~IsWay(V[z]),
         NEW deep2, deep \ {x} \subseteq deep2
  PROVE  Forest([V EXCEPT ![x] = Way(z)], roots \cup {y}, leaving \cup {y}, deep2)
<1> DEFINE W == [V EXCEPT ![x] = Way(z)]
           L == Live(V, leaving)
           M == L \ {y}
<1>0. /\ x \in TIDs /\ IsWay(V[x]) /\ roots \subseteq TIDs /\ leaving \subseteq roots
      /\ y \in TIDs \ roots /\ y \in L /\ V \in [TIDs -> Views] /\ x # y
  BY DEF Forest, Live
<1>1. z \in TIDs \ roots /\ ~IsVoid(V[z]) /\ z # y /\ z # x
  BY <1>0 DEF Forest
<1>2. /\ W \in [TIDs -> Views] /\ W[x] = Way(z)
      /\ \A u \in TIDs \ {x} : W[u] = V[u]
      /\ IsWay(Way(z)) /\ ~IsVoid(Way(z)) /\ Way(z).to = z
  BY <1>0, <1>1, ViewsFacts
<1>3. M = Live(W, leaving \cup {y})
  BY <1>0, <1>1, <1>2 DEF Live
<1>4. \A u \in M : u \in TIDs /\ V[u].to # z /\ (u # x => W[u] = V[u] /\ V[u].to # y)
  BY <1>0, <1>1, <1>2 DEF Forest, Live
<1> HIDE DEF W, L
<1>5. ASSUME NEW u \in M
      PROVE  W[u].to \in TIDs \ (roots \cup {y}) /\ ~IsVoid(W[W[u].to])
             /\ (IsWay(W[W[u].to]) => u \in deep2)
  <2>1. CASE u = x
    BY <1>0, <1>1, <1>2, <2>1
  <2>2. CASE u # x
    <3>1. u \in L /\ W[u] = V[u] /\ V[u].to # y
      BY <1>4, <2>2
    <3>2. /\ V[u].to \in TIDs \ roots /\ ~IsVoid(V[V[u].to])
          /\ IsWay(V[V[u].to]) => u \in deep
      BY <3>1 DEF Forest, L
    <3>3. CASE V[u].to = x
      BY <1>0, <1>2, <2>2, <3>1, <3>2, <3>3
    <3>4. CASE V[u].to # x
      BY <1>2, <2>2, <3>1, <3>2, <3>4
    <3> QED
      BY <3>3, <3>4
  <2> QED
    BY <2>1, <2>2
<1>6. \A u, w \in M : W[u].to = W[w].to => u = w
  BY <1>2, <1>4 DEF Forest, L
<1>7. \A u \in TIDs \ (roots \cup {y}) : ~IsVoid(W[u]) => \E w \in M : W[w].to = u
  <2> SUFFICES ASSUME NEW u \in TIDs \ (roots \cup {y}), ~IsVoid(W[u])
               PROVE  \E w \in M : W[w].to = u
    OBVIOUS
  <2>1. CASE u = z
    <3>1. x \in M
      BY <1>0 DEF L
    <3> QED
      BY <1>2, <2>1, <3>1
  <2>2. CASE u # z
    <3>1. u \in TIDs \ roots /\ ~IsVoid(V[u])
      BY <1>0, <1>2, <1>1 DEF IsWay, IsVoid
    <3>2. PICK w \in L : V[w].to = u
      BY <3>1 DEF Forest, L
    <3>3. w # y /\ w # x
      BY <2>2, <3>2
    <3> QED
      BY <1>4, <3>2, <3>3
  <2> QED
    BY <2>1, <2>2
<1>8. \A u \in roots \cup {y} : ~IsVoid(W[u])
  <2>1. \A u \in roots : ~IsVoid(V[u]) /\ u \in TIDs
    BY DEF Forest
  <2>2. ~IsVoid(V[y])
    BY DEF IsWay, IsVoid
  <2> QED
    BY <1>0, <1>2, <2>1, <2>2
<1>9. Forest(W, roots \cup {y}, leaving \cup {y}, deep2)
  <2>1. roots \cup {y} \subseteq TIDs /\ leaving \cup {y} \subseteq roots \cup {y}
    BY <1>0
  <2> QED
    BY <1>2, <1>3, <1>5, <1>6, <1>7, <1>8, <2>1, ForestIs
<1> QED
  BY <1>9 DEF W

\* An indirection is looked after, or no longer needs it.
LEMMA ForestDeep ==
  ASSUME NEW V, NEW roots, NEW leaving, NEW deep, Forest(V, roots, leaving, deep),
         NEW deep2, \A x \in Live(V, leaving) : IsWay(V[V[x].to]) /\ x \in deep => x \in deep2
  PROVE  Forest(V, roots, leaving, deep2)
BY DEF Forest

-----------------------------------------------------------------------------
(***************************************************************************)
(* The calls under way.  RootsOf: the slots only this call knows of.       *)
(***************************************************************************)
RootsOf(c) == IF c.pc \in {"remove", "free"} THEN {Last(c.tids)}
              ELSE IF c.pc = "point" \/ (c.pc = "return" /\ c.op = "insert") THEN {c.result}
              ELSE {}
LeavingOf(c) == IF c.pc = "free" THEN {Last(c.tids)} ELSE {}
DeepOf(c) == IF c.pc \in {"check", "skip"} THEN {c.tids[1]} ELSE {}

RootsIn(cs, vs) == DOMAIN vs \cup UNION {RootsOf(cs[t]) : t \in Threads}
LeavingIn(cs) == UNION {LeavingOf(cs[t]) : t \in Threads}
DeepIn(cs) == UNION {DeepOf(cs[t]) : t \in Threads}

\* Which labels belong to which call.
OpOK(c) ==
    /\ c.pc = "idle" <=> c.op = "none"
    /\ c.pc \in {"scan", "compact", "place"} => c.op \in {"insert", "update"}
    /\ c.pc \in {"point", "update", "check", "skip", "free"} => c.op = "update"
    /\ c.pc = "remove" => c.op = "remove"
    /\ c.pc = "lookup" => c.op = "lookup"
    /\ c.pc \in {"next", "scanned", "undefined"} => c.op = "tablescan"
    /\ c.pc = "return" => c.op # "tablescan"

\* How far the stack of TIDs has grown.
TidsOK(c) ==
    /\ c.op \in {"none", "insert", "tablescan"} => c.tids = << >>
    /\ c.op \in {"remove", "lookup", "update"} => Len(c.tids) >= 1
    /\ c.op \in {"lookup", "update"} => Len(c.tids) <= 2
    /\ c.pc \in {"check", "skip", "free"} => Len(c.tids) = 2
    /\ c.pc = "return" /\ c.op = "update" => Len(c.tids) = 1

LocalsOK(c) ==
    /\ c \in Call /\ OpOK(c) /\ TidsOK(c)
    /\ c.op \in {"insert", "update"} => c.rec \in Records
    /\ c.pc = "point" \/ (c.pc = "return" /\ c.op = "insert") => c.result \in TIDs

\* Two calls are not about the same TID, nor about the same root.
Calls(cs, vs) ==
    /\ cs \in [Threads -> Call]
    /\ DOMAIN vs \subseteq TIDs /\ \A x \in DOMAIN vs : vs[x] \in Records
    /\ \A t \in Threads : /\ LocalsOK(cs[t])
                          /\ cs[t].op # "none" => cs[t].op \in Ops[t]
                          /\ cs[t].op \in {"lookup", "update"} => cs[t].tids[1] \in DOMAIN vs
                          /\ RootsOf(cs[t]) \cap DOMAIN vs = {}
    /\ \A t, u \in Threads : t # u =>
          /\ cs[t].tids # << >> /\ cs[u].tids # << >> => cs[t].tids[1] # cs[u].tids[1]
          /\ RootsOf(cs[t]) \cap RootsOf(cs[u]) = {}

(***************************************************************************)
(* Where the records are.  An update leaves its record where it was (from  *)
(* "update" on), empties the slot and inserts the record elsewhere ("scan" *)
(* to "point"), and then sees to it that it is found from the TID.         *)
(***************************************************************************)
UpdateOK(V, c, vs) ==
    LET x == c.tids[1]
        y == c.tids[2]
    IN  /\ c.pc \in {"scan", "compact", "place", "point"} => V[Last(c.tids)] = Rec(<< >>)
        /\ Len(c.tids) = 2 /\ c.pc # "free" => V[x] = Way(y)
        /\ c.pc = "skip" => IsWay(V[y])
        /\ c.pc = "free" => V[x] = V[y] /\ IsWay(V[y])
        /\ c.pc = "point" => V[c.result] = Rec(c.rec)
        /\ c.pc = "update" => Leads(V, x, vs[x])
        /\ c.pc \in {"check", "skip"} => Leads(V, y, c.rec)
        /\ c.pc \in {"free", "return"} => Leads(V, x, c.rec)

OwnOK(V, c, vs) ==
    /\ c.op = "update" => UpdateOK(V, c, vs)
    /\ c.op = "lookup" /\ Len(c.tids) = 2 => V[c.tids[1]] = Way(c.tids[2])
    /\ c.op = "insert" /\ c.pc = "return" => V[c.result] = Rec(c.rec)

Untouched(cs, x) == \A t \in Threads : cs[t].op = "update" => cs[t].tids[1] # x

Contents(V, cs, vs) ==
    /\ \A x \in DOMAIN vs : Untouched(cs, x) => Leads(V, x, vs[x])
    /\ \A t \in Threads : OwnOK(V, cs[t], vs)

Linked(V, cs, vs) ==
    /\ Calls(cs, vs)
    /\ Forest(V, RootsIn(cs, vs), LeavingIn(cs), DeepIn(cs))
    /\ Contents(V, cs, vs)

\* All that matters of a call beside its scan.
Alike(c, d) == /\ d.pc = c.pc /\ d.op = c.op /\ d.tids = c.tids /\ d.rec = c.rec
               /\ d.page = c.page /\ d.header = c.header /\ d.result = c.result

Beside(cs, cs2, t) == \A u \in Threads \ {t} : Alike(cs[u], cs2[u])

LEMMA TidsFacts ==
  ASSUME NEW s \in Seq(TIDs)
  PROVE  /\ Len(s) \in Nat
         /\ Len(s) >= 1 => /\ s # << >> /\ s[1] \in TIDs /\ Last(s) \in TIDs
                           /\ \A y \in TIDs : /\ Append(s, y) \in Seq(TIDs)
                                              /\ Append(s, y) # << >>
                                              /\ Len(Append(s, y)) = Len(s) + 1
                                              /\ Append(s, y)[1] = s[1]
                                              /\ Last(Append(s, y)) = y
         /\ Len(s) = 1 => Last(s) = s[1] /\ \A y \in TIDs : Append(s, y)[2] = y
         /\ Len(s) = 2 => /\ Last(s) = s[2] /\ s[2] \in TIDs
                          /\ Front(s) \in Seq(TIDs) /\ Len(Front(s)) = 1 /\ Front(s)[1] = s[1]
                          /\ Front(s) # << >>
<1>1. Len(s) \in Nat
  OBVIOUS
<1>2. ASSUME Len(s) >= 1
      PROVE  /\ s # << >> /\ s[1] \in TIDs /\ Last(s) \in TIDs
             /\ \A y \in TIDs : /\ Append(s, y) \in Seq(TIDs)
                                /\ Append(s, y) # << >>
                                /\ Len(Append(s, y)) = Len(s) + 1
                                /\ Append(s, y)[1] = s[1]
                                /\ Last(Append(s, y)) = y
  <2>1. s # << >> /\ s[1] \in TIDs /\ s[Len(s)] \in TIDs
    BY <1>2
  <2>2. ASSUME NEW y \in TIDs
        PROVE  /\ Append(s, y) \in Seq(TIDs)
               /\ Append(s, y) # << >>
               /\ Len(Append(s, y)) = Len(s) + 1
               /\ Append(s, y)[1] = s[1]
               /\ Append(s, y)[Len(s) + 1] = y
    BY <1>2
  <2>3. \A y \in TIDs : Last(Append(s, y)) = y
    BY <2>2 DEF Last
  <2> QED
    BY <2>1, <2>2, <2>3 DEF Last
<1>3. Len(s) = 1 => Last(s) = s[1] /\ \A y \in TIDs : Append(s, y)[2] = y
  <2>1. ASSUME Len(s) = 1, NEW y \in TIDs
        PROVE  Append(s, y)[2] = y
    <3>1. Last(Append(s, y)) = y /\ Len(Append(s, y)) = 2
      BY <1>2, <2>1
    <3> QED
      BY <3>1 DEF Last
  <2> QED
    BY <2>1 DEF Last
<1>4. ASSUME Len(s) = 2
      PROVE  /\ Last(s) = s[2] /\ s[2] \in TIDs
             /\ Front(s) \in Seq(TIDs) /\ Len(Front(s)) = 1 /\ Front(s)[1] = s[1]
             /\ Front(s) # << >>
  <2>1. Front(s) = SubSeq(s, 1, 1)
    BY <1>4 DEF Front
  <2>2. Last(s) = s[2] /\ s[2] \in TIDs /\ s[1] \in TIDs
    BY <1>4 DEF Last
  <2>3. /\ SubSeq(s, 1, 1) \in Seq(TIDs) /\ Len(SubSeq(s, 1, 1)) = 1
        /\ SubSeq(s, 1, 1)[1] = s[1]
    BY <1>4
  <2>4. SubSeq(s, 1, 1) # << >>
    <3> DEFINE f == SubSeq(s, 1, 1)
    <3>1. f \in Seq(TIDs) /\ Len(f) = 1
      BY <2>3
    <3> HIDE DEF f
    <3>2. f # << >>
      BY <3>1, EmptySeq
    <3> QED
      BY <3>2 DEF f
  <2> QED
    BY <2>1, <2>2, <2>3, <2>4
<1> QED
  BY <1>1, <1>2, <1>3, <1>4

LEMMA AlikeOK ==
  ASSUME NEW c \in Call, NEW d \in Call, Alike(c, d)
  PROVE  /\ RootsOf(d) = RootsOf(c) /\ LeavingOf(d) = LeavingOf(c) /\ DeepOf(d) = DeepOf(c)
         /\ LocalsOK(c) => LocalsOK(d)
         /\ \A V, vs : OwnOK(V, c, vs) => OwnOK(V, d, vs)
BY DEF Alike, RootsOf, LeavingOf, DeepOf, LocalsOK, OpOK, TidsOK, OwnOK, UpdateOK

LEMMA RootsIn1 ==
  ASSUME NEW cs, NEW vs, NEW t \in Threads
  PROVE  RootsOf(cs[t]) \subseteq RootsIn(cs, vs) /\ DOMAIN vs \subseteq RootsIn(cs, vs)
         /\ LeavingOf(cs[t]) \subseteq LeavingIn(cs) /\ DeepOf(cs[t]) \subseteq DeepIn(cs)
BY DEF RootsIn, LeavingIn, DeepIn

\* The roots after a step of the call of t.
LEMMA RootsChanged ==
  ASSUME NEW cs, NEW vs, Calls(cs, vs), NEW t \in Threads,
         NEW cs2 \in [Threads -> Call], Beside(cs, cs2, t), NEW vs2, DOMAIN vs2 = DOMAIN vs
  PROVE  /\ RootsIn(cs2, vs2) = (RootsIn(cs, vs) \ RootsOf(cs[t])) \cup RootsOf(cs2[t])
         /\ LeavingIn(cs2) = (LeavingIn(cs) \ LeavingOf(cs[t])) \cup LeavingOf(cs2[t])
         /\ DeepIn(cs) \ DeepOf(cs[t]) \subseteq DeepIn(cs2)
         /\ DeepOf(cs2[t]) \subseteq DeepIn(cs2)
<1>1. \A u \in Threads \ {t} : /\ RootsOf(cs2[u]) = RootsOf(cs[u])
                               /\ LeavingOf(cs2[u]) = LeavingOf(cs[u])
                               /\ DeepOf(cs2[u]) = DeepOf(cs[u])
                               /\ RootsOf(cs[u]) \cap RootsOf(cs[t]) = {}
                               /\ LeavingOf(cs[u]) \subseteq RootsOf(cs[u])
  <2> SUFFICES ASSUME NEW u \in Threads \ {t}
               PROVE  /\ RootsOf(cs2[u]) = RootsOf(cs[u])
                      /\ LeavingOf(cs2[u]) = LeavingOf(cs[u])
                      /\ DeepOf(cs2[u]) = DeepOf(cs[u])
                      /\ RootsOf(cs[u]) \cap RootsOf(cs[t]) = {}
                      /\ LeavingOf(cs[u]) \subseteq RootsOf(cs[u])
    OBVIOUS
  <2>1. cs[u] \in Call /\ cs2[u] \in Call /\ Alike(cs[u], cs2[u])
    BY DEF Calls, Beside
  <2>2. RootsOf(cs[u]) \cap RootsOf(cs[t]) = {}
    BY DEF Calls
  <2>3. LeavingOf(cs[u]) \subseteq RootsOf(cs[u])
    BY DEF LeavingOf, RootsOf
  <2> QED
    BY <2>1, <2>2, <2>3, AlikeOK
<1>2. RootsOf(cs[t]) \cap DOMAIN vs = {} /\ LeavingOf(cs[t]) \subseteq RootsOf(cs[t])
  BY DEF Calls, LeavingOf, RootsOf
<1>3. RootsIn(cs2, vs2) = (RootsIn(cs, vs) \ RootsOf(cs[t])) \cup RootsOf(cs2[t])
  <2> DEFINE N == RootsIn(cs2, vs2)
             M == RootsIn(cs, vs)
  <2>1. ASSUME NEW x \in N PROVE x \in (M \ RootsOf(cs[t])) \cup RootsOf(cs2[t])
    <3>1. CASE x \in DOMAIN vs
      BY <1>2, <3>1 DEF RootsIn
    <3>2. CASE x \notin DOMAIN vs
      <4>1. PICK u \in Threads : x \in RootsOf(cs2[u])
        BY <2>1, <3>2 DEF RootsIn
      <4>2. CASE u # t
        BY <1>1, <4>1, <4>2 DEF RootsIn
      <4> QED
        BY <4>1, <4>2
    <3> QED
      BY <3>1, <3>2
  <2>2. ASSUME NEW x \in (M \ RootsOf(cs[t])) \cup RootsOf(cs2[t]) PROVE x \in N
    <3>1. CASE x \in RootsOf(cs2[t])
      BY <3>1 DEF RootsIn
    <3>2. CASE x \notin RootsOf(cs2[t]) /\ x \in DOMAIN vs
      BY <3>2 DEF RootsIn
    <3>3. CASE x \notin RootsOf(cs2[t]) /\ x \notin DOMAIN vs
      <4>1. PICK u \in Threads : x \in RootsOf(cs[u])
        BY <2>2, <3>3 DEF RootsIn
      <4>2. u # t
        BY <2>2, <3>3, <4>1
      <4> QED
        BY <1>1, <4>1, <4>2 DEF RootsIn
    <3> QED
      BY <3>1, <3>2, <3>3
  <2> QED
    BY <2>1, <2>2
<1>4. LeavingIn(cs2) = (LeavingIn(cs) \ LeavingOf(cs[t])) \cup LeavingOf(cs2[t])
  <2> DEFINE N == LeavingIn(cs2)
             M == LeavingIn(cs)
  <2>1. ASSUME NEW x \in N PROVE x \in (M \ LeavingOf(cs[t])) \cup LeavingOf(cs2[t])
    <3>1. PICK u \in Threads : x \in LeavingOf(cs2[u])
      BY <2>1 DEF LeavingIn
    <3>2. CASE u # t
      BY <1>1, <1>2, <3>1, <3>2 DEF LeavingIn
    <3> QED
      BY <3>1, <3>2
  <2>2. ASSUME NEW x \in (M \ LeavingOf(cs[t])) \cup LeavingOf(cs2[t]) PROVE x \in N
    <3>1. CASE x \in LeavingOf(cs2[t])
      BY <3>1 DEF LeavingIn
    <3>2. CASE x \notin LeavingOf(cs2[t])
      <4>1. PICK u \in Threads : x \in LeavingOf(cs[u])
        BY <2>2, <3>2 DEF LeavingIn
      <4>2. u # t
        BY <2>2, <3>2, <4>1
      <4> QED
        BY <1>1, <4>1, <4>2 DEF LeavingIn
    <3> QED
      BY <3>1, <3>2
  <2> QED
    BY <2>1, <2>2
<1>5. DeepIn(cs) \ DeepOf(cs[t]) \subseteq DeepIn(cs2)
  BY <1>1 DEF DeepIn
<1>6. DeepOf(cs2[t]) \subseteq DeepIn(cs2)
  BY DEF DeepIn
<1> QED
  BY <1>3, <1>4, <1>5, <1>6

\* A step of the call of t, on the same TID.
LEMMA CallsKept ==
  ASSUME NEW cs, NEW vs, Calls(cs, vs), NEW t \in Threads,
         NEW cs2 \in [Threads -> Call], Beside(cs, cs2, t),
         LocalsOK(cs2[t]), cs2[t].op = cs[t].op,
         cs[t].tids # << >> => cs2[t].tids # << >> /\ cs2[t].tids[1] = cs[t].tids[1],
         RootsOf(cs2[t]) \subseteq RootsOf(cs[t]) \cup (TIDs \ RootsIn(cs, vs))
  PROVE  Calls(cs2, vs)
<1>0. \A u \in Threads \ {t} : /\ cs2[u].op = cs[u].op /\ cs2[u].tids = cs[u].tids
                               /\ RootsOf(cs2[u]) = RootsOf(cs[u]) /\ LocalsOK(cs2[u])
  <2> SUFFICES ASSUME NEW u \in Threads \ {t}
               PROVE  /\ cs2[u].op = cs[u].op /\ cs2[u].tids = cs[u].tids
                      /\ RootsOf(cs2[u]) = RootsOf(cs[u]) /\ LocalsOK(cs2[u])
    OBVIOUS
  <2>1. cs[u] \in Call /\ cs2[u] \in Call /\ Alike(cs[u], cs2[u]) /\ LocalsOK(cs[u])
    BY DEF Calls, Beside
  <2> QED
    BY <2>1, AlikeOK DEF Alike
<1>1. cs[t].tids = << >> => cs2[t].tids = << >>
  <2>1. Len(<< >>) = 0
    OBVIOUS
  <2>2. LocalsOK(cs[t])
    BY DEF Calls
  <2> QED
    BY <2>1, <2>2 DEF LocalsOK, TidsOK, Call, AllOps
<1>2. cs[t].op \in {"lookup", "update"} => cs[t].tids # << >>
  BY DEF Calls, LocalsOK, TidsOK
<1>3. ASSUME NEW u \in Threads
      PROVE  /\ LocalsOK(cs2[u])
             /\ cs2[u].op # "none" => cs2[u].op \in Ops[u]
             /\ cs2[u].op \in {"lookup", "update"} => cs2[u].tids[1] \in DOMAIN vs
             /\ RootsOf(cs2[u]) \cap DOMAIN vs = {}
  <2>0. /\ cs[u].op # "none" => cs[u].op \in Ops[u]
        /\ cs[u].op \in {"lookup", "update"} => cs[u].tids[1] \in DOMAIN vs
        /\ RootsOf(cs[u]) \cap DOMAIN vs = {}
    BY DEF Calls
  <2>1. CASE u = t
    BY <1>2, <2>0, <2>1, RootsIn1
  <2>2. CASE u # t
    BY <1>0, <2>0, <2>2
  <2> QED
    BY <2>1, <2>2
<1>4. ASSUME NEW u \in Threads \ {t}
      PROVE  /\ cs2[t].tids # << >> /\ cs[u].tids # << >> => cs2[t].tids[1] # cs[u].tids[1]
             /\ RootsOf(cs2[t]) \cap RootsOf(cs[u]) = {}
  <2>1. /\ cs[t].tids # << >> /\ cs[u].tids # << >> => cs[t].tids[1] # cs[u].tids[1]
        /\ RootsOf(cs[t]) \cap RootsOf(cs[u]) = {}
    BY DEF Calls
  <2> QED
    BY <1>1, <2>1, RootsIn1
<1>5. ASSUME NEW u \in Threads, NEW w \in Threads, u # w
      PROVE  /\ cs2[u].tids # << >> /\ cs2[w].tids # << >> => cs2[u].tids[1] # cs2[w].tids[1]
             /\ RootsOf(cs2[u]) \cap RootsOf(cs2[w]) = {}
  <2>1. CASE u = t
    BY <1>0, <1>4, <1>5, <2>1
  <2>2. CASE w = t
    BY <1>0, <1>4, <1>5, <2>2
  <2>3. CASE u # t /\ w # t
    BY <1>0, <1>5, <2>3 DEF Calls
  <2> QED
    BY <2>1, <2>2, <2>3
<1>6. DOMAIN vs \subseteq TIDs /\ \A x \in DOMAIN vs : vs[x] \in Records
  BY DEF Calls
<1> QED
  BY <1>3, <1>5, <1>6 DEF Calls

\* The slots a call may change: free ones, and those it alone knows of.
Its(V, c, x) == \/ IsVoid(V[x])
                \/ x \in RootsOf(c)
                \/ c.op = "update" /\ (x = c.tids[1] \/ (Len(c.tids) = 2 /\ x = c.tids[2]))

\* V and W differ in slots of the call c at most.
Changes(V, W, c) ==
    /\ W \in [TIDs -> Views]
    /\ \A x \in TIDs : Its(V, c, x) \/ W[x] = V[x]

\* Two calls insert or update only if they are one.
LEMMA OneWriterCalls ==
  ASSUME OneWriter, NEW cs, NEW vs, Calls(cs, vs), NEW t \in Threads, NEW u \in Threads,
         cs[t].op \in {"insert", "update"}, cs[u].op \in {"insert", "update"}
  PROVE  t = u
<1>1. cs[t].op \in Ops[t] /\ cs[u].op \in Ops[u]
  BY DEF Calls
<1>2. Ops[t] \cap {"insert", "update"} # {} /\ Ops[u] \cap {"insert", "update"} # {}
  BY <1>1
<1> QED
  BY <1>2 DEF OneWriter

\* A TID of the clients: it is a root, and what it leads to is not.
LEMMA RootFacts ==
  ASSUME NEW V, NEW cs, NEW vs, Linked(V, cs, vs), NEW x \in DOMAIN vs
  PROVE  /\ x \in TIDs /\ x \in RootsIn(cs, vs) /\ x \notin LeavingIn(cs) /\ ~IsVoid(V[x])
         /\ V \in [TIDs -> Views]
         /\ Follow(V, x) \in TIDs /\ ~IsVoid(V[Follow(V, x)])
         /\ IsWay(V[x]) => /\ x \in Live(V, LeavingIn(cs))
                           /\ V[x].to \in TIDs \ RootsIn(cs, vs)
<1>1. x \in RootsIn(cs, vs) /\ x \in TIDs
  BY DEF RootsIn, Linked, Calls
<1>2. x \notin LeavingIn(cs)
  BY DEF Linked, Calls, LeavingIn, LeavingOf, RootsOf
<1>3. Forest(V, RootsIn(cs, vs), LeavingIn(cs), DeepIn(cs))
  BY DEF Linked
<1>4. ~IsVoid(V[x]) /\ V \in [TIDs -> Views]
  BY <1>1, <1>3 DEF Forest
<1>5. ASSUME IsWay(V[x])
      PROVE  /\ x \in Live(V, LeavingIn(cs)) /\ V[x].to \in TIDs \ RootsIn(cs, vs)
             /\ ~IsVoid(V[V[x].to])
  <2>1. x \in Live(V, LeavingIn(cs))
    BY <1>1, <1>2, <1>5 DEF Live
  <2> QED
    BY <1>3, <2>1 DEF Forest
<1> QED
  BY <1>1, <1>2, <1>4, <1>5 DEF Follow

\* An update and its slots.
LEMMA UpdateFacts ==
  ASSUME NEW V, NEW cs, NEW vs, Linked(V, cs, vs), NEW t \in Threads, cs[t].op = "update"
  PROVE  LET c == cs[t]
             x == c.tids[1]
             y == c.tids[2]
         IN  /\ c \in Call /\ LocalsOK(c) /\ c.tids \in Seq(TIDs) /\ Len(c.tids) \in {1, 2}
             /\ x \in DOMAIN vs /\ UpdateOK(V, c, vs)
             /\ Len(c.tids) = 2 /\ c.pc # "free" => /\ V[x] = Way(y) /\ y \in TIDs \ RootsIn(cs, vs)
                                                    /\ IsWay(V[x]) /\ V[x].to = y
<1> DEFINE c == cs[t]
           x == c.tids[1]
           y == c.tids[2]
<1>1. c \in Call /\ LocalsOK(c) /\ x \in DOMAIN vs
  BY DEF Linked, Calls
<1>2. c.tids \in Seq(TIDs) /\ Len(c.tids) \in {1, 2}
  <2>1. c.tids \in Seq(TIDs)
    BY <1>1 DEF Call
  <2>2. Len(c.tids) \in Nat
    BY <2>1, TidsFacts
  <2>3. 1 <= Len(c.tids) /\ Len(c.tids) <= 2
    BY <1>1, <2>2 DEF LocalsOK, TidsOK
  <2>4. Len(c.tids) \in {1, 2}
    <3>1. \A n \in Nat : 1 <= n /\ n <= 2 => n \in {1, 2}
      OBVIOUS
    <3> HIDE DEF c
    <3> QED
      BY <2>2, <2>3, <3>1
  <2> QED
    BY <2>1, <2>4
<1>3. UpdateOK(V, c, vs)
  BY DEF Linked, Contents, OwnOK
<1>4. ASSUME Len(c.tids) = 2, c.pc # "free"
      PROVE  V[x] = Way(y) /\ IsWay(V[x]) /\ V[x].to = y /\ y \in TIDs \ RootsIn(cs, vs)
  <2>1. V[x] = Way(y) /\ y \in TIDs
    BY <1>2, <1>3, <1>4, TidsFacts DEF UpdateOK
  <2>2. IsWay(V[x]) /\ V[x].to = y
    BY <2>1, ViewsFacts
  <2> QED
    BY <1>1, <2>1, <2>2, RootFacts
<1> QED
  BY <1>1, <1>2, <1>3, <1>4

\* No slot of one call is the TID of another client, or where that leads.
LEMMA OthersKept ==
  ASSUME NEW V, NEW cs, NEW vs, Linked(V, cs, vs), NEW t \in Threads,
         NEW W, Changes(V, W, cs[t]),
         NEW x \in DOMAIN vs, cs[t].op = "update" => x # cs[t].tids[1]
  PROVE  /\ W[x] = V[x] /\ Follow(W, x) = Follow(V, x)
         /\ W[Follow(V, x)] = V[Follow(V, x)]
         /\ \A r : Leads(V, x, r) => Leads(W, x, r)
<1> DEFINE c == cs[t]
           z == Follow(V, x)
<1>1. /\ x \in TIDs /\ x \in RootsIn(cs, vs) /\ ~IsVoid(V[x])
      /\ z \in TIDs /\ ~IsVoid(V[z])
      /\ IsWay(V[x]) => x \in Live(V, LeavingIn(cs)) /\ z \in TIDs \ RootsIn(cs, vs) /\ z = V[x].to
      /\ ~IsWay(V[x]) => z = x
  BY RootFacts DEF Follow
<1>2. x \notin RootsOf(c) /\ RootsOf(c) \subseteq RootsIn(cs, vs)
  BY RootsIn1 DEF Linked, Calls
<1> HIDE DEF z
<1>3. ~Its(V, c, x)
  <2>1. CASE c.op = "update"
    <3>1. Len(c.tids) = 2 /\ c.pc # "free" => c.tids[2] \notin RootsIn(cs, vs)
      BY <2>1, UpdateFacts
    <3>2. Len(c.tids) = 2 /\ c.pc = "free" => c.tids[2] \in RootsOf(c)
      BY <2>1, UpdateFacts, TidsFacts DEF RootsOf
    <3> QED
      BY <1>1, <1>2, <2>1, <3>1, <3>2 DEF Its
  <2>2. CASE c.op # "update"
    BY <1>1, <1>2, <2>2 DEF Its
  <2> QED
    BY <2>1, <2>2
<1>4. ASSUME IsWay(V[x])
      PROVE  ~Its(V, c, z)
  <2>1. z \notin RootsOf(c)
    BY <1>1, <1>2, <1>4
  <2>2. CASE c.op = "update"
    <3>1. c.tids[1] \in DOMAIN vs
      BY <2>2, UpdateFacts
    <3>2. z # c.tids[1]
      BY <1>1, <1>4, <3>1 DEF RootsIn
    <3>3. ASSUME Len(c.tids) = 2, c.pc # "free", z = c.tids[2]
          PROVE  FALSE
      <4>1. IsWay(V[c.tids[1]]) /\ V[c.tids[1]].to = z
        BY <2>2, <3>3, UpdateFacts
      <4>2. c.tids[1] \in Live(V, LeavingIn(cs))
        BY <3>1, <4>1, RootFacts
      <4>3. Forest(V, RootsIn(cs, vs), LeavingIn(cs), DeepIn(cs))
        BY DEF Linked
      <4> QED
        BY <1>1, <1>4, <2>2, <4>1, <4>2, <4>3 DEF Forest
    <3>4. Len(c.tids) = 2 /\ c.pc = "free" => c.tids[2] \in RootsOf(c)
      BY <2>2, UpdateFacts, TidsFacts DEF RootsOf
    <3> QED
      BY <1>1, <2>1, <2>2, <3>2, <3>3, <3>4 DEF Its
  <2>3. CASE c.op # "update"
    BY <1>1, <2>1, <2>3 DEF Its
  <2> QED
    BY <2>2, <2>3
<1>5. W[x] = V[x]
  BY <1>1, <1>3 DEF Changes
<1>6. W[z] = V[z]
  BY <1>1, <1>4, <1>5 DEF Changes
<1>7. Follow(W, x) = z
  BY <1>5 DEF Follow, z
<1> QED
  BY <1>5, <1>6, <1>7 DEF z, Leads

\* A step of a call that inserts or updates leaves the records of others alone.
LEMMA ContentsWritten ==
  ASSUME OneWriter, NEW V, NEW cs, NEW vs, Linked(V, cs, vs), NEW t \in Threads,
         cs[t].op \in {"insert", "update"},
         NEW cs2 \in [Threads -> Call], Beside(cs, cs2, t), Calls(cs2, vs),
         cs2[t].op = cs[t].op, cs[t].op = "update" => cs2[t].tids[1] = cs[t].tids[1],
         NEW W, Changes(V, W, cs[t]), OwnOK(W, cs2[t], vs)
  PROVE  Contents(W, cs2, vs)
<1>0. Calls(cs, vs) /\ Contents(V, cs, vs)
  BY DEF Linked
<1>1. ASSUME NEW u \in Threads, u # t
      PROVE  OwnOK(W, cs2[u], vs)
  <2>1. cs[u] \in Call /\ cs2[u] \in Call /\ Alike(cs[u], cs2[u]) /\ LocalsOK(cs[u])
    BY <1>0, <1>1 DEF Calls, Beside
  <2>2. cs[u].op \notin {"insert", "update"}
    BY <1>0, <1>1, OneWriterCalls
  <2>3. ASSUME cs[u].op = "lookup", Len(cs[u].tids) = 2
        PROVE  W[cs[u].tids[1]] = Way(cs[u].tids[2])
    <3>1. V[cs[u].tids[1]] = Way(cs[u].tids[2])
      BY <1>0, <2>3 DEF Contents, OwnOK
    <3>2. cs[u].tids[1] \in DOMAIN vs
      BY <1>0, <2>3 DEF Calls
    <3>3. cs[t].op = "update" => cs[u].tids[1] # cs[t].tids[1]
      <4>1. cs[u].tids # << >> /\ (cs[t].op = "update" => cs[t].tids # << >>)
        BY <1>0, <2>3, EmptySeq DEF Calls, LocalsOK, TidsOK
      <4> QED
        BY <1>0, <1>1, <4>1 DEF Calls
    <3> QED
      BY <3>1, <3>2, <3>3, OthersKept
  <2>4. OwnOK(W, cs[u], vs)
    BY <2>2, <2>3 DEF OwnOK
  <2> QED
    BY <2>1, <2>4, AlikeOK
<1>2. ASSUME NEW x \in DOMAIN vs, Untouched(cs2, x)
      PROVE  Leads(W, x, vs[x])
  <2>1. cs[t].op = "update" => cs[t].tids[1] # x
    BY <1>2 DEF Untouched
  <2>2. Untouched(cs, x)
    <3> SUFFICES ASSUME NEW u \in Threads, cs[u].op = "update"
                 PROVE  cs[u].tids[1] # x
      BY DEF Untouched
    <3>1. CASE u = t
      BY <2>1, <3>1
    <3>2. CASE u # t
      BY <1>2, <3>2 DEF Untouched, Beside, Alike
    <3> QED
      BY <3>1, <3>2
  <2>3. Leads(V, x, vs[x])
    BY <1>0, <2>2 DEF Contents
  <2> QED
    BY <2>1, <2>3, OthersKept
<1> QED
  BY <1>1, <1>2 DEF Contents

\* So does a step of one that removes.
LEMMA ContentsRemoved ==
  ASSUME NEW V, NEW cs, NEW vs, Linked(V, cs, vs), NEW t \in Threads,
         cs[t].op = "remove",
         NEW cs2 \in [Threads -> Call], Beside(cs, cs2, t), cs2[t].op = "remove",
         NEW W, Changes(V, W, cs[t])
  PROVE  Contents(W, cs2, vs)
<1>0. Calls(cs, vs) /\ Contents(V, cs, vs) /\ Forest(V, RootsIn(cs, vs), LeavingIn(cs), DeepIn(cs))
  BY DEF Linked
<1>a. \A x \in DOMAIN vs : /\ W[x] = V[x] /\ Follow(W, x) = Follow(V, x)
                           /\ W[Follow(V, x)] = V[Follow(V, x)]
                           /\ \A r : Leads(V, x, r) => Leads(W, x, r)
  BY OthersKept
<1>b. RootsOf(cs[t]) \subseteq RootsIn(cs, vs)
  BY RootsIn1
<1>c. V \in [TIDs -> Views]
  BY <1>0 DEF Forest
<1>d. ASSUME NEW z \in TIDs, ~IsVoid(V[z]), z \notin RootsOf(cs[t])
      PROVE  W[z] = V[z]
  BY <1>d DEF Changes, Its
<1>1. ASSUME NEW u \in Threads, u # t
      PROVE  OwnOK(W, cs2[u], vs)
  <2> DEFINE c == cs[u]
             x == c.tids[1]
             y == c.tids[2]
  <2>1. cs[u] \in Call /\ cs2[u] \in Call /\ Alike(cs[u], cs2[u]) /\ LocalsOK(cs[u])
    BY <1>0, <1>1 DEF Calls, Beside
  <2>2. RootsOf(c) \cap RootsOf(cs[t]) = {}
    BY <1>0, <1>1 DEF Calls
  <2>3. ASSUME c.op = "lookup", Len(c.tids) = 2
        PROVE  W[x] = Way(y)
    <3>1. V[x] = Way(y)
      BY <1>0, <2>3 DEF Contents, OwnOK
    <3>2. x \in DOMAIN vs
      BY <1>0, <2>3 DEF Calls
    <3> QED
      BY <1>a, <3>1, <3>2
  <2>4. ASSUME c.op = "insert", c.pc = "return"
        PROVE  W[c.result] = Rec(c.rec)
    <3>1. V[c.result] = Rec(c.rec) /\ c.result \in TIDs
      BY <1>0, <2>1, <2>4 DEF Contents, OwnOK, LocalsOK
    <3>2. c.result \notin RootsOf(cs[t])
      BY <2>2, <2>4 DEF RootsOf
    <3>3. c.result \in RootsIn(cs, vs)
      BY <2>4, RootsIn1 DEF RootsOf
    <3>4. ~IsVoid(V[c.result])
      BY <1>0, <3>3 DEF Forest
    <3> QED
      BY <1>d, <3>1, <3>2, <3>4
  <2>5. ASSUME c.op = "update"
        PROVE  UpdateOK(W, c, vs)
    <3>1. /\ c.tids \in Seq(TIDs) /\ Len(c.tids) \in {1, 2} /\ LocalsOK(c)
          /\ x \in DOMAIN vs /\ UpdateOK(V, c, vs)
          /\ Len(c.tids) = 2 /\ c.pc # "free" => /\ V[x] = Way(y) /\ y \in TIDs \ RootsIn(cs, vs)
                                                 /\ IsWay(V[x]) /\ V[x].to = y
      BY <2>5, UpdateFacts
    <3>2. W[x] = V[x] /\ \A r : Leads(V, x, r) => Leads(W, x, r)
      BY <1>a, <3>1
    <3>3. ASSUME Len(c.tids) = 2
          PROVE  y \in TIDs /\ W[y] = V[y]
                 /\ (IsWay(V[y]) => W[V[y].to] = V[V[y].to])
      <4>1. y \in TIDs
        BY <3>1, <3>3, TidsFacts
      <4>2. CASE c.pc = "free"
        <5>1. y \in RootsOf(c) /\ y \notin RootsOf(cs[t])
          BY <2>2, <3>1, <3>3, <4>2, TidsFacts DEF RootsOf
        <5>2. V[x] = V[y]
          BY <3>1, <4>2 DEF UpdateOK
        <5>3. x \in RootsIn(cs, vs)
          BY <3>1 DEF RootsIn
        <5>4. ~IsVoid(V[y])
          BY <1>0, <5>2, <5>3 DEF Forest
        <5>5. W[y] = V[y]
          BY <1>d, <4>1, <5>1, <5>4
        <5>6. IsWay(V[y]) => W[V[y].to] = V[V[y].to]
          BY <1>a, <3>1, <5>2 DEF Follow
        <5> QED
          BY <4>1, <5>5, <5>6
      <4>3. CASE c.pc # "free"
        <5>1. /\ y \notin RootsIn(cs, vs) /\ V[x].to = y /\ IsWay(V[x])
          BY <3>1, <3>3, <4>3
        <5>2. W[y] = V[y]
          BY <1>a, <3>1, <5>1 DEF Follow
        <5>3. ASSUME IsWay(V[y])
              PROVE  W[V[y].to] = V[V[y].to]
          <6>1. LeavingIn(cs) \subseteq RootsIn(cs, vs)
            BY <1>0 DEF Forest
          <6>2. y \in Live(V, LeavingIn(cs))
            BY <4>1, <5>1, <5>3, <6>1 DEF Live
          <6>3. V[y].to \in TIDs \ RootsIn(cs, vs) /\ ~IsVoid(V[V[y].to])
            BY <1>0, <6>2 DEF Forest
          <6> QED
            BY <1>b, <1>d, <6>3
        <5> QED
          BY <4>1, <5>2, <5>3
      <4> QED
        BY <4>2, <4>3
    <3>4. ASSUME c.pc \in {"scan", "compact", "place", "point"}
          PROVE  W[Last(c.tids)] = Rec(<< >>)
      <4>1. V[Last(c.tids)] = Rec(<< >>)
        BY <3>1, <3>4 DEF UpdateOK
      <4>2. Last(c.tids) = IF Len(c.tids) = 1 THEN x ELSE y
        BY <3>1, TidsFacts
      <4> QED
        BY <3>1, <3>2, <3>3, <4>1, <4>2
    <3>5. ASSUME c.pc = "point"
          PROVE  W[c.result] = Rec(c.rec)
      <4>1. V[c.result] = Rec(c.rec) /\ c.result \in TIDs
        BY <2>1, <3>1, <3>5 DEF UpdateOK, LocalsOK
      <4>2. c.result \notin RootsOf(cs[t])
        BY <2>2, <3>5 DEF RootsOf
      <4>3. c.result \in RootsIn(cs, vs)
        BY <3>5, RootsIn1 DEF RootsOf
      <4>4. ~IsVoid(V[c.result])
        BY <1>0, <4>3 DEF Forest
      <4> QED
        BY <1>d, <4>1, <4>2, <4>4
    <3>6. c.pc \in {"check", "skip", "free"} => Len(c.tids) = 2
      BY <2>1 DEF LocalsOK, TidsOK
    <3>7. ASSUME Len(c.tids) = 2, Leads(V, y, c.rec)
          PROVE  Leads(W, y, c.rec)
      BY <3>3, <3>7 DEF Leads, Follow
    <3> QED
      BY <3>1, <3>2, <3>3, <3>4, <3>5, <3>6, <3>7 DEF UpdateOK
  <2>6. OwnOK(W, cs[u], vs)
    BY <2>3, <2>4, <2>5 DEF OwnOK
  <2> QED
    BY <2>1, <2>6, AlikeOK
<1>2. OwnOK(W, cs2[t], vs)
  BY DEF OwnOK
<1>3. ASSUME NEW x \in DOMAIN vs, Untouched(cs2, x)
      PROVE  Leads(W, x, vs[x])
  <2>1. Untouched(cs, x)
    BY <1>3 DEF Untouched, Beside, Alike
  <2> QED
    BY <1>0, <1>a, <2>1 DEF Contents
<1> QED
  BY <1>1, <1>2, <1>3 DEF Contents

\* A step that changes no slot.
LEMMA StillLinked ==
  ASSUME NEW V, NEW cs, NEW vs, Linked(V, cs, vs), NEW t \in Threads,
         NEW cs2 \in [Threads -> Call], Beside(cs, cs2, t), Calls(cs2, vs),
         RootsOf(cs2[t]) = RootsOf(cs[t]), LeavingOf(cs2[t]) = LeavingOf(cs[t]),
         \A x \in DeepOf(cs[t]) \ DeepOf(cs2[t]) : ~IsWay(V[V[x].to]),
         OwnOK(V, cs2[t], vs),
         cs[t].op = "update" => cs2[t].op = "update" /\ cs2[t].tids[1] = cs[t].tids[1]
  PROVE  Linked(V, cs2, vs)
<1>0. Calls(cs, vs) /\ Contents(V, cs, vs) /\ Forest(V, RootsIn(cs, vs), LeavingIn(cs), DeepIn(cs))
  BY DEF Linked
<1>1. /\ RootsIn(cs2, vs) = (RootsIn(cs, vs) \ RootsOf(cs[t])) \cup RootsOf(cs2[t])
      /\ LeavingIn(cs2) = (LeavingIn(cs) \ LeavingOf(cs[t])) \cup LeavingOf(cs2[t])
      /\ DeepIn(cs) \ DeepOf(cs[t]) \subseteq DeepIn(cs2)
      /\ DeepOf(cs2[t]) \subseteq DeepIn(cs2)
  BY <1>0, RootsChanged
<1>2. RootsIn(cs2, vs) = RootsIn(cs, vs) /\ LeavingIn(cs2) = LeavingIn(cs)
  BY <1>1, RootsIn1
<1>3. \A x \in Live(V, LeavingIn(cs)) : IsWay(V[V[x].to]) /\ x \in DeepIn(cs) => x \in DeepIn(cs2)
  BY <1>1
<1>4. Forest(V, RootsIn(cs, vs), LeavingIn(cs), DeepIn(cs2))
  BY <1>0, <1>3, ForestDeep
<1>5. ASSUME NEW u \in Threads
      PROVE  OwnOK(V, cs2[u], vs)
  <2>1. CASE u = t
    BY <2>1
  <2>2. CASE u # t
    <3>1. cs[u] \in Call /\ cs2[u] \in Call /\ Alike(cs[u], cs2[u]) /\ OwnOK(V, cs[u], vs)
      BY <1>0, <2>2 DEF Calls, Beside, Contents
    <3> QED
      BY <3>1, AlikeOK
  <2> QED
    BY <2>1, <2>2
<1>6. ASSUME NEW x \in DOMAIN vs, Untouched(cs2, x)
      PROVE  Leads(V, x, vs[x])
  <2>1. Untouched(cs, x)
    BY <1>6 DEF Untouched, Beside, Alike
  <2> QED
    BY <1>0, <2>1 DEF Contents
<1>7. Contents(V, cs2, vs)
  BY <1>5, <1>6 DEF Contents
<1> QED
  BY <1>2, <1>4, <1>7 DEF Linked

-----------------------------------------------------------------------------
(***************************************************************************)
(* The steps of the calls, on what the slots are to them.                  *)
(***************************************************************************)
LEMMA Stepped ==
  ASSUME NEW cs \in [Threads -> Call], NEW t \in Threads, NEW d \in Call
  PROVE  LET cs2 == [cs EXCEPT ![t] = d]
         IN  cs2 \in [Threads -> Call] /\ cs2[t] = d /\ Beside(cs, cs2, t)
BY DEF Beside, Alike

\* A step that changes no slot.
LEMMA StillStep ==
  ASSUME NEW V, NEW cs, NEW vs, Linked(V, cs, vs), NEW t \in Threads,
         NEW d \in Call, LocalsOK(d), d.op = cs[t].op,
         cs[t].tids # << >> => d.tids # << >> /\ d.tids[1] = cs[t].tids[1],
         RootsOf(d) = RootsOf(cs[t]), LeavingOf(d) = LeavingOf(cs[t]),
         \A x \in DeepOf(cs[t]) \ DeepOf(d) : ~IsWay(V[V[x].to]),
         OwnOK(V, d, vs)
  PROVE  Linked(V, [cs EXCEPT ![t] = d], vs)
<1> DEFINE cs2 == [cs EXCEPT ![t] = d]
<1>0. Calls(cs, vs) /\ cs \in [Threads -> Call]
  BY DEF Linked, Calls
<1>1. cs2 \in [Threads -> Call] /\ cs2[t] = d /\ Beside(cs, cs2, t)
  BY <1>0, Stepped
<1> HIDE DEF cs2
<1>2. Calls(cs2, vs)
  BY <1>0, <1>1, CallsKept
<1>3. cs[t].op = "update" => cs2[t].op = "update" /\ cs2[t].tids[1] = cs[t].tids[1]
  BY <1>0, <1>1, UpdateFacts, TidsFacts
<1>4. Linked(V, cs2, vs)
  BY <1>1, <1>2, <1>3, StillLinked
<1> QED
  BY <1>4 DEF cs2

\* A step that changes slots: of the one that inserts and updates, or of one that removes.
LEMMA StepLinked ==
  ASSUME OneWriter, NEW V, NEW cs, NEW vs, Linked(V, cs, vs), NEW t \in Threads,
         cs[t].op \in {"insert", "update", "remove"},
         NEW d \in Call, LocalsOK(d), d.op = cs[t].op,
         cs[t].tids # << >> => d.tids # << >> /\ d.tids[1] = cs[t].tids[1],
         RootsOf(d) \subseteq RootsOf(cs[t]) \cup (TIDs \ RootsIn(cs, vs)),
         NEW W, Changes(V, W, cs[t]), OwnOK(W, d, vs),
         NEW roots, roots = (RootsIn(cs, vs) \ RootsOf(cs[t])) \cup RootsOf(d),
         NEW leaving, leaving = (LeavingIn(cs) \ LeavingOf(cs[t])) \cup LeavingOf(d),
         NEW deep, deep \subseteq (DeepIn(cs) \ DeepOf(cs[t])) \cup DeepOf(d),
         Forest(W, roots, leaving, deep)
  PROVE  Linked(W, [cs EXCEPT ![t] = d], vs)
<1> DEFINE cs2 == [cs EXCEPT ![t] = d]
<1>0. Calls(cs, vs) /\ cs \in [Threads -> Call]
  BY DEF Linked, Calls
<1>1. cs2 \in [Threads -> Call] /\ cs2[t] = d /\ Beside(cs, cs2, t)
  BY <1>0, Stepped
<1> HIDE DEF cs2
<1>2. Calls(cs2, vs)
  BY <1>0, <1>1, CallsKept
<1>3. cs[t].op = "update" => cs2[t].tids[1] = cs[t].tids[1]
  BY <1>0, <1>1, UpdateFacts, TidsFacts
<1>4. /\ RootsIn(cs2, vs) = roots /\ LeavingIn(cs2) = leaving
      /\ deep \subseteq DeepIn(cs2)
  <2>1. /\ RootsIn(cs2, vs) = (RootsIn(cs, vs) \ RootsOf(cs[t])) \cup RootsOf(cs2[t])
        /\ LeavingIn(cs2) = (LeavingIn(cs) \ LeavingOf(cs[t])) \cup LeavingOf(cs2[t])
        /\ DeepIn(cs) \ DeepOf(cs[t]) \subseteq DeepIn(cs2)
        /\ DeepOf(cs2[t]) \subseteq DeepIn(cs2)
    BY <1>0, <1>1, RootsChanged
  <2> QED
    BY <1>1, <2>1
<1>5. Forest(W, roots, leaving, DeepIn(cs2))
  BY <1>4, ForestDeep
<1>6. Contents(W, cs2, vs)
  <2>1. CASE cs[t].op = "remove"
    BY <1>1, <2>1, ContentsRemoved
  <2>2. CASE cs[t].op # "remove"
    <3>1. cs[t].op \in {"insert", "update"} /\ OwnOK(W, cs2[t], vs) /\ cs2[t].op = cs[t].op
      BY <1>1, <2>2
    <3> QED
      BY <1>1, <1>2, <1>3, <3>1, ContentsWritten
  <2> QED
    BY <2>1, <2>2
<1>7. Linked(W, cs2, vs)
  BY <1>2, <1>4, <1>5, <1>6 DEF Linked
<1> QED
  BY <1>7 DEF cs2

\* What is known of a call.
LEMMA CallFacts ==
  ASSUME NEW V, NEW cs, NEW vs, Linked(V, cs, vs), NEW t \in Threads
  PROVE  LET c == cs[t]
         IN  /\ cs \in [Threads -> Call] /\ c \in Call /\ LocalsOK(c) /\ OpOK(c) /\ TidsOK(c)
             /\ c.tids \in Seq(TIDs)
             /\ c.op # "none" => c.op \in Ops[t]
             /\ OwnOK(V, c, vs)
             /\ Forest(V, RootsIn(cs, vs), LeavingIn(cs), DeepIn(cs))
             /\ V \in [TIDs -> Views]
             /\ RootsOf(c) \subseteq RootsIn(cs, vs)
             /\ LeavingIn(cs) \ LeavingOf(c) \subseteq TIDs \ RootsOf(c)
             /\ LeavingIn(cs) \subseteq RootsIn(cs, vs)
             /\ c.op \in {"insert", "update"} => c.rec \in Records /\ c.rec \in Seq(Units)
                                                 /\ c.rec \in Seq(Units \cup {Junk})
             /\ c.op \in {"lookup", "update"} => /\ c.tids[1] \in DOMAIN vs
                                                 /\ c.tids # << >> /\ Len(c.tids) \in {1, 2}
                                                 /\ Last(c.tids) \in TIDs
<1> DEFINE c == cs[t]
<1>1. /\ cs \in [Threads -> Call] /\ c \in Call /\ LocalsOK(c) /\ OpOK(c) /\ TidsOK(c)
      /\ c.op # "none" => c.op \in Ops[t]
      /\ OwnOK(V, c, vs)
      /\ Forest(V, RootsIn(cs, vs), LeavingIn(cs), DeepIn(cs))
      /\ c.op \in {"lookup", "update"} => c.tids[1] \in DOMAIN vs
  BY DEF Linked, Calls, Contents, LocalsOK
<1>2. c.tids \in Seq(TIDs)
  BY <1>1 DEF Call
<1>3. V \in [TIDs -> Views] /\ LeavingIn(cs) \subseteq RootsIn(cs, vs) /\ RootsIn(cs, vs) \subseteq TIDs
  BY <1>1 DEF Forest
<1>4. RootsOf(c) \subseteq RootsIn(cs, vs)
  BY RootsIn1
<1>5. LeavingIn(cs) \ LeavingOf(c) \subseteq TIDs \ RootsOf(c)
  <2> SUFFICES ASSUME NEW x \in LeavingIn(cs) \ LeavingOf(c)
               PROVE  x \in TIDs \ RootsOf(c)
    OBVIOUS
  <2>1. PICK u \in Threads : x \in LeavingOf(cs[u])
    BY DEF LeavingIn
  <2>2. u # t
    BY <2>1
  <2>3. x \in RootsOf(cs[u])
    BY <2>1 DEF LeavingOf, RootsOf
  <2>4. x \notin RootsOf(c)
    BY <2>2, <2>3 DEF Linked, Calls
  <2> QED
    BY <1>3, <2>4
<1>6. c.op \in {"insert", "update"} => c.rec \in Records /\ c.rec \in Seq(Units)
                                        /\ c.rec \in Seq(Units \cup {Junk})
  BY <1>1, SegmentAssumption DEF LocalsOK
<1>7. ASSUME c.op \in {"lookup", "update"}
      PROVE  c.tids # << >> /\ Len(c.tids) \in {1, 2} /\ Last(c.tids) \in TIDs
  <2>1. Len(c.tids) \in Nat
    BY <1>2, TidsFacts
  <2>2. 1 <= Len(c.tids) /\ Len(c.tids) <= 2
    BY <1>1, <1>7 DEF TidsOK
  <2>3. \A n \in Nat : 1 <= n /\ n <= 2 => n \in {1, 2}
    OBVIOUS
  <2> HIDE DEF c
  <2>4. Len(c.tids) \in {1, 2}
    BY <2>1, <2>2, <2>3
  <2> QED
    BY <1>2, <2>2, <2>4, TidsFacts
<1> QED
  BY <1>1, <1>2, <1>3, <1>4, <1>5, <1>6, <1>7

\* insert looks for a page, or compacts one.
LEMMA Searching ==
  ASSUME NEW V, NEW cs, NEW vs, Linked(V, cs, vs), NEW t \in Threads,
         cs[t].pc \in {"scan", "compact"},
         NEW d \in Call, d.pc \in {"scan", "compact", "place"},
         d.op = cs[t].op, d.tids = cs[t].tids, d.rec = cs[t].rec
  PROVE  Linked(V, [cs EXCEPT ![t] = d], vs)
<1> DEFINE c == cs[t]
<1>1. LocalsOK(c) /\ OpOK(c) /\ TidsOK(c) /\ OwnOK(V, c, vs) /\ c.op \in {"insert", "update"}
  BY CallFacts DEF OpOK
<1>2. LocalsOK(d)
  BY <1>1 DEF LocalsOK, OpOK, TidsOK
<1>3. RootsOf(d) = RootsOf(c) /\ LeavingOf(d) = LeavingOf(c) /\ DeepOf(c) = {}
  BY DEF RootsOf, LeavingOf, DeepOf
<1>4. OwnOK(V, d, vs)
  BY <1>1 DEF OwnOK, UpdateOK
<1> QED
  BY <1>2, <1>3, <1>4, StillStep

\* What a client's TID leads to, nobody at work on it, is one step away.
LEMMA Near ==
  ASSUME NEW V, NEW cs, NEW vs, Linked(V, cs, vs), NEW x \in DOMAIN vs, x \notin DeepIn(cs)
  PROVE  /\ x \in TIDs /\ Follow(V, x) \in TIDs /\ ~IsWay(V[Follow(V, x)])
         /\ IsRec(V[Follow(V, x)])
<1>1. /\ x \in TIDs /\ V \in [TIDs -> Views] /\ Follow(V, x) \in TIDs /\ ~IsVoid(V[Follow(V, x)])
      /\ IsWay(V[x]) => x \in Live(V, LeavingIn(cs))
  BY RootFacts
<1>2. Forest(V, RootsIn(cs, vs), LeavingIn(cs), DeepIn(cs))
  BY DEF Linked
<1>3. ~IsWay(V[Follow(V, x)])
  BY <1>1, <1>2 DEF Forest, Follow
<1>4. V[Follow(V, x)] \in Views
  BY <1>1
<1> QED
  BY <1>1, <1>3, <1>4, ViewsFacts

\* A call that looks up is alone with its TID.
LEMMA LookupFacts ==
  ASSUME NEW V, NEW cs, NEW vs, Linked(V, cs, vs), NEW t \in Threads, cs[t].op = "lookup"
  PROVE  LET x == cs[t].tids[1]
         IN  /\ x \in DOMAIN vs /\ Untouched(cs, x) /\ x \notin DeepIn(cs)
             /\ Leads(V, x, vs[x])
<1> DEFINE x == cs[t].tids[1]
<1>1. x \in DOMAIN vs /\ cs[t].tids # << >>
  BY CallFacts
<1>2. ASSUME NEW u \in Threads, cs[u].op = "update"
      PROVE  cs[u].tids[1] # x
  <2>1. u # t /\ cs[u].tids # << >>
    BY <1>2, CallFacts
  <2> QED
    BY <1>1, <2>1 DEF Linked, Calls
<1>3. ASSUME x \in DeepIn(cs) PROVE FALSE
  <2>1. PICK u \in Threads : x \in DeepOf(cs[u])
    BY <1>3 DEF DeepIn
  <2>2. cs[u].pc \in {"check", "skip"} /\ x = cs[u].tids[1]
    BY <2>1 DEF DeepOf
  <2>3. OpOK(cs[u])
    BY CallFacts
  <2> QED
    BY <1>2, <2>2, <2>3 DEF OpOK
<1>4. Untouched(cs, x)
  BY <1>2 DEF Untouched
<1>5. Leads(V, x, vs[x])
  BY <1>1, <1>4 DEF Linked, Contents
<1> QED
  BY <1>1, <1>3, <1>4, <1>5

LEMMA LookupFollows ==
  ASSUME NEW V, NEW cs, NEW vs, Linked(V, cs, vs), NEW t \in Threads,
         cs[t].pc = "lookup", NEW l, l = Last(cs[t].tids), IsWay(V[l]),
         NEW d, d = [cs[t] EXCEPT !.tids = Append(@, V[l].to)]
  PROVE  d \in Call /\ Linked(V, [cs EXCEPT ![t] = d], vs)
<1> DEFINE c == cs[t]
           x == c.tids[1]
<1>1. c.op = "lookup"
  BY CallFacts DEF OpOK
<1>2. /\ x \in DOMAIN vs /\ x \notin DeepIn(cs)
      /\ c \in Call /\ LocalsOK(c) /\ OpOK(c) /\ TidsOK(c) /\ c.tids \in Seq(TIDs)
      /\ c.tids # << >> /\ Len(c.tids) \in {1, 2} /\ l \in TIDs
      /\ OwnOK(V, c, vs) /\ V \in [TIDs -> Views]
  BY <1>1, LookupFacts, CallFacts
<1>3. Len(c.tids) = 1
  <2>1. ASSUME Len(c.tids) = 2 PROVE FALSE
    <3>1. V[x] = Way(c.tids[2]) /\ l = c.tids[2] /\ l \in TIDs
      BY <1>1, <1>2, <2>1, TidsFacts DEF OwnOK
    <3>2. Follow(V, x) = l
      BY <3>1, ViewsFacts DEF Follow
    <3> QED
      BY <1>2, <3>2, Near
  <2> QED
    BY <1>2, <2>1
<1>4. l = x /\ V[l].to \in TIDs
  <2>1. l = x
    BY <1>2, <1>3, TidsFacts
  <2>2. V[l].to \in TIDs
    BY <1>2, <2>1, RootFacts
  <2> QED
    BY <2>1, <2>2
<1>5. PICK y \in TIDs : y = V[l].to
  BY <1>4
<1>6. /\ Append(c.tids, y) \in Seq(TIDs) /\ Append(c.tids, y) # << >>
      /\ Len(Append(c.tids, y)) = 2 /\ Append(c.tids, y)[1] = x /\ Append(c.tids, y)[2] = y
  BY <1>2, <1>3, TidsFacts
<1>7. d = [c EXCEPT !.tids = Append(c.tids, y)]
  BY <1>5
<1>8. /\ d \in Call /\ d.tids = Append(c.tids, y)
      /\ d.pc = c.pc /\ d.op = c.op /\ d.rec = c.rec /\ d.result = c.result
  BY <1>2, <1>6, <1>7 DEF Call
<1>9. LocalsOK(d)
  BY <1>1, <1>2, <1>6, <1>8 DEF LocalsOK, OpOK, TidsOK
<1>10. /\ RootsOf(d) = RootsOf(c) /\ LeavingOf(d) = LeavingOf(c) /\ DeepOf(c) = {}
  BY <1>8 DEF RootsOf, LeavingOf, DeepOf
<1>11. V[x] = Way(y)
  <2>1. V[l] \in Views
    BY <1>2
  <2>2. V[l] = Way(y)
    BY <1>5, <2>1, ViewsAre
  <2> QED
    BY <1>4, <2>2
<1>12. OwnOK(V, d, vs)
  BY <1>1, <1>6, <1>8, <1>11 DEF OwnOK
<1> QED
  BY <1>6, <1>8, <1>9, <1>10, <1>12, StillStep

LEMMA LookupReads ==
  ASSUME NEW V, NEW cs, NEW vs, Linked(V, cs, vs), NEW t \in Threads,
         cs[t].pc = "lookup", NEW l, l = Last(cs[t].tids), ~IsWay(V[l]),
         NEW d \in Call, d.pc = "return", d.op = cs[t].op, d.tids = cs[t].tids,
         d.rec = cs[t].rec, d.result = cs[t].result
  PROVE  /\ Linked(V, [cs EXCEPT ![t] = d], vs)
         /\ V[l] = Rec(vs[cs[t].tids[1]])
<1> DEFINE c == cs[t]
           x == c.tids[1]
<1>1. c.op = "lookup"
  BY CallFacts DEF OpOK
<1>2. /\ x \in DOMAIN vs /\ Leads(V, x, vs[x]) /\ x \in TIDs
      /\ LocalsOK(c) /\ OpOK(c) /\ TidsOK(c) /\ c.tids \in Seq(TIDs)
      /\ c.tids # << >> /\ Len(c.tids) \in {1, 2} /\ l \in TIDs
      /\ OwnOK(V, c, vs) /\ V \in [TIDs -> Views]
  BY <1>1, LookupFacts, CallFacts, RootFacts
<1>3. V[l] = Rec(vs[x])
  <2>1. CASE Len(c.tids) = 1
    BY <1>2, <2>1, TidsFacts DEF Leads, Follow
  <2>2. CASE Len(c.tids) = 2
    <3>1. V[x] = Way(l) /\ l \in TIDs
      BY <1>1, <1>2, <2>2, TidsFacts DEF OwnOK
    <3>2. Follow(V, x) = l
      BY <3>1, ViewsFacts DEF Follow
    <3> QED
      BY <1>2, <3>2 DEF Leads
  <2> QED
    BY <1>2, <2>1, <2>2
<1>4. LocalsOK(d)
  BY <1>1, <1>2 DEF LocalsOK, OpOK, TidsOK
<1>5. RootsOf(d) = RootsOf(c) /\ LeavingOf(d) = LeavingOf(c) /\ DeepOf(c) = {}
  BY <1>1 DEF RootsOf, LeavingOf, DeepOf
<1>6. OwnOK(V, d, vs)
  BY <1>1, <1>2 DEF OwnOK
<1> QED
  BY <1>2, <1>3, <1>4, <1>5, <1>6, StillStep

\* One more TID on the stack.
LEMMA Pushed ==
  ASSUME NEW c \in Call, c.tids \in Seq(TIDs), Len(c.tids) >= 1, NEW y \in TIDs,
         NEW d, d = [c EXCEPT !.tids = Append(@, y)]
  PROVE  /\ d \in Call /\ d.tids # << >> /\ d.tids[1] = c.tids[1] /\ Last(d.tids) = y
         /\ Len(d.tids) = Len(c.tids) + 1 /\ Len(d.tids) >= 1
         /\ Len(c.tids) = 1 => Len(d.tids) = 2 /\ d.tids[2] = y
         /\ d.pc = c.pc /\ d.op = c.op /\ d.rec = c.rec /\ d.result = c.result
         /\ d.scan = c.scan /\ d.due = c.due /\ d.page = c.page /\ d.header = c.header
<1>1. /\ Append(c.tids, y) \in Seq(TIDs) /\ Append(c.tids, y) # << >>
      /\ Append(c.tids, y)[1] = c.tids[1] /\ Last(Append(c.tids, y)) = y
      /\ Len(Append(c.tids, y)) = Len(c.tids) + 1
      /\ Len(c.tids) = 1 => Append(c.tids, y)[2] = y
      /\ Len(c.tids) \in Nat
  BY TidsFacts
<1>2. d = [c EXCEPT !.tids = Append(c.tids, y)]
  OBVIOUS
<1>3. /\ d \in Call /\ d.tids = Append(c.tids, y)
      /\ d.pc = c.pc /\ d.op = c.op /\ d.rec = c.rec /\ d.result = c.result
      /\ d.scan = c.scan /\ d.due = c.due /\ d.page = c.page /\ d.header = c.header
  BY <1>1, <1>2 DEF Call
<1>4. \A n \in Nat : n >= 1 => n + 1 >= 1
  OBVIOUS
<1> QED
  BY <1>1, <1>3, <1>4

\* And the last one taken off two.
LEMMA Popped ==
  ASSUME NEW c \in Call, c.tids \in Seq(TIDs), Len(c.tids) = 2,
         NEW d, d = Done([c EXCEPT !.tids = Front(@)])
  PROVE  /\ d \in Call /\ d.tids # << >> /\ d.tids[1] = c.tids[1] /\ Len(d.tids) = 1
         /\ d.pc = "return" /\ d.op = c.op /\ d.rec = c.rec /\ d.result = c.result
         /\ d.scan = c.scan /\ d.due = c.due
<1> DEFINE b == [c EXCEPT !.tids = Front(@)]
<1>1. /\ Front(c.tids) \in Seq(TIDs) /\ Len(Front(c.tids)) = 1
      /\ Front(c.tids)[1] = c.tids[1] /\ Front(c.tids) # << >>
  BY TidsFacts
<1>2. /\ b \in Call /\ b.tids = Front(c.tids)
      /\ b.op = c.op /\ b.rec = c.rec /\ b.result = c.result /\ b.scan = c.scan /\ b.due = c.due
  BY <1>1 DEF Call
<1>3. d = [b EXCEPT !.pc = "return"]
  BY <1>1, <1>2 DEF Done
<1> QED
  BY <1>1, <1>2, <1>3 DEF Call, Labels

LEMMA UpdateFollows ==
  ASSUME NEW V, NEW cs, NEW vs, Linked(V, cs, vs), NEW t \in Threads,
         cs[t].pc = "update", NEW l, l = Last(cs[t].tids), IsWay(V[l]),
         NEW d \in Call, d.pc = cs[t].pc, d.op = cs[t].op, d.tids # << >>,
         d.tids[1] = cs[t].tids[1],
         Len(cs[t].tids) = 1 => Len(d.tids) = 2 /\ d.tids[2] = V[l].to, d.rec = cs[t].rec, d.result = cs[t].result
  PROVE  Linked(V, [cs EXCEPT ![t] = d], vs)
<1> DEFINE c == cs[t]
           x == c.tids[1]
<1>1. c.op = "update"
  BY CallFacts DEF OpOK
<1>2. /\ x \in DOMAIN vs
      /\ c \in Call /\ LocalsOK(c) /\ OpOK(c) /\ TidsOK(c) /\ c.tids \in Seq(TIDs)
      /\ c.tids # << >> /\ Len(c.tids) \in {1, 2} /\ l \in TIDs
      /\ UpdateOK(V, c, vs) /\ V \in [TIDs -> Views]
  BY <1>1, UpdateFacts, CallFacts
<1>3. Leads(V, x, vs[x]) /\ vs[x] \in Seq(Units \cup {Junk})
  <2>1. vs[x] \in Records
    BY <1>2 DEF Linked, Calls
  <2> QED
    BY <1>2, <2>1, SegmentAssumption DEF UpdateOK
<1>4. Len(c.tids) = 1
  <2>1. ASSUME Len(c.tids) = 2 PROVE FALSE
    <3>1. V[x] = Way(c.tids[2]) /\ l = c.tids[2] /\ l \in TIDs
      BY <1>2, <2>1, TidsFacts DEF UpdateOK
    <3>2. Follow(V, x) = l
      BY <3>1, ViewsFacts DEF Follow
    <3>3. V[l] = Rec(vs[x])
      BY <1>3, <3>2 DEF Leads
    <3> QED
      BY <1>3, <3>3, ViewsFacts
  <2> QED
    BY <1>2, <2>1
<1>5. l = x /\ V[l].to \in TIDs /\ V[l] = Way(V[l].to)
  <2>1. l = x
    BY <1>2, <1>4, TidsFacts
  <2>2. V[l] \in Views
    BY <1>2
  <2> QED
    BY <2>1, <2>2, ViewsAre
<1>6. PICK y \in TIDs : y = V[l].to
  BY <1>5
<1>7. /\ d.tids # << >> /\ d.tids[1] = x /\ Len(d.tids) = 2 /\ d.tids[2] = y
      /\ d.pc = c.pc /\ d.op = c.op /\ d.rec = c.rec /\ d.result = c.result
  BY <1>4, <1>6
<1>8. LocalsOK(d)
  <2>1. OpOK(d)
    BY <1>1, <1>2, <1>7 DEF OpOK
  <2>2. d.op = "update" /\ d.pc = "update" /\ Len(d.tids) >= 1 /\ Len(d.tids) <= 2
    <3>1. \A n : n = 2 => n >= 1 /\ n <= 2
      OBVIOUS
    <3> QED
      BY <1>1, <1>7, <3>1
  <2>3. TidsOK(d)
    BY <2>2 DEF TidsOK
  <2>4. c.rec \in Records
    BY <1>1, CallFacts
  <2> QED
    BY <1>7, <2>1, <2>2, <2>3, <2>4 DEF LocalsOK
<1>9. /\ RootsOf(d) = RootsOf(c) /\ LeavingOf(d) = LeavingOf(c) /\ DeepOf(c) = {}
  BY <1>7 DEF RootsOf, LeavingOf, DeepOf
<1>10. OwnOK(V, d, vs)
  <2>1. V[x] = Way(y)
    BY <1>5, <1>6
  <2> QED
    BY <1>1, <1>3, <1>7, <2>1 DEF OwnOK, UpdateOK
<1> QED
  BY <1>7, <1>8, <1>9, <1>10, StillStep

\* Back from the update of what an indirection leads to: another one, or the record.
LEMMA ChecksWay ==
  ASSUME NEW V, NEW cs, NEW vs, Linked(V, cs, vs), NEW t \in Threads,
         cs[t].pc = "check", IsWay(V[Last(cs[t].tids)]),
         NEW d \in Call, d.pc = "skip", d.op = cs[t].op, d.tids = cs[t].tids,
         d.rec = cs[t].rec, d.result = cs[t].result
  PROVE  Linked(V, [cs EXCEPT ![t] = d], vs)
<1> DEFINE c == cs[t]
<1>1. c.op = "update"
  BY CallFacts DEF OpOK
<1>2. /\ LocalsOK(c) /\ OpOK(c) /\ TidsOK(c) /\ c.tids \in Seq(TIDs) /\ UpdateOK(V, c, vs)
  BY <1>1, UpdateFacts, CallFacts
<1>3. Len(c.tids) = 2 /\ Last(c.tids) = c.tids[2]
  BY <1>2, TidsFacts DEF TidsOK
<1>4. LocalsOK(d)
  BY <1>1, <1>2, <1>3 DEF LocalsOK, OpOK, TidsOK
<1>5. RootsOf(d) = RootsOf(c) /\ LeavingOf(d) = LeavingOf(c) /\ DeepOf(c) = DeepOf(d)
  BY <1>1 DEF RootsOf, LeavingOf, DeepOf
<1>6. OwnOK(V, d, vs)
  BY <1>1, <1>2, <1>3 DEF OwnOK, UpdateOK
<1> QED
  BY <1>4, <1>5, <1>6, StillStep

LEMMA ChecksRecord ==
  ASSUME NEW V, NEW cs, NEW vs, Linked(V, cs, vs), NEW t \in Threads,
         cs[t].pc = "check", ~IsWay(V[Last(cs[t].tids)]),
         NEW d \in Call, d.pc = "return", d.op = cs[t].op, d.tids # << >>,
         d.tids[1] = cs[t].tids[1], Len(d.tids) = 1, d.rec = cs[t].rec, d.result = cs[t].result
  PROVE  Linked(V, [cs EXCEPT ![t] = d], vs)
<1> DEFINE c == cs[t]
           x == c.tids[1]
           y == c.tids[2]
<1>1. c.op = "update"
  BY CallFacts DEF OpOK
<1>2. /\ c \in Call /\ LocalsOK(c) /\ OpOK(c) /\ TidsOK(c) /\ c.tids \in Seq(TIDs)
      /\ UpdateOK(V, c, vs)
  BY <1>1, UpdateFacts, CallFacts
<1>3. Len(c.tids) = 2 /\ Last(c.tids) = y
  BY <1>2, TidsFacts DEF TidsOK
<1>4. V[x] = Way(y) /\ y \in TIDs /\ IsWay(V[x]) /\ V[x].to = y
  BY <1>1, <1>3, UpdateFacts
<1>5. Leads(V, x, c.rec)
  <2>1. Leads(V, y, c.rec)
    BY <1>2 DEF UpdateOK
  <2> QED
    BY <1>3, <1>4, <2>1 DEF Leads, Follow
<1>6. /\ d \in Call /\ d.tids # << >> /\ d.tids[1] = x /\ Len(d.tids) = 1
      /\ d.pc = "return" /\ d.op = c.op /\ d.rec = c.rec /\ d.result = c.result
  OBVIOUS
<1>7. LocalsOK(d)
  <2>1. OpOK(d)
    BY <1>1, <1>6 DEF OpOK
  <2>2. d.op = "update" /\ d.pc = "return" /\ Len(d.tids) = 1
    BY <1>1, <1>6
  <2>3. TidsOK(d)
    <3>1. Len(d.tids) >= 1 /\ Len(d.tids) <= 2
      BY <2>2
    <3> QED
      BY <2>2, <3>1 DEF TidsOK
  <2>4. c.rec \in Records
    BY <1>1, CallFacts
  <2> QED
    BY <1>6, <2>1, <2>2, <2>3, <2>4 DEF LocalsOK
<1>8. RootsOf(d) = RootsOf(c) /\ LeavingOf(d) = LeavingOf(c) /\ DeepOf(c) = {x}
  BY <1>1, <1>6 DEF RootsOf, LeavingOf, DeepOf
<1>9. OwnOK(V, d, vs)
  BY <1>1, <1>5, <1>6 DEF OwnOK, UpdateOK
<1>10. \A z \in DeepOf(c) \ DeepOf(d) : ~IsWay(V[V[z].to])
  BY <1>3, <1>4, <1>8
<1> QED
  BY <1>6, <1>7, <1>8, <1>9, <1>10, StillStep

\* What is known of an update beside UpdateFacts.
LEMMA UpdateTids ==
  ASSUME NEW V, NEW cs, NEW vs, Linked(V, cs, vs), NEW t \in Threads, cs[t].op = "update"
  PROVE  LET c == cs[t]
             x == c.tids[1]
             y == c.tids[2]
             l == Last(c.tids)
         IN  /\ x \in TIDs /\ l \in TIDs /\ l = IF Len(c.tids) = 1 THEN x ELSE y
             /\ x \notin RootsOf(c) /\ x \in RootsIn(cs, vs) /\ x \notin LeavingIn(cs)
             /\ Its(V, c, l) /\ Its(V, c, x)
             /\ Len(c.tids) \in {1, 2} /\ (Len(c.tids) # 1 => Len(c.tids) = 2)
             /\ Len(c.tids) = 2 /\ c.pc # "free" => x \in Live(V, LeavingIn(cs)) /\ y \in TIDs
                                                    /\ x # y
<1> DEFINE c == cs[t]
           x == c.tids[1]
           y == c.tids[2]
           l == Last(c.tids)
<1>1. /\ c.tids \in Seq(TIDs) /\ Len(c.tids) \in {1, 2} /\ x \in DOMAIN vs /\ l \in TIDs
      /\ Len(c.tids) = 2 /\ c.pc # "free" => IsWay(V[x]) /\ y \in TIDs \ RootsIn(cs, vs)
  BY UpdateFacts, CallFacts
<1>2. /\ x \in TIDs /\ x \in RootsIn(cs, vs) /\ x \notin LeavingIn(cs)
      /\ IsWay(V[x]) => x \in Live(V, LeavingIn(cs))
  BY <1>1, RootFacts
<1>3. x \notin RootsOf(c)
  BY <1>1 DEF Linked, Calls
<1>4. l = IF Len(c.tids) = 1 THEN x ELSE y
  BY <1>1, TidsFacts
<1>5. Its(V, c, l) /\ Its(V, c, x)
  BY <1>1, <1>4 DEF Its
<1> QED
  BY <1>1, <1>2, <1>3, <1>4, <1>5

\* The new record goes where the old one was.
LEMMA UpdateReplaces ==
  ASSUME OneWriter, NEW V, NEW cs, NEW vs, Linked(V, cs, vs), NEW t \in Threads,
         cs[t].pc = "update", NEW l, l = Last(cs[t].tids), IsRec(V[l]),
         NEW d \in Call, d.pc = IF Len(cs[t].tids) = 1 THEN "return" ELSE "check",
         d.op = cs[t].op, d.tids = cs[t].tids, d.rec = cs[t].rec, d.result = cs[t].result,
         NEW W, W = [V EXCEPT ![l] = Rec(cs[t].rec)]
  PROVE  Linked(W, [cs EXCEPT ![t] = d], vs) /\ Changes(V, W, cs[t])
<1> DEFINE c == cs[t]
           x == c.tids[1]
           y == c.tids[2]
<1>1. c.op = "update"
  BY CallFacts DEF OpOK
<1>2. /\ LocalsOK(c) /\ OpOK(c) /\ TidsOK(c) /\ UpdateOK(V, c, vs)
      /\ c.rec \in Records /\ c.rec \in Seq(Units \cup {Junk}) /\ V \in [TIDs -> Views]
      /\ c.tids # << >>
      /\ Forest(V, RootsIn(cs, vs), LeavingIn(cs), DeepIn(cs))
  BY <1>1, UpdateFacts, CallFacts
<1>3. /\ x \in TIDs /\ l \in TIDs /\ l = (IF Len(c.tids) = 1 THEN x ELSE y) /\ Its(V, c, l)
      /\ Len(c.tids) # 1 => Len(c.tids) = 2
      /\ Len(c.tids) = 2 => x # y /\ y \in TIDs /\ V[x] = Way(y)
  BY <1>1, UpdateTids, UpdateFacts
<1>4. /\ IsRec(Rec(c.rec)) /\ Rec(c.rec) \in Views /\ ~IsWay(Rec(c.rec))
  BY <1>2, ViewsFacts
<1>5. /\ W \in [TIDs -> Views] /\ W[l] = Rec(c.rec) /\ \A z \in TIDs \ {l} : W[z] = V[z]
  BY <1>2, <1>3, <1>4
<1>6. Changes(V, W, c)
  BY <1>3, <1>5 DEF Changes
<1>7. LocalsOK(d)
  <2>1. OpOK(d)
    BY <1>1 DEF OpOK
  <2>2. TidsOK(d)
    BY <1>1, <1>2, <1>3 DEF TidsOK
  <2> QED
    BY <1>1, <1>2, <2>1, <2>2 DEF LocalsOK
<1>8. /\ RootsOf(d) = {} /\ LeavingOf(d) = {} /\ RootsOf(c) = {} /\ LeavingOf(c) = {} /\ DeepOf(c) = {}
  BY <1>1 DEF RootsOf, LeavingOf, DeepOf
<1>9. OwnOK(W, d, vs)
  <2>1. ASSUME Len(c.tids) = 1 PROVE Leads(W, x, c.rec)
    BY <1>3, <1>4, <1>5, <2>1 DEF Leads, Follow
  <2>2. ASSUME Len(c.tids) = 2 PROVE W[x] = Way(y) /\ Leads(W, y, c.rec)
    BY <1>3, <1>4, <1>5, <2>2 DEF Leads, Follow
  <2>3. d.pc = "return" \/ d.pc = "check"
    OBVIOUS
  <2>4. UpdateOK(W, d, vs)
    BY <1>3, <2>1, <2>2, <2>3 DEF UpdateOK
  <2> QED
    BY <1>1, <2>4 DEF OwnOK
<1>10. Forest(W, RootsIn(cs, vs), LeavingIn(cs), DeepIn(cs))
  BY <1>2, <1>3, <1>4, ForestRecord
<1> QED
  BY <1>1, <1>2, <1>6, <1>7, <1>8, <1>9, <1>10, StepLinked

\* The old record is given up.
LEMMA UpdateDrops ==
  ASSUME OneWriter, NEW V, NEW cs, NEW vs, Linked(V, cs, vs), NEW t \in Threads,
         cs[t].pc = "update", NEW l, l = Last(cs[t].tids), IsRec(V[l]),
         NEW d \in Call, d.pc = "scan",
         d.op = cs[t].op, d.tids = cs[t].tids, d.rec = cs[t].rec, d.result = cs[t].result,
         NEW W, W = [V EXCEPT ![l] = Rec(<< >>)]
  PROVE  Linked(W, [cs EXCEPT ![t] = d], vs) /\ Changes(V, W, cs[t])
<1> DEFINE c == cs[t]
           x == c.tids[1]
           y == c.tids[2]
<1>1. c.op = "update"
  BY CallFacts DEF OpOK
<1>2. /\ LocalsOK(c) /\ OpOK(c) /\ TidsOK(c) /\ UpdateOK(V, c, vs)
      /\ c.rec \in Records /\ V \in [TIDs -> Views] /\ c.tids # << >>
      /\ Forest(V, RootsIn(cs, vs), LeavingIn(cs), DeepIn(cs))
  BY <1>1, UpdateFacts, CallFacts
<1>3. /\ x \in TIDs /\ l \in TIDs /\ l = (IF Len(c.tids) = 1 THEN x ELSE y) /\ Its(V, c, l)
      /\ Len(c.tids) # 1 => Len(c.tids) = 2
      /\ Len(c.tids) = 2 => x # y /\ y \in TIDs /\ V[x] = Way(y)
  BY <1>1, UpdateTids, UpdateFacts
<1>4. IsRec(Rec(<< >>)) /\ Rec(<< >>) \in Views
  <2>1. << >> \in Seq(Units \cup {Junk})
    OBVIOUS
  <2> QED
    BY <2>1, ViewsFacts
<1>5. /\ W \in [TIDs -> Views] /\ W[l] = Rec(<< >>) /\ \A z \in TIDs \ {l} : W[z] = V[z]
  BY <1>2, <1>3, <1>4
<1>6. Changes(V, W, c)
  BY <1>3, <1>5 DEF Changes
<1>7. LocalsOK(d)
  BY <1>1, <1>2 DEF LocalsOK, OpOK, TidsOK
<1>8. /\ RootsOf(d) = {} /\ LeavingOf(d) = {} /\ RootsOf(c) = {} /\ LeavingOf(c) = {} /\ DeepOf(c) = {}
  BY <1>1 DEF RootsOf, LeavingOf, DeepOf
<1>9. OwnOK(W, d, vs)
  BY <1>1, <1>3, <1>5 DEF OwnOK, UpdateOK
<1>10. Forest(W, RootsIn(cs, vs), LeavingIn(cs), DeepIn(cs))
  BY <1>2, <1>3, <1>4, ForestRecord
<1> QED
  BY <1>1, <1>2, <1>6, <1>7, <1>8, <1>9, <1>10, StepLinked

\* The record is put into a free slot.
LEMMA Places ==
  ASSUME OneWriter, NEW V, NEW cs, NEW vs, Linked(V, cs, vs), NEW t \in Threads,
         cs[t].pc = "place", NEW n \in TIDs, IsVoid(V[n]),
         NEW d \in Call, d.pc = IF cs[t].op = "insert" THEN "return" ELSE "point",
         d.op = cs[t].op, d.tids = cs[t].tids, d.rec = cs[t].rec, d.result = n,
         NEW W, W = [V EXCEPT ![n] = Rec(cs[t].rec)]
  PROVE  Linked(W, [cs EXCEPT ![t] = d], vs) /\ Changes(V, W, cs[t])
<1> DEFINE c == cs[t]
           x == c.tids[1]
           y == c.tids[2]
           l == Last(c.tids)
<1>1. /\ c.op \in {"insert", "update"}
      /\ LocalsOK(c) /\ OpOK(c) /\ TidsOK(c) /\ OwnOK(V, c, vs)
      /\ Forest(V, RootsIn(cs, vs), LeavingIn(cs), DeepIn(cs)) /\ V \in [TIDs -> Views]
  BY CallFacts DEF OpOK
<1>2. c.rec \in Records /\ c.rec \in Seq(Units \cup {Junk})
  BY <1>1, CallFacts
<1>4. /\ IsRec(Rec(c.rec)) /\ Rec(c.rec) \in Views
  BY <1>2, ViewsFacts
<1>5. /\ W \in [TIDs -> Views] /\ W[n] = Rec(c.rec) /\ \A z \in TIDs \ {n} : W[z] = V[z]
  BY <1>1, <1>4
<1>6. Changes(V, W, c)
  BY <1>5 DEF Changes, Its
<1>7. LocalsOK(d)
  BY <1>1, <1>2 DEF LocalsOK, OpOK, TidsOK
<1>8. /\ RootsOf(d) = {n} /\ LeavingOf(d) = {} /\ RootsOf(c) = {} /\ LeavingOf(c) = {} /\ DeepOf(c) = {}
  BY <1>1 DEF RootsOf, LeavingOf, DeepOf
<1>9. n \notin RootsIn(cs, vs)
  BY <1>1 DEF Forest
<1>10. OwnOK(W, d, vs)
  <2>1. CASE c.op = "insert"
    BY <1>5, <2>1 DEF OwnOK
  <2>2. CASE c.op = "update"
    <3>1. /\ x \in TIDs /\ l \in TIDs /\ V[l] = Rec(<< >>)
          /\ Len(c.tids) = 2 => V[x] = Way(y)
      BY <1>1, <2>2, UpdateTids, UpdateFacts DEF UpdateOK
    <3>2. W[l] = Rec(<< >>)
      <4>2. l # n
        BY <3>1 DEF Rec, IsVoid
      <4> QED
        BY <1>5, <3>1, <4>2
    <3>3. Len(c.tids) = 2 => W[x] = Way(y)
      <4>1. Len(c.tids) = 2 => IsWay(V[x])
        BY <2>2, UpdateFacts
      <4>2. Len(c.tids) = 2 => x # n
        BY <4>1 DEF IsWay, IsVoid
      <4> QED
        BY <1>5, <3>1, <4>2
    <3>4. UpdateOK(W, d, vs)
      BY <1>5, <2>2, <3>2, <3>3 DEF UpdateOK
    <3> QED
      BY <2>2, <3>4 DEF OwnOK
  <2> QED
    BY <1>1, <2>1, <2>2
<1>11. Forest(W, RootsIn(cs, vs) \cup {n}, LeavingIn(cs), DeepIn(cs))
  BY <1>1, <1>4, ForestInsert
<1> QED
  BY <1>1, <1>6, <1>7, <1>8, <1>9, <1>10, <1>11, StepLinked

\* What an update that has inserted its record again knows.
LEMMA PointFacts ==
  ASSUME NEW V, NEW cs, NEW vs, Linked(V, cs, vs), NEW t \in Threads, cs[t].pc = "point"
  PROVE  LET c == cs[t]
             x == c.tids[1]
             y == c.tids[2]
             l == Last(c.tids)
             n == c.result
         IN  /\ c.op = "update" /\ c.tids # << >>
             /\ x \in TIDs /\ l \in TIDs /\ n \in TIDs /\ l # n /\ x # n
             /\ n \in RootsIn(cs, vs) \ LeavingIn(cs) /\ l \notin LeavingIn(cs)
             /\ V[l] = Rec(<< >>) /\ IsRec(V[l]) /\ V[n] = Rec(c.rec) /\ IsRec(V[n])
             /\ l = IF Len(c.tids) = 1 THEN x ELSE y
             /\ Len(c.tids) # 1 => Len(c.tids) = 2
             /\ Len(c.tids) = 2 => x # y /\ y \in TIDs /\ V[x] = Way(y)
             /\ Its(V, c, l) /\ Its(V, c, n)
             /\ RootsOf(c) = {n} /\ LeavingOf(c) = {} /\ DeepOf(c) = {}
             /\ \A z \in Live(V, LeavingIn(cs)) : V[z].to = l => z = x /\ Len(c.tids) = 2
<1> DEFINE c == cs[t]
           x == c.tids[1]
           y == c.tids[2]
           l == Last(c.tids)
           n == c.result
<1>1. c.op = "update"
  BY CallFacts DEF OpOK
<1>2. /\ LocalsOK(c) /\ UpdateOK(V, c, vs) /\ c.tids # << >>
      /\ c.rec \in Seq(Units \cup {Junk}) /\ V \in [TIDs -> Views]
      /\ Forest(V, RootsIn(cs, vs), LeavingIn(cs), DeepIn(cs))
      /\ RootsOf(c) \subseteq RootsIn(cs, vs)
      /\ LeavingIn(cs) \ LeavingOf(c) \subseteq TIDs \ RootsOf(c)
      /\ LeavingIn(cs) \subseteq RootsIn(cs, vs)
  BY <1>1, UpdateFacts, CallFacts
<1>3. /\ x \in TIDs /\ l \in TIDs /\ l = (IF Len(c.tids) = 1 THEN x ELSE y) /\ Its(V, c, l)
      /\ x \notin RootsOf(c) /\ x \in RootsIn(cs, vs) /\ x \notin LeavingIn(cs)
      /\ Len(c.tids) # 1 => Len(c.tids) = 2
      /\ Len(c.tids) = 2 => /\ x # y /\ y \in TIDs \ RootsIn(cs, vs) /\ V[x] = Way(y)
                            /\ V[x].to = y /\ x \in Live(V, LeavingIn(cs))
  BY <1>1, UpdateTids, UpdateFacts
<1>4. RootsOf(c) = {n} /\ LeavingOf(c) = {} /\ DeepOf(c) = {}
  BY DEF RootsOf, LeavingOf, DeepOf
<1>5. n \in TIDs /\ Its(V, c, n)
  BY <1>2, <1>4 DEF LocalsOK, Its
<1>6. V[l] = Rec(<< >>) /\ V[n] = Rec(c.rec)
  BY <1>2 DEF UpdateOK
<1>7. IsRec(V[l]) /\ IsRec(V[n])
  BY <1>6 DEF Rec, IsRec
<1>8. /\ n \in RootsIn(cs, vs) \ LeavingIn(cs) /\ x # n /\ l # n /\ l \notin LeavingIn(cs)
  BY <1>2, <1>3, <1>4
<1>9. ASSUME NEW z \in Live(V, LeavingIn(cs)), V[z].to = l
      PROVE  z = x /\ Len(c.tids) = 2
  <2>1. l \notin RootsIn(cs, vs)
    BY <1>2, <1>9 DEF Forest
  <2>2. Len(c.tids) = 2
    BY <1>3, <2>1
  <2>3. V[x].to = V[z].to /\ x \in Live(V, LeavingIn(cs))
    BY <1>3, <1>9, <2>2
  <2>4. \A u, w \in Live(V, LeavingIn(cs)) : V[u].to = V[w].to => u = w
    BY <1>2 DEF Forest
  <2> QED
    BY <2>2, <2>3, <2>4
<1> QED
  BY <1>1, <1>2, <1>3, <1>4, <1>5, <1>6, <1>7, <1>8, <1>9

\* After that the call is back from the innermost update.
LEMMA PointDone ==
  ASSUME NEW V, NEW cs, NEW vs, Linked(V, cs, vs), NEW t \in Threads, cs[t].pc = "point",
         NEW d \in Call, d.pc = IF Len(cs[t].tids) = 1 THEN "return" ELSE "check",
         d.op = cs[t].op, d.tids = cs[t].tids, d.rec = cs[t].rec,
         NEW W, W[cs[t].tids[1]] = V[cs[t].tids[1]] \/ Len(cs[t].tids) = 1,
         Leads(W, Last(cs[t].tids), cs[t].rec)
  PROVE  LocalsOK(d) /\ RootsOf(d) = {} /\ LeavingOf(d) = {} /\ OwnOK(W, d, vs)
         /\ (Len(cs[t].tids) = 2 => cs[t].tids[1] \in DeepOf(d))
<1> DEFINE c == cs[t]
           x == c.tids[1]
           y == c.tids[2]
<1>1. /\ c.op = "update" /\ LocalsOK(c) /\ OpOK(c) /\ TidsOK(c) /\ c.rec \in Records
      /\ Last(c.tids) = IF Len(c.tids) = 1 THEN x ELSE y
      /\ Len(c.tids) # 1 => Len(c.tids) = 2
      /\ Len(c.tids) = 2 => V[x] = Way(y)
  BY PointFacts, CallFacts
<1>2. d.pc \in {"return", "check"} /\ (Len(c.tids) = 2 => d.pc = "check")
  OBVIOUS
<1>3. OpOK(d)
  BY <1>1, <1>2 DEF OpOK
<1>4. TidsOK(d)
  BY <1>1 DEF TidsOK
<1>5. LocalsOK(d)
  BY <1>1, <1>2, <1>3, <1>4 DEF LocalsOK
<1>6. /\ RootsOf(d) = {} /\ LeavingOf(d) = {}
      /\ Len(c.tids) = 2 => x \in DeepOf(d)
  BY <1>1, <1>2 DEF RootsOf, LeavingOf, DeepOf
<1>7. UpdateOK(W, d, vs)
  BY <1>1, <1>2 DEF UpdateOK
<1> QED
  BY <1>1, <1>5, <1>6, <1>7 DEF OwnOK

\* The record is on the page of its old slot: the slot takes it over.
LEMMA PointMoves ==
  ASSUME OneWriter, NEW V, NEW cs, NEW vs, Linked(V, cs, vs), NEW t \in Threads,
         cs[t].pc = "point", NEW l, l = Last(cs[t].tids), NEW n, n = cs[t].result,
         NEW d \in Call, d.pc = IF Len(cs[t].tids) = 1 THEN "return" ELSE "check",
         d.op = cs[t].op, d.tids = cs[t].tids, d.rec = cs[t].rec,
         NEW W, W = [V EXCEPT ![l] = V[n], ![n] = Void]
  PROVE  Linked(W, [cs EXCEPT ![t] = d], vs) /\ Changes(V, W, cs[t])
<1> DEFINE c == cs[t]
           x == c.tids[1]
<1>1. /\ c.op = "update" /\ c.tids # << >> /\ V \in [TIDs -> Views]
      /\ Forest(V, RootsIn(cs, vs), LeavingIn(cs), DeepIn(cs))
  BY PointFacts, CallFacts
<1>2. /\ x \in TIDs /\ l \in TIDs /\ n \in TIDs /\ l # n /\ x # n
      /\ n \in RootsIn(cs, vs) \ LeavingIn(cs)
      /\ IsRec(V[l]) /\ V[n] = Rec(c.rec) /\ IsRec(V[n])
      /\ Len(c.tids) # 1 => x # l
      /\ Its(V, c, l) /\ Its(V, c, n)
      /\ RootsOf(c) = {n} /\ LeavingOf(c) = {} /\ DeepOf(c) = {}
  <2>1. Len(c.tids) # 1 => x # l
    BY PointFacts
  <2>2. RootsOf(c) = {n} /\ LeavingOf(c) = {} /\ DeepOf(c) = {}
    BY DEF RootsOf, LeavingOf, DeepOf
  <2> QED
    BY <2>1, <2>2, PointFacts
<1>3. /\ W[l] = V[n] /\ W[n] = Void /\ \A z \in TIDs \ {l, n} : W[z] = V[z]
      /\ W \in [TIDs -> Views]
  <2>1. V[n] \in Views /\ Void \in Views
    BY <1>1, <1>2, ViewsFacts
  <2> QED
    BY <1>1, <1>2, <2>1
<1>4. Changes(V, W, c)
  BY <1>2, <1>3 DEF Changes
<1>5. Leads(W, l, c.rec)
  BY <1>2, <1>3 DEF Leads, Follow, IsRec, IsWay
<1>6. LocalsOK(d) /\ RootsOf(d) = {} /\ LeavingOf(d) = {} /\ OwnOK(W, d, vs)
  <2>1. W[x] = V[x] \/ Len(c.tids) = 1
    BY <1>2, <1>3
  <2> QED
    BY <1>5, <2>1, PointDone
<1>7. Forest(W, RootsIn(cs, vs) \ {n}, LeavingIn(cs), DeepIn(cs))
  BY <1>1, <1>2, ForestMove
<1> QED
  BY <1>1, <1>2, <1>4, <1>6, <1>7, StepLinked

\* It is on another page: the slot becomes an indirection.
LEMMA PointLinks ==
  ASSUME OneWriter, NEW V, NEW cs, NEW vs, Linked(V, cs, vs), NEW t \in Threads,
         cs[t].pc = "point", NEW l, l = Last(cs[t].tids), NEW n, n = cs[t].result,
         NEW d \in Call, d.pc = IF Len(cs[t].tids) = 1 THEN "return" ELSE "check",
         d.op = cs[t].op, d.tids = cs[t].tids, d.rec = cs[t].rec,
         NEW W, W = [V EXCEPT ![l] = Way(n)]
  PROVE  Linked(W, [cs EXCEPT ![t] = d], vs) /\ Changes(V, W, cs[t])
<1> DEFINE c == cs[t]
           x == c.tids[1]
<1>1. /\ c.op = "update" /\ c.tids # << >> /\ V \in [TIDs -> Views]
      /\ Forest(V, RootsIn(cs, vs), LeavingIn(cs), DeepIn(cs))
  BY PointFacts, CallFacts
<1>2. /\ x \in TIDs /\ l \in TIDs /\ n \in TIDs /\ l # n /\ x # n /\ l \notin LeavingIn(cs)
      /\ n \in RootsIn(cs, vs) \ LeavingIn(cs)
      /\ IsRec(V[l]) /\ V[n] = Rec(c.rec) /\ IsRec(V[n])
      /\ Len(c.tids) # 1 => x # l
      /\ Its(V, c, l) /\ Its(V, c, n)
      /\ RootsOf(c) = {n} /\ LeavingOf(c) = {} /\ DeepOf(c) = {}
      /\ \A z \in Live(V, LeavingIn(cs)) : V[z].to = l => z = x /\ Len(c.tids) = 2
  <2>1. Len(c.tids) # 1 => x # l
    BY PointFacts
  <2>2. \A z \in Live(V, LeavingIn(cs)) : V[z].to = l => z = x /\ Len(c.tids) = 2
    BY PointFacts
  <2>3. RootsOf(c) = {n} /\ LeavingOf(c) = {} /\ DeepOf(c) = {}
    BY DEF RootsOf, LeavingOf, DeepOf
  <2> QED
    BY <2>1, <2>2, <2>3, PointFacts
<1>3. IsWay(Way(n)) /\ Way(n).to = n /\ Way(n) \in Views
  BY <1>2, ViewsFacts
<1>4. /\ W[l] = Way(n) /\ \A z \in TIDs \ {l} : W[z] = V[z]
      /\ W \in [TIDs -> Views]
  BY <1>1, <1>2, <1>3
<1>5. Changes(V, W, c)
  BY <1>2, <1>4 DEF Changes
<1>6. Leads(W, l, c.rec)
  BY <1>2, <1>3, <1>4 DEF Leads, Follow
<1>7. LocalsOK(d) /\ RootsOf(d) = {} /\ LeavingOf(d) = {} /\ OwnOK(W, d, vs)
      /\ (Len(c.tids) = 2 => x \in DeepOf(d))
  <2>1. W[x] = V[x] \/ Len(c.tids) = 1
    BY <1>2, <1>4
  <2>2. Leads(W, Last(c.tids), c.rec)
    BY <1>6
  <2>3. LocalsOK(d) /\ RootsOf(d) = {} /\ LeavingOf(d) = {} /\ OwnOK(W, d, vs)
    BY <2>1, <2>2, PointDone
  <2>4. Len(c.tids) = 2 => x \in DeepOf(d)
    BY <2>1, <2>2, PointDone
  <2> QED
    BY <2>3, <2>4
<1>8. Forest(W, RootsIn(cs, vs) \ {n}, LeavingIn(cs), DeepIn(cs) \cup DeepOf(d))
  <2>1. \A z \in Live(V, LeavingIn(cs)) : V[z].to = l => z \in DeepIn(cs) \cup DeepOf(d)
    BY <1>2, <1>7
  <2>2. l \in TIDs \ LeavingIn(cs) /\ DeepIn(cs) \subseteq DeepIn(cs) \cup DeepOf(d)
    BY <1>2
  <2> QED
    BY <1>1, <1>2, <2>1, <2>2, ForestPoint
<1>9. DeepIn(cs) \cup DeepOf(d) \subseteq (DeepIn(cs) \ DeepOf(c)) \cup DeepOf(d)
  BY <1>2
<1> QED
  BY <1>1, <1>2, <1>5, <1>7, <1>8, <1>9, StepLinked

\* The first of two indirections is made to lead to the record.
LEMMA Skips ==
  ASSUME OneWriter, NEW V, NEW cs, NEW vs, Linked(V, cs, vs), NEW t \in Threads,
         cs[t].pc = "skip", NEW x, x = cs[t].tids[1], NEW y, y = Last(cs[t].tids),
         NEW d \in Call, d.pc = "free",
         d.op = cs[t].op, d.tids = cs[t].tids, d.rec = cs[t].rec,
         NEW W, W = [V EXCEPT ![x] = Way(V[y].to)]
  PROVE  Linked(W, [cs EXCEPT ![t] = d], vs) /\ Changes(V, W, cs[t])
<1> DEFINE c == cs[t]
           z == V[y].to
           roots == RootsIn(cs, vs)
           leaving == LeavingIn(cs)
<1>1. c.op = "update"
  BY CallFacts DEF OpOK
<1>2. /\ LocalsOK(c) /\ OpOK(c) /\ TidsOK(c) /\ UpdateOK(V, c, vs) /\ c.tids # << >>
      /\ c.rec \in Records /\ V \in [TIDs -> Views]
      /\ Forest(V, roots, leaving, DeepIn(cs)) /\ leaving \subseteq roots
  BY <1>1, UpdateFacts, CallFacts
<1>3. Len(c.tids) = 2 /\ c.tids[2] = y
  BY <1>1, <1>2, UpdateTids DEF TidsOK
<1>4. /\ x \in TIDs /\ x \in roots /\ x \in Live(V, leaving) /\ Its(V, c, x)
      /\ y \in TIDs \ roots /\ V[x].to = y /\ x # y
  BY <1>1, <1>3, UpdateTids, UpdateFacts
<1>5. IsWay(V[y]) /\ Leads(V, y, c.rec)
  BY <1>2, <1>3 DEF UpdateOK
<1>6. V[z] = Rec(c.rec) /\ ~IsWay(V[z])
  BY <1>5 DEF Leads, Follow, Rec, IsWay
<1>7. z \in TIDs /\ z # x /\ V[y] = Way(z)
  <2>1. y \in Live(V, leaving) /\ V[y] \in Views
    BY <1>2, <1>4, <1>5 DEF Live
  <2>2. z \in TIDs \ roots
    BY <1>2, <2>1 DEF Forest
  <2> QED
    BY <1>4, <1>5, <2>1, <2>2, ViewsAre
<1> HIDE DEF z
<1>8. IsWay(Way(z)) /\ Way(z).to = z /\ Way(z) \in Views
  BY <1>7, ViewsFacts
<1>9. W[x] = Way(z) /\ (\A u \in TIDs \ {x} : W[u] = V[u]) /\ W \in [TIDs -> Views]
  BY <1>2, <1>4, <1>8 DEF z
<1>10. Changes(V, W, c)
  BY <1>4, <1>9 DEF Changes
<1>11. LocalsOK(d)
  BY <1>1, <1>2, <1>3 DEF LocalsOK, OpOK, TidsOK
<1>12. RootsOf(d) = {y} /\ LeavingOf(d) = {y} /\ RootsOf(c) = {} /\ LeavingOf(c) = {}
       /\ DeepOf(c) = {x}
  BY DEF RootsOf, LeavingOf, DeepOf
<1>13. OwnOK(W, d, vs)
  <2>1. W[x] = W[y] /\ IsWay(W[y]) /\ Leads(W, x, c.rec)
    BY <1>4, <1>6, <1>7, <1>8, <1>9 DEF Leads, Follow
  <2>2. UpdateOK(W, d, vs)
    BY <1>3, <2>1 DEF UpdateOK
  <2> QED
    BY <1>1, <2>2 DEF OwnOK
<1>14. Forest(W, roots \cup {y}, leaving \cup {y}, DeepIn(cs) \ {x})
  <2>1. W = [V EXCEPT ![x] = Way(z)]
    BY DEF z
  <2>2. z = V[y].to
    BY DEF z
  <2>3. PICK deep2 : deep2 = DeepIn(cs) \ {x}
    OBVIOUS
  <2>4. DeepIn(cs) \ {x} \subseteq deep2 /\ y = V[x].to /\ Forest(V, roots, leaving, DeepIn(cs))
        /\ x \in Live(V, leaving) /\ IsWay(V[y]) /\ ~IsWay(V[z])
    BY <1>2, <1>4, <1>5, <1>6, <2>3
  <2> HIDE DEF roots, leaving
  <2>5. Forest([V EXCEPT ![x] = Way(z)], roots \cup {y}, leaving \cup {y}, deep2)
    BY <2>2, <2>4, ForestSkip
  <2> QED
    BY <2>1, <2>3, <2>5
<1> QED
  BY <1>1, <1>2, <1>4, <1>10, <1>11, <1>12, <1>13, <1>14, StepLinked

\* The indirection that is skipped becomes free.
LEMMA Frees ==
  ASSUME OneWriter, NEW V, NEW cs, NEW vs, Linked(V, cs, vs), NEW t \in Threads,
         cs[t].pc = "free", NEW y, y = Last(cs[t].tids),
         NEW d \in Call, d.pc = "return", d.op = cs[t].op, d.tids # << >>,
         d.tids[1] = cs[t].tids[1], Len(d.tids) = 1, d.rec = cs[t].rec,
         NEW W, W = [V EXCEPT ![y] = Void]
  PROVE  Linked(W, [cs EXCEPT ![t] = d], vs) /\ Changes(V, W, cs[t])
         /\ IsWay(V[y]) /\ y \in TIDs
<1> DEFINE c == cs[t]
           x == c.tids[1]
           roots == RootsIn(cs, vs)
           leaving == LeavingIn(cs)
<1>1. c.op = "update"
  BY CallFacts DEF OpOK
<1>2. /\ LocalsOK(c) /\ OpOK(c) /\ TidsOK(c) /\ UpdateOK(V, c, vs) /\ c.tids # << >>
      /\ c.rec \in Records /\ V \in [TIDs -> Views]
      /\ Forest(V, roots, leaving, DeepIn(cs)) /\ leaving \subseteq roots
      /\ RootsOf(c) \subseteq roots /\ LeavingOf(c) \subseteq leaving
  BY <1>1, UpdateFacts, CallFacts, RootsIn1
<1>3. Len(c.tids) = 2 /\ c.tids[2] = y
  BY <1>1, <1>2, UpdateTids DEF TidsOK
<1>4. RootsOf(c) = {y} /\ LeavingOf(c) = {y} /\ DeepOf(c) = {}
  BY DEF RootsOf, LeavingOf, DeepOf
<1>5. /\ x \in TIDs /\ y \in TIDs /\ x \notin RootsOf(c) /\ Its(V, c, y)
  BY <1>1, UpdateTids
<1>6. V[x] = V[y] /\ IsWay(V[y]) /\ Leads(V, x, c.rec)
  BY <1>2, <1>3 DEF UpdateOK
<1>7. V[V[x].to] = Rec(c.rec) /\ V[x].to # y /\ V[x].to \in TIDs
  <2>1. V[V[x].to] = Rec(c.rec)
    BY <1>6 DEF Leads, Follow
  <2>2. V[x].to # y
    BY <1>6, <2>1 DEF Rec, IsWay
  <2>3. V[x] \in Views
    BY <1>2, <1>5
  <2> QED
    BY <1>6, <2>1, <2>2, <2>3, ViewsAre
<1>8. W[y] = Void /\ (\A u \in TIDs \ {y} : W[u] = V[u]) /\ W \in [TIDs -> Views]
  BY <1>2, <1>5, ViewsFacts
<1>9. Changes(V, W, c)
  BY <1>5, <1>8 DEF Changes
<1>10. LocalsOK(d)
  <2>1. OpOK(d)
    BY <1>1 DEF OpOK
  <2>2. d.op = "update" /\ d.pc = "return" /\ Len(d.tids) >= 1 /\ Len(d.tids) <= 2
    <3>1. \A n : n = 1 => n >= 1 /\ n <= 2
      OBVIOUS
    <3> QED
      BY <1>1, <3>1
  <2>3. TidsOK(d)
    BY <2>2 DEF TidsOK
  <2> QED
    BY <1>1, <1>2, <2>1, <2>2, <2>3 DEF LocalsOK
<1>11. RootsOf(d) = {} /\ LeavingOf(d) = {} /\ DeepOf(d) = {}
  BY <1>1 DEF RootsOf, LeavingOf, DeepOf
<1>12. OwnOK(W, d, vs)
  <2>1. Leads(W, x, c.rec)
    <3>1. W[x] = V[x] /\ W[V[x].to] = V[V[x].to]
      BY <1>4, <1>5, <1>7, <1>8
    <3> QED
      BY <1>6, <1>7, <3>1 DEF Leads, Follow
  <2>2. UpdateOK(W, d, vs)
    BY <2>1 DEF UpdateOK
  <2> QED
    BY <1>1, <2>2 DEF OwnOK
<1>13. Forest(W, roots \ {y}, leaving \ {y}, DeepIn(cs))
  <2>1. y \in roots /\ y \in leaving
    BY <1>2, <1>4
  <2> QED
    BY <1>2, <2>1, ForestFree
<1>14. DeepIn(cs) \subseteq (DeepIn(cs) \ DeepOf(c)) \cup DeepOf(d)
  BY <1>4
<1> QED
  BY <1>1, <1>2, <1>4, <1>5, <1>6, <1>9, <1>10, <1>11, <1>12, <1>13, <1>14, StepLinked

\* remove: the slot is a root of the call.
LEMMA RemoveFacts ==
  ASSUME NEW V, NEW cs, NEW vs, Linked(V, cs, vs), NEW t \in Threads, cs[t].pc = "remove"
  PROVE  LET c == cs[t]
             l == Last(c.tids)
         IN  /\ c.op = "remove" /\ c.tids \in Seq(TIDs) /\ c.tids # << >> /\ Len(c.tids) >= 1
             /\ l \in TIDs /\ l \in RootsIn(cs, vs) \ LeavingIn(cs) /\ Its(V, c, l) /\ ~IsVoid(V[l])
             /\ RootsOf(c) = {l} /\ LeavingOf(c) = {} /\ DeepOf(c) = {}
             /\ V[l] \in Views
             /\ IsWay(V[l]) => V[l].to \in TIDs \ RootsIn(cs, vs)
<1> DEFINE c == cs[t]
           l == Last(c.tids)
<1>1. c.op = "remove"
  BY CallFacts DEF OpOK
<1>2. /\ c.tids \in Seq(TIDs) /\ TidsOK(c) /\ V \in [TIDs -> Views]
      /\ Forest(V, RootsIn(cs, vs), LeavingIn(cs), DeepIn(cs))
      /\ RootsOf(c) \subseteq RootsIn(cs, vs)
      /\ LeavingIn(cs) \ LeavingOf(c) \subseteq TIDs \ RootsOf(c)
  BY CallFacts
<1>3. RootsOf(c) = {l} /\ LeavingOf(c) = {} /\ DeepOf(c) = {}
  BY DEF RootsOf, LeavingOf, DeepOf
<1>4. c.tids # << >> /\ Len(c.tids) >= 1 /\ l \in TIDs
  BY <1>1, <1>2, TidsFacts DEF TidsOK
<1>5. l \in RootsIn(cs, vs) \ LeavingIn(cs) /\ Its(V, c, l) /\ V[l] \in Views
  BY <1>2, <1>3, <1>4 DEF Its
<1>6. ~IsVoid(V[l]) /\ (IsWay(V[l]) => V[l].to \in TIDs \ RootsIn(cs, vs))
  BY <1>2, <1>4, <1>5 DEF Forest, Live
<1> QED
  BY <1>1, <1>2, <1>3, <1>4, <1>5, <1>6

LEMMA RemoveFollows ==
  ASSUME OneWriter, NEW V, NEW cs, NEW vs, Linked(V, cs, vs), NEW t \in Threads,
         cs[t].pc = "remove", NEW l, l = Last(cs[t].tids), IsWay(V[l]),
         NEW d \in Call, d.pc = "remove", d.op = cs[t].op, d.tids # << >>,
         d.tids[1] = cs[t].tids[1], Len(d.tids) >= 1, Last(d.tids) = V[l].to,
         NEW W, W = [V EXCEPT ![l] = Void]
  PROVE  Linked(W, [cs EXCEPT ![t] = d], vs) /\ Changes(V, W, cs[t])
<1> DEFINE c == cs[t]
           z == V[l].to
           roots == RootsIn(cs, vs)
           leaving == LeavingIn(cs)
<1>1. /\ c.op = "remove" /\ c.tids # << >> /\ l \in TIDs /\ l \in roots \ leaving /\ Its(V, c, l)
      /\ V[l].to \in TIDs \ roots
  BY RemoveFacts
<1>2. /\ V \in [TIDs -> Views] /\ Forest(V, roots, leaving, DeepIn(cs))
  BY CallFacts
<1>3. RootsOf(c) = {l} /\ LeavingOf(c) = {} /\ DeepOf(c) = {}
  BY DEF RootsOf, LeavingOf, DeepOf
<1>4. (\A u \in TIDs \ {l} : W[u] = V[u]) /\ W \in [TIDs -> Views]
  BY <1>1, <1>2, ViewsFacts
<1>5. Changes(V, W, c)
  BY <1>1, <1>4 DEF Changes
<1>6. LocalsOK(d)
  BY <1>1 DEF LocalsOK, OpOK, TidsOK
<1>7. RootsOf(d) = {z} /\ LeavingOf(d) = {} /\ DeepOf(d) = {}
  BY DEF RootsOf, LeavingOf, DeepOf
<1>8. OwnOK(W, d, vs)
  BY <1>1 DEF OwnOK
<1>9. Forest(W, (roots \ {l}) \cup {z}, leaving, DeepIn(cs))
  BY <1>1, <1>2, ForestFollow
<1> QED
  BY <1>1, <1>3, <1>5, <1>6, <1>7, <1>8, <1>9, StepLinked

LEMMA RemoveFrees ==
  ASSUME OneWriter, NEW V, NEW cs, NEW vs, Linked(V, cs, vs), NEW t \in Threads,
         cs[t].pc = "remove", NEW l, l = Last(cs[t].tids), ~IsWay(V[l]),
         NEW d \in Call, d.pc = "return", d.op = cs[t].op, d.tids = cs[t].tids,
         NEW W, W = [V EXCEPT ![l] = Void]
  PROVE  Linked(W, [cs EXCEPT ![t] = d], vs) /\ Changes(V, W, cs[t])
<1> DEFINE c == cs[t]
           roots == RootsIn(cs, vs)
           leaving == LeavingIn(cs)
<1>1. /\ c.op = "remove" /\ c.tids # << >> /\ l \in TIDs /\ l \in roots \ leaving /\ Its(V, c, l)
      /\ ~IsVoid(V[l]) /\ V[l] \in Views /\ Len(c.tids) >= 1
  BY RemoveFacts
<1>2. /\ V \in [TIDs -> Views] /\ Forest(V, roots, leaving, DeepIn(cs))
  BY CallFacts
<1>3. RootsOf(c) = {l} /\ LeavingOf(c) = {} /\ DeepOf(c) = {}
  BY DEF RootsOf, LeavingOf, DeepOf
<1>4. (\A u \in TIDs \ {l} : W[u] = V[u]) /\ W \in [TIDs -> Views]
  BY <1>1, <1>2, ViewsFacts
<1>5. Changes(V, W, c)
  BY <1>1, <1>4 DEF Changes
<1>6. LocalsOK(d)
  BY <1>1 DEF LocalsOK, OpOK, TidsOK
<1>7. RootsOf(d) = {} /\ LeavingOf(d) = {} /\ DeepOf(d) = {}
  BY <1>1 DEF RootsOf, LeavingOf, DeepOf
<1>8. OwnOK(W, d, vs)
  BY <1>1 DEF OwnOK
<1>9. Forest(W, roots \ {l}, leaving, DeepIn(cs))
  <2>1. IsRec(V[l]) /\ leaving \ {l} = leaving
    BY <1>1, ViewsFacts
  <2>2. Forest(W, roots \ {l}, leaving \ {l}, DeepIn(cs))
    BY <1>1, <1>2, <2>1, ForestFree
  <2> QED
    BY <2>1, <2>2
<1> QED
  BY <1>1, <1>3, <1>5, <1>6, <1>7, <1>8, <1>9, StepLinked

(***************************************************************************)
(* A call begins or returns: no slot changes, and what the clients and the *)
(* calls know of is the same taken together.                               *)
(***************************************************************************)
LEMMA ClientStep ==
  ASSUME NEW V, NEW cs, NEW vs, Linked(V, cs, vs), NEW t \in Threads,
         NEW cs2 \in [Threads -> Call], Beside(cs, cs2, t),
         NEW d, d = cs2[t], LocalsOK(d), d.op # "none" => d.op \in Ops[t],
         NEW vs2, DOMAIN vs2 \subseteq TIDs, \A x \in DOMAIN vs2 : vs2[x] \in Records,
         d.op \in {"lookup", "update"} => d.tids[1] \in DOMAIN vs2,
         RootsOf(d) \cap DOMAIN vs2 = {},
         DOMAIN vs2 \cup RootsOf(d) = DOMAIN vs \cup RootsOf(cs[t]),
         LeavingOf(d) = {}, LeavingOf(cs[t]) = {}, DeepOf(d) = {}, DeepOf(cs[t]) = {},
         \A u \in Threads \ {t} :
            /\ d.tids # << >> /\ cs[u].tids # << >> => d.tids[1] # cs[u].tids[1]
            /\ cs[u].op \in {"lookup", "update"} => /\ cs[u].tids[1] \in DOMAIN vs2
                                                    /\ vs2[cs[u].tids[1]] = vs[cs[u].tids[1]],
         OwnOK(V, d, vs2),
         \A x \in DOMAIN vs2 : Untouched(cs2, x) => Leads(V, x, vs2[x])
  PROVE  Linked(V, cs2, vs2)
<1>0. Calls(cs, vs) /\ Contents(V, cs, vs) /\ Forest(V, RootsIn(cs, vs), LeavingIn(cs), DeepIn(cs))
  BY DEF Linked
<1>1. \A u \in Threads \ {t} : /\ cs[u] \in Call /\ cs2[u] \in Call /\ Alike(cs[u], cs2[u])
                               /\ LocalsOK(cs[u]) /\ OwnOK(V, cs[u], vs)
  BY <1>0 DEF Calls, Beside, Contents
<1>2. \A u \in Threads \ {t} : /\ cs2[u].op = cs[u].op /\ cs2[u].tids = cs[u].tids
                               /\ RootsOf(cs2[u]) = RootsOf(cs[u]) /\ LocalsOK(cs2[u])
                               /\ LeavingOf(cs2[u]) = LeavingOf(cs[u])
                               /\ DeepOf(cs2[u]) = DeepOf(cs[u])
                               /\ RootsOf(cs[u]) \cap DOMAIN vs = {}
                               /\ RootsOf(cs[u]) \cap RootsOf(cs[t]) = {}
  <2> SUFFICES ASSUME NEW u \in Threads \ {t}
               PROVE  /\ cs2[u].op = cs[u].op /\ cs2[u].tids = cs[u].tids
                      /\ RootsOf(cs2[u]) = RootsOf(cs[u]) /\ LocalsOK(cs2[u])
                      /\ LeavingOf(cs2[u]) = LeavingOf(cs[u])
                      /\ DeepOf(cs2[u]) = DeepOf(cs[u])
                      /\ RootsOf(cs[u]) \cap DOMAIN vs = {}
                      /\ RootsOf(cs[u]) \cap RootsOf(cs[t]) = {}
    OBVIOUS
  <2>1. RootsOf(cs[u]) \cap DOMAIN vs = {} /\ RootsOf(cs[u]) \cap RootsOf(cs[t]) = {}
    BY <1>0 DEF Calls
  <2>2. cs2[u].op = cs[u].op /\ cs2[u].tids = cs[u].tids
    BY <1>1 DEF Alike
  <2> QED
    BY <1>1, <2>1, <2>2, AlikeOK
<1>3. Calls(cs2, vs2)
  <2>1. ASSUME NEW u \in Threads
        PROVE  /\ LocalsOK(cs2[u])
               /\ cs2[u].op # "none" => cs2[u].op \in Ops[u]
               /\ cs2[u].op \in {"lookup", "update"} => cs2[u].tids[1] \in DOMAIN vs2
               /\ RootsOf(cs2[u]) \cap DOMAIN vs2 = {}
    <3>1. CASE u = t
      BY <3>1
    <3>2. CASE u # t
      <4>1. cs[u].op # "none" => cs[u].op \in Ops[u]
        BY <1>0 DEF Calls
      <4> QED
        BY <1>2, <3>2, <4>1
    <3> QED
      BY <3>1, <3>2
  <2>2. ASSUME NEW u \in Threads, NEW w \in Threads, u # w
        PROVE  /\ cs2[u].tids # << >> /\ cs2[w].tids # << >> => cs2[u].tids[1] # cs2[w].tids[1]
               /\ RootsOf(cs2[u]) \cap RootsOf(cs2[w]) = {}
    <3>1. CASE u = t
      BY <1>2, <2>2, <3>1
    <3>2. CASE w = t
      BY <1>2, <2>2, <3>2
    <3>3. CASE u # t /\ w # t
      BY <1>0, <1>2, <2>2, <3>3 DEF Calls
    <3> QED
      BY <3>1, <3>2, <3>3
  <2> QED
    BY <2>1, <2>2 DEF Calls
<1>4. RootsIn(cs2, vs2) = RootsIn(cs, vs)
  <2>1. ASSUME NEW x \in RootsIn(cs2, vs2) PROVE x \in RootsIn(cs, vs)
    <3>1. CASE x \in DOMAIN vs2 \cup RootsOf(d)
      BY <3>1 DEF RootsIn
    <3>2. CASE x \notin DOMAIN vs2 \cup RootsOf(d)
      <4>1. PICK u \in Threads : x \in RootsOf(cs2[u])
        BY <2>1, <3>2 DEF RootsIn
      <4> QED
        BY <1>2, <3>2, <4>1 DEF RootsIn
    <3> QED
      BY <3>1, <3>2
  <2>2. ASSUME NEW x \in RootsIn(cs, vs) PROVE x \in RootsIn(cs2, vs2)
    <3>1. CASE x \in DOMAIN vs \cup RootsOf(cs[t])
      BY <3>1 DEF RootsIn
    <3>2. CASE x \notin DOMAIN vs \cup RootsOf(cs[t])
      <4>1. PICK u \in Threads : x \in RootsOf(cs[u])
        BY <2>2, <3>2 DEF RootsIn
      <4> QED
        BY <1>2, <3>2, <4>1 DEF RootsIn
    <3> QED
      BY <3>1, <3>2
  <2> QED
    BY <2>1, <2>2
<1>5. LeavingIn(cs2) = LeavingIn(cs) /\ DeepIn(cs2) = DeepIn(cs)
  <2>1. \A u \in Threads : LeavingOf(cs2[u]) = LeavingOf(cs[u]) /\ DeepOf(cs2[u]) = DeepOf(cs[u])
    BY <1>2
  <2> QED
    BY <2>1 DEF LeavingIn, DeepIn
<1>6. ASSUME NEW u \in Threads
      PROVE  OwnOK(V, cs2[u], vs2)
  <2>1. CASE u = t
    BY <2>1
  <2>2. CASE u # t
    <3>1. OwnOK(V, cs2[u], vs)
      BY <1>1, <2>2, AlikeOK
    <3>2. cs2[u].op = "update" => vs2[cs2[u].tids[1]] = vs[cs2[u].tids[1]]
      BY <1>2, <2>2
    <3> QED
      BY <3>1, <3>2 DEF OwnOK, UpdateOK
  <2> QED
    BY <2>1, <2>2
<1>7. Contents(V, cs2, vs2)
  BY <1>6 DEF Contents
<1> QED
  BY <1>0, <1>3, <1>4, <1>5, <1>7 DEF Linked

LEMMA IdleCall ==
  /\ Idle.pc = "idle" /\ Idle.op = "none" /\ Idle.tids = << >> /\ Idle.rec = << >>
  /\ Idle.page = 0 /\ Idle.header = NoPage /\ Idle.result = NoTID
  /\ Idle.answer = << >> /\ Idle.scan = NewScan /\ Idle.due = {}
  /\ Idle \in Call /\ LocalsOK(Idle)
  /\ RootsOf(Idle) = {} /\ LeavingOf(Idle) = {} /\ DeepOf(Idle) = {}
  /\ \A V, vs : OwnOK(V, Idle, vs)
<1>1. /\ Idle.pc = "idle" /\ Idle.op = "none" /\ Idle.tids = << >> /\ Idle.rec = << >>
      /\ Idle.page = 0 /\ Idle.header = NoPage /\ Idle.result = NoTID
      /\ Idle.answer = << >> /\ Idle.scan = NewScan /\ Idle.due = {}
  BY DEF Idle
<1>2. NewScan \in Scans
  BY DEF NewScan, Scans, NoFrame
<1>3. << >> \in Seq(TIDs) /\ << >> \in Seq(Units) /\ << >> \in Seq(Units \cup {Junk})
  OBVIOUS
<1>4. Idle \in Call
  BY <1>2, <1>3 DEF Idle, Call, Labels, AllOps
<1>5. LocalsOK(Idle)
  BY <1>1, <1>4 DEF LocalsOK, OpOK, TidsOK
<1>6. RootsOf(Idle) = {} /\ LeavingOf(Idle) = {} /\ DeepOf(Idle) = {}
  BY <1>1 DEF RootsOf, LeavingOf, DeepOf
<1>7. \A V, vs : OwnOK(V, Idle, vs)
  BY <1>1 DEF OwnOK
<1> QED
  BY <1>1, <1>4, <1>5, <1>6, <1>7

\* Table scans have no part in it.
LEMMA Scanned ==
  ASSUME NEW V, NEW cs, NEW vs, Linked(V, cs, vs), NEW t \in Threads,
         cs[t].op \in {"none", "tablescan"},
         NEW d \in Call, d.op \in {"none", "tablescan"}, d.op # "none" => d.op \in Ops[t],
         LocalsOK(d)
  PROVE  Linked(V, [cs EXCEPT ![t] = d], vs)
<1> DEFINE c == cs[t]
           cs2 == [cs EXCEPT ![t] = d]
<1>0. Calls(cs, vs) /\ cs \in [Threads -> Call] /\ OpOK(c) /\ Contents(V, cs, vs)
  BY CallFacts DEF Linked
<1>1. cs2 \in [Threads -> Call] /\ cs2[t] = d /\ Beside(cs, cs2, t)
  BY <1>0, Stepped
<1> HIDE DEF cs2
<1>2. OpOK(d) /\ TidsOK(d)
  BY DEF LocalsOK
<1>3. d.tids = << >>
  BY <1>2 DEF TidsOK
<1>4. \A e : OpOK(e) /\ e.op \in {"none", "tablescan"} =>
                RootsOf(e) = {} /\ LeavingOf(e) = {} /\ DeepOf(e) = {}
  BY DEF OpOK, RootsOf, LeavingOf, DeepOf
<1>5. RootsOf(d) = {} /\ LeavingOf(d) = {} /\ DeepOf(d) = {}
      /\ RootsOf(c) = {} /\ LeavingOf(c) = {} /\ DeepOf(c) = {}
  BY <1>0, <1>2, <1>4
<1>6. OwnOK(V, d, vs)
  BY DEF OwnOK
<1>7. ASSUME NEW x \in DOMAIN vs, Untouched(cs2, x)
      PROVE  Leads(V, x, vs[x])
  <2>1. Untouched(cs, x)
    BY <1>1, <1>7 DEF Untouched, Beside, Alike
  <2> QED
    BY <1>0, <2>1 DEF Contents
<1>8. /\ DOMAIN vs \subseteq TIDs /\ \A x \in DOMAIN vs : vs[x] \in Records
      /\ \A u \in Threads \ {t} : cs[u].op \in {"lookup", "update"} => cs[u].tids[1] \in DOMAIN vs
  BY <1>0 DEF Calls
<1>9. Linked(V, cs2, vs)
  BY <1>1, <1>3, <1>5, <1>6, <1>7, <1>8, ClientStep
<1> QED
  BY <1>9 DEF cs2

LEMMA OneTid ==
  ASSUME NEW x \in TIDs
  PROVE  /\ <<x>> \in Seq(TIDs) /\ <<x>> # << >> /\ Len(<<x>>) = 1 /\ <<x>>[1] = x
         /\ Last(<<x>>) = x
BY DEF Last

\* A call of insert begins.
LEMMA BeginsInsert ==
  ASSUME NEW V, NEW cs, NEW vs, Linked(V, cs, vs), NEW t \in Threads, cs[t].pc = "idle",
         NEW cs2 \in [Threads -> Call], Beside(cs, cs2, t),
         NEW d \in Call, d = cs2[t], d.pc = "scan", d.op = "insert", d.tids = << >>,
         d.rec \in Records, "insert" \in Ops[t]
  PROVE  Linked(V, cs2, vs)
<1> DEFINE c == cs[t]
<1>0. Calls(cs, vs) /\ OpOK(c) /\ Contents(V, cs, vs)
  BY CallFacts DEF Linked
<1>1. c.op = "none"
  BY <1>0 DEF OpOK
<1>2. LocalsOK(d)
  BY DEF LocalsOK, OpOK, TidsOK
<1>3. RootsOf(d) = {} /\ LeavingOf(d) = {} /\ DeepOf(d) = {}
      /\ RootsOf(c) = {} /\ LeavingOf(c) = {} /\ DeepOf(c) = {}
  BY DEF RootsOf, LeavingOf, DeepOf
<1>4. OwnOK(V, d, vs)
  BY DEF OwnOK
<1>5. ASSUME NEW x \in DOMAIN vs, Untouched(cs2, x)
      PROVE  Leads(V, x, vs[x])
  <2>1. Untouched(cs, x)
    BY <1>1, <1>5 DEF Untouched, Beside, Alike
  <2> QED
    BY <1>0, <2>1 DEF Contents
<1>6. /\ DOMAIN vs \subseteq TIDs /\ \A x \in DOMAIN vs : vs[x] \in Records
      /\ \A u \in Threads \ {t} : cs[u].op \in {"lookup", "update"} => cs[u].tids[1] \in DOMAIN vs
  BY <1>0 DEF Calls
<1> QED
  BY <1>2, <1>3, <1>4, <1>5, <1>6, ClientStep

\* A call of lookup or update.
LEMMA BeginsOn ==
  ASSUME NEW V, NEW cs, NEW vs, Linked(V, cs, vs), NEW t \in Threads, cs[t].pc = "idle",
         NEW cs2 \in [Threads -> Call], Beside(cs, cs2, t),
         NEW d \in Call, d = cs2[t], d.op \in {"lookup", "update"}, d.pc = d.op,
         NEW x \in DOMAIN vs, d.tids = <<x>>, d.op = "update" => d.rec \in Records,
         \A u \in Threads \ {t} : cs[u].tids # << >> => cs[u].tids[1] # x,
         d.op \in Ops[t]
  PROVE  Linked(V, cs2, vs)
<1> DEFINE c == cs[t]
<1>0. Calls(cs, vs) /\ OpOK(c) /\ Contents(V, cs, vs)
  BY CallFacts DEF Linked
<1>1. c.op = "none"
  BY <1>0 DEF OpOK
<1>2. x \in TIDs /\ d.tids # << >> /\ Len(d.tids) = 1 /\ d.tids[1] = x /\ Last(d.tids) = x
  <2>1. x \in TIDs
    BY <1>0 DEF Calls
  <2> QED
    BY <2>1, OneTid
<1>3. LocalsOK(d)
  <2>1. OpOK(d)
    BY DEF OpOK
  <2>2. \A n : n = 1 => n >= 1 /\ n <= 2
    OBVIOUS
  <2>3. TidsOK(d)
    BY <1>2, <2>2 DEF TidsOK
  <2> QED
    BY <2>1, <2>3 DEF LocalsOK
<1>4. RootsOf(d) = {} /\ LeavingOf(d) = {} /\ DeepOf(d) = {}
      /\ RootsOf(c) = {} /\ LeavingOf(c) = {} /\ DeepOf(c) = {}
  BY DEF RootsOf, LeavingOf, DeepOf
<1>5. \A z \in DOMAIN vs : Untouched(cs, z) => Leads(V, z, vs[z])
  BY <1>0 DEF Contents
<1>6. \A u \in Threads : cs[u].op = "update" => cs[u].tids # << >> /\ u # t
  BY <1>1, CallFacts
<1>7. Leads(V, x, vs[x])
  <2>1. Untouched(cs, x)
    BY <1>6 DEF Untouched
  <2> QED
    BY <1>5, <2>1
<1>8. OwnOK(V, d, vs)
  BY <1>2, <1>7 DEF OwnOK, UpdateOK
<1>9. ASSUME NEW z \in DOMAIN vs, Untouched(cs2, z)
      PROVE  Leads(V, z, vs[z])
  <2>1. Untouched(cs, z)
    BY <1>1, <1>9 DEF Untouched, Beside, Alike
  <2> QED
    BY <1>5, <2>1
<1>10. /\ DOMAIN vs \subseteq TIDs /\ \A z \in DOMAIN vs : vs[z] \in Records
       /\ \A u \in Threads \ {t} : cs[u].op \in {"lookup", "update"} => cs[u].tids[1] \in DOMAIN vs
  BY <1>0 DEF Calls
<1> QED
  BY <1>2, <1>3, <1>4, <1>8, <1>9, <1>10, ClientStep, SMTT(30)

\* The client forgets the record of x.
Forgotten(vs, vs2, x) == DOMAIN vs2 = DOMAIN vs \ {x} /\ \A z \in DOMAIN vs2 : vs2[z] = vs[z]

\* A call of remove: the client gives up the TID.
LEMMA BeginsRemove ==
  ASSUME NEW V, NEW cs, NEW vs, Linked(V, cs, vs), NEW t \in Threads, cs[t].pc = "idle",
         NEW cs2 \in [Threads -> Call], Beside(cs, cs2, t),
         NEW d \in Call, d = cs2[t], d.op = "remove", d.pc = "remove",
         NEW x \in DOMAIN vs, d.tids = <<x>>,
         \A u \in Threads \ {t} : cs[u].tids # << >> => cs[u].tids[1] # x,
         "remove" \in Ops[t],
         NEW vs2, Forgotten(vs, vs2, x)
  PROVE  Linked(V, cs2, vs2)
<1> DEFINE c == cs[t]
<1>0. Calls(cs, vs) /\ OpOK(c) /\ Contents(V, cs, vs)
  BY CallFacts DEF Linked
<1>1. c.op = "none"
  BY <1>0 DEF OpOK
<1>2. x \in TIDs /\ d.tids # << >> /\ Len(d.tids) = 1 /\ d.tids[1] = x /\ Last(d.tids) = x
  <2>1. x \in TIDs
    BY <1>0 DEF Calls
  <2> QED
    BY <2>1, OneTid
<1>3. LocalsOK(d)
  <2>1. OpOK(d)
    BY DEF OpOK
  <2>2. \A n : n = 1 => n >= 1 /\ n <= 2
    OBVIOUS
  <2>3. TidsOK(d)
    BY <1>2, <2>2 DEF TidsOK
  <2> QED
    BY <2>1, <2>3 DEF LocalsOK
<1>4. RootsOf(d) = {x} /\ LeavingOf(d) = {} /\ DeepOf(d) = {}
      /\ RootsOf(c) = {} /\ LeavingOf(c) = {} /\ DeepOf(c) = {}
  BY <1>2 DEF RootsOf, LeavingOf, DeepOf
<1>5. DOMAIN vs2 = DOMAIN vs \ {x} /\ \A z \in DOMAIN vs2 : vs2[z] = vs[z]
  BY DEF Forgotten
<1>6. OwnOK(V, d, vs2)
  BY DEF OwnOK
<1>7. ASSUME NEW z \in DOMAIN vs2, Untouched(cs2, z)
      PROVE  Leads(V, z, vs2[z])
  <2>1. Untouched(cs, z)
    BY <1>1, <1>7 DEF Untouched, Beside, Alike
  <2> QED
    BY <1>0, <1>5, <2>1 DEF Contents
<1>8. /\ DOMAIN vs2 \subseteq TIDs /\ \A z \in DOMAIN vs2 : vs2[z] \in Records
  BY <1>0, <1>5 DEF Calls
<1>9. ASSUME NEW u \in Threads \ {t}, cs[u].op \in {"lookup", "update"}
      PROVE  cs[u].tids[1] \in DOMAIN vs2 /\ vs2[cs[u].tids[1]] = vs[cs[u].tids[1]]
  <2>1. cs[u].tids[1] \in DOMAIN vs /\ cs[u].tids # << >>
    BY <1>9, CallFacts
  <2> QED
    BY <1>5, <2>1
<1>10. DOMAIN vs2 \cup RootsOf(d) = DOMAIN vs \cup RootsOf(c) /\ RootsOf(d) \cap DOMAIN vs2 = {}
  BY <1>4, <1>5
<1>11. \A u \in Threads \ {t} : cs[u].tids # << >> => d.tids[1] # cs[u].tids[1]
  BY <1>2
<1> HIDE DEF c
<1>12. LeavingOf(cs[t]) = {} /\ DeepOf(cs[t]) = {}
  BY <1>4 DEF c
<1>13. DOMAIN vs2 \cup RootsOf(d) = DOMAIN vs \cup RootsOf(cs[t])
  BY <1>10 DEF c
<1>14. \A u \in Threads \ {t} :
          /\ d.tids # << >> /\ cs[u].tids # << >> => d.tids[1] # cs[u].tids[1]
          /\ cs[u].op \in {"lookup", "update"} => /\ cs[u].tids[1] \in DOMAIN vs2
                                                  /\ vs2[cs[u].tids[1]] = vs[cs[u].tids[1]]
  BY <1>9, <1>11
<1>15. /\ d.op # "none" => d.op \in Ops[t]
       /\ d.op \in {"lookup", "update"} => d.tids[1] \in DOMAIN vs2
       /\ LeavingOf(d) = {} /\ DeepOf(d) = {}
  BY <1>4
<1>16. \A z \in DOMAIN vs2 : Untouched(cs2, z) => Leads(V, z, vs2[z])
  BY <1>7
<1> QED
  BY <1>3, <1>6, <1>8, <1>10, <1>12, <1>13, <1>14, <1>15, <1>16, ClientStep

\* A call that returns is no longer one.
LEMMA ReturnFacts ==
  ASSUME NEW V, NEW cs, NEW vs, Linked(V, cs, vs), NEW t \in Threads, cs[t].pc = "return"
  PROVE  LET c == cs[t]
             cs2 == [cs EXCEPT ![t] = Idle]
         IN  /\ c.op \in {"insert", "remove", "lookup", "update"}
             /\ cs2 \in [Threads -> Call] /\ cs2[t] = Idle /\ Beside(cs, cs2, t)
             /\ LeavingOf(c) = {} /\ DeepOf(c) = {}
             /\ DOMAIN vs \subseteq TIDs /\ \A x \in DOMAIN vs : vs[x] \in Records
             /\ \A u \in Threads \ {t} : cs[u].op \in {"lookup", "update"} =>
                                           cs[u].tids[1] \in DOMAIN vs
             /\ \A x \in DOMAIN vs : /\ Untouched(cs2, x)
                                     /\ c.op = "update" => c.tids[1] # x
                                     => Leads(V, x, vs[x])
             /\ c.op = "insert" => /\ c.result \in TIDs \ DOMAIN vs /\ c.rec \in Records
                                   /\ V[c.result] = Rec(c.rec) /\ RootsOf(c) = {c.result}
             /\ c.op # "insert" => RootsOf(c) = {}
             /\ c.op = "update" => /\ c.tids[1] \in DOMAIN vs /\ c.rec \in Records /\ c.tids # << >>
                                   /\ Leads(V, c.tids[1], c.rec)
<1> DEFINE c == cs[t]
           cs2 == [cs EXCEPT ![t] = Idle]
<1>0. Calls(cs, vs) /\ OpOK(c) /\ LocalsOK(c) /\ OwnOK(V, c, vs) /\ Contents(V, cs, vs)
      /\ cs \in [Threads -> Call] /\ c \in Call
  BY CallFacts DEF Linked
<1>1. c.op \in {"insert", "remove", "lookup", "update"}
  BY <1>0 DEF OpOK, Call, AllOps
<1>2. cs2 \in [Threads -> Call] /\ cs2[t] = Idle /\ Beside(cs, cs2, t)
  BY <1>0, IdleCall, Stepped
<1> HIDE DEF cs2
<1>3. LeavingOf(c) = {} /\ DeepOf(c) = {}
  BY DEF LeavingOf, DeepOf
<1>4. /\ DOMAIN vs \subseteq TIDs /\ \A x \in DOMAIN vs : vs[x] \in Records
      /\ \A u \in Threads \ {t} : cs[u].op \in {"lookup", "update"} => cs[u].tids[1] \in DOMAIN vs
      /\ RootsOf(c) \cap DOMAIN vs = {}
  BY <1>0 DEF Calls
<1>5. ASSUME NEW x \in DOMAIN vs, Untouched(cs2, x), c.op = "update" => c.tids[1] # x
      PROVE  Leads(V, x, vs[x])
  <2>1. Untouched(cs, x)
    BY <1>2, <1>5 DEF Untouched, Beside, Alike
  <2> QED
    BY <1>0, <2>1 DEF Contents
<1>6. ASSUME c.op = "insert"
      PROVE  /\ c.result \in TIDs \ DOMAIN vs /\ c.rec \in Records
             /\ V[c.result] = Rec(c.rec) /\ RootsOf(c) = {c.result}
  <2>1. RootsOf(c) = {c.result}
    BY <1>6 DEF RootsOf
  <2> QED
    BY <1>0, <1>4, <1>6, <2>1 DEF LocalsOK, OwnOK
<1>7. c.op # "insert" => RootsOf(c) = {}
  BY DEF RootsOf
<1>8. c.op = "update" => /\ c.tids[1] \in DOMAIN vs /\ c.rec \in Records /\ c.tids # << >>
                         /\ Leads(V, c.tids[1], c.rec)
  BY <1>0, CallFacts DEF OwnOK, UpdateOK
<1> QED
  BY <1>1, <1>2, <1>3, <1>4, <1>5, <1>6, <1>7, <1>8 DEF cs2

LEMMA ReturnsInsert ==
  ASSUME NEW V, NEW cs, NEW vs, Linked(V, cs, vs), NEW t \in Threads, cs[t].pc = "return",
         cs[t].op = "insert", NEW vs2, vs2 = With(vs, cs[t].result, cs[t].rec)
  PROVE  Linked(V, [cs EXCEPT ![t] = Idle], vs2)
<1> DEFINE c == cs[t]
           cs2 == [cs EXCEPT ![t] = Idle]
<1>0. cs2 \in [Threads -> Call] /\ cs2[t] = Idle /\ Beside(cs, cs2, t)
  BY ReturnFacts
<1>a. c.result \in TIDs \ DOMAIN vs /\ c.rec \in Records
  BY ReturnFacts
<1>b. V[c.result] = Rec(c.rec) /\ RootsOf(c) = {c.result}
  BY ReturnFacts, ZenonT(30)
<1>1. /\ LeavingOf(c) = {} /\ DeepOf(c) = {}
      /\ DOMAIN vs \subseteq TIDs /\ \A x \in DOMAIN vs : vs[x] \in Records
      /\ \A u \in Threads \ {t} : cs[u].op \in {"lookup", "update"} => cs[u].tids[1] \in DOMAIN vs
      /\ c.result \in TIDs \ DOMAIN vs /\ c.rec \in Records
      /\ V[c.result] = Rec(c.rec) /\ RootsOf(c) = {c.result}
  <2>1. LeavingOf(c) = {} /\ DeepOf(c) = {}
    BY ReturnFacts
  <2>2. DOMAIN vs \subseteq TIDs /\ \A x \in DOMAIN vs : vs[x] \in Records
    BY DEF Linked, Calls
  <2>3. \A u \in Threads \ {t} : cs[u].op \in {"lookup", "update"} => cs[u].tids[1] \in DOMAIN vs
    BY DEF Linked, Calls
  <2> QED
    BY <1>a, <1>b, <2>1, <2>2, <2>3
<1>2. \A x \in DOMAIN vs : Untouched(cs2, x) => Leads(V, x, vs[x])
  BY ReturnFacts
<1>3. /\ DOMAIN vs2 = DOMAIN vs \cup {c.result} /\ vs2[c.result] = c.rec
      /\ \A x \in DOMAIN vs : vs2[x] = vs[x]
  BY <1>1 DEF With
<1> HIDE DEF cs2
<1>4. ASSUME NEW x \in DOMAIN vs2, Untouched(cs2, x)
      PROVE  Leads(V, x, vs2[x])
  <2>1. CASE x = c.result
    <3>1. ~IsWay(V[x])
      BY <1>1, <2>1 DEF Rec, IsWay
    <3> QED
      BY <1>1, <1>3, <2>1, <3>1 DEF Leads, Follow
  <2>2. CASE x # c.result
    BY <1>2, <1>3, <1>4, <2>2
  <2> QED
    BY <2>1, <2>2
<1>5. /\ DOMAIN vs2 \subseteq TIDs /\ \A x \in DOMAIN vs2 : vs2[x] \in Records
      /\ \A u \in Threads \ {t} : cs[u].op \in {"lookup", "update"} =>
            cs[u].tids[1] \in DOMAIN vs2 /\ vs2[cs[u].tids[1]] = vs[cs[u].tids[1]]
  BY <1>1, <1>3
<1>6. OwnOK(V, Idle, vs2)
  BY IdleCall
<1>7. /\ LocalsOK(Idle) /\ RootsOf(Idle) = {} /\ LeavingOf(Idle) = {} /\ DeepOf(Idle) = {}
      /\ Idle.op = "none" /\ Idle.tids = << >>
  BY IdleCall
<1>8. /\ DOMAIN vs2 \cup RootsOf(Idle) = DOMAIN vs \cup RootsOf(cs[t])
      /\ LeavingOf(cs[t]) = {} /\ DeepOf(cs[t]) = {}
  BY <1>1, <1>3, <1>7
<1>9. Linked(V, cs2, vs2)
  BY <1>0, <1>1, <1>4, <1>5, <1>6, <1>7, <1>8, ClientStep
<1> QED
  BY <1>9 DEF cs2

LEMMA ReturnsUpdate ==
  ASSUME NEW V, NEW cs, NEW vs, Linked(V, cs, vs), NEW t \in Threads, cs[t].pc = "return",
         cs[t].op = "update", NEW vs2, DOMAIN vs2 = DOMAIN vs,
         vs2[cs[t].tids[1]] = cs[t].rec, \A z \in DOMAIN vs \ {cs[t].tids[1]} : vs2[z] = vs[z]
  PROVE  Linked(V, [cs EXCEPT ![t] = Idle], vs2)
<1> DEFINE c == cs[t]
           x == c.tids[1]
           cs2 == [cs EXCEPT ![t] = Idle]
<1>0. cs2 \in [Threads -> Call] /\ cs2[t] = Idle /\ Beside(cs, cs2, t)
  BY ReturnFacts
<1>1. /\ LeavingOf(c) = {} /\ DeepOf(c) = {} /\ RootsOf(c) = {}
      /\ DOMAIN vs \subseteq TIDs /\ \A z \in DOMAIN vs : vs[z] \in Records
      /\ \A u \in Threads \ {t} : cs[u].op \in {"lookup", "update"} => cs[u].tids[1] \in DOMAIN vs
      /\ x \in DOMAIN vs /\ c.rec \in Records /\ c.tids # << >> /\ Leads(V, x, c.rec)
  <2>1. LeavingOf(c) = {} /\ DeepOf(c) = {}
    BY ReturnFacts
  <2>2. DOMAIN vs \subseteq TIDs /\ \A z \in DOMAIN vs : vs[z] \in Records
    BY DEF Linked, Calls
  <2>3. \A u \in Threads \ {t} : cs[u].op \in {"lookup", "update"} => cs[u].tids[1] \in DOMAIN vs
    BY DEF Linked, Calls
  <2>4. RootsOf(c) = {}
    BY ReturnFacts
  <2>5. x \in DOMAIN vs /\ c.rec \in Records /\ c.tids # << >> /\ Leads(V, x, c.rec)
    BY ReturnFacts
  <2> QED
    BY <2>1, <2>2, <2>3, <2>4, <2>5
<1>2. \A z \in DOMAIN vs : Untouched(cs2, z) /\ z # x => Leads(V, z, vs[z])
  BY ReturnFacts
<1>3. /\ DOMAIN vs2 = DOMAIN vs /\ vs2[x] = c.rec /\ \A z \in DOMAIN vs \ {x} : vs2[z] = vs[z]
  BY <1>1
<1> HIDE DEF cs2
<1>4. \A z \in DOMAIN vs2 : Untouched(cs2, z) => Leads(V, z, vs2[z])
  BY <1>1, <1>2, <1>3
<1>5. \A u \in Threads \ {t} : cs[u].op \in {"lookup", "update"} => cs[u].tids[1] # x
  <2> SUFFICES ASSUME NEW u \in Threads \ {t}, cs[u].op \in {"lookup", "update"}
               PROVE  cs[u].tids[1] # x
    OBVIOUS
  <2>1. cs[u].tids # << >>
    BY CallFacts
  <2> QED
    BY <1>1, <2>1 DEF Linked, Calls
<1>6. /\ DOMAIN vs2 \subseteq TIDs /\ \A z \in DOMAIN vs2 : vs2[z] \in Records
      /\ \A u \in Threads \ {t} : cs[u].op \in {"lookup", "update"} =>
            cs[u].tids[1] \in DOMAIN vs2 /\ vs2[cs[u].tids[1]] = vs[cs[u].tids[1]]
  BY <1>1, <1>3, <1>5
<1>7. /\ LocalsOK(Idle) /\ RootsOf(Idle) = {} /\ LeavingOf(Idle) = {} /\ DeepOf(Idle) = {}
      /\ Idle.op = "none" /\ Idle.tids = << >> /\ OwnOK(V, Idle, vs2)
  BY IdleCall
<1>8. /\ DOMAIN vs2 \cup RootsOf(Idle) = DOMAIN vs \cup RootsOf(cs[t])
      /\ LeavingOf(cs[t]) = {} /\ DeepOf(cs[t]) = {}
  BY <1>1, <1>3, <1>7
<1>9. Linked(V, cs2, vs2)
  BY <1>0, <1>1, <1>4, <1>6, <1>7, <1>8, ClientStep
<1> QED
  BY <1>9 DEF cs2

LEMMA ReturnsOther ==
  ASSUME NEW V, NEW cs, NEW vs, Linked(V, cs, vs), NEW t \in Threads, cs[t].pc = "return",
         cs[t].op \notin {"insert", "update"}
  PROVE  Linked(V, [cs EXCEPT ![t] = Idle], vs)
<1> DEFINE c == cs[t]
           cs2 == [cs EXCEPT ![t] = Idle]
<1>0. cs2 \in [Threads -> Call] /\ cs2[t] = Idle /\ Beside(cs, cs2, t)
  BY ReturnFacts
<1>1. /\ LeavingOf(c) = {} /\ DeepOf(c) = {} /\ RootsOf(c) = {}
      /\ DOMAIN vs \subseteq TIDs /\ \A z \in DOMAIN vs : vs[z] \in Records
      /\ \A u \in Threads \ {t} : cs[u].op \in {"lookup", "update"} => cs[u].tids[1] \in DOMAIN vs
  <2>1. LeavingOf(c) = {} /\ DeepOf(c) = {}
    BY ReturnFacts
  <2>2. DOMAIN vs \subseteq TIDs /\ \A x \in DOMAIN vs : vs[x] \in Records
    BY DEF Linked, Calls
  <2>3. \A u \in Threads \ {t} : cs[u].op \in {"lookup", "update"} => cs[u].tids[1] \in DOMAIN vs
    BY DEF Linked, Calls
  <2>4. RootsOf(c) = {}
    BY ReturnFacts
  <2> QED
    BY <2>1, <2>2, <2>3, <2>4
<1>2. \A z \in DOMAIN vs : Untouched(cs2, z) => Leads(V, z, vs[z])
  BY ReturnFacts
<1> HIDE DEF cs2
<1>7. /\ LocalsOK(Idle) /\ RootsOf(Idle) = {} /\ LeavingOf(Idle) = {} /\ DeepOf(Idle) = {}
      /\ Idle.op = "none" /\ Idle.tids = << >> /\ OwnOK(V, Idle, vs)
  BY IdleCall
<1>9. Linked(V, cs2, vs)
  BY <1>0, <1>1, <1>2, <1>7, ClientStep
<1> QED
  BY <1>9 DEF cs2

-----------------------------------------------------------------------------
(***************************************************************************)
(* The invariant.                                                          *)
(***************************************************************************)
PagesOK(pgs, sz) ==
    /\ pgs \in [PageIDs -> Page]
    /\ \A p \in PageIDs : PageOK(pgs[p]) /\ (p >= sz => pgs[p] = EmptyPage)

\* insert has found a page (its header pointer points there), or none so far.
RoomOK(c, pgs, sz) ==
    /\ c.pc \in {"scan", "compact", "place"} => c.page <= sz
    /\ c.pc = "compact" => c.page < sz /\ Fits(pgs[c.page].header, Len(c.rec))
    /\ c.pc = "place" /\ c.page < sz => HasRoom(pgs[c.page].header, Len(c.rec))
    /\ c.pc \in {"compact", "place"} /\ c.page < sz => c.header = c.page

PositionOK(s, sz) == /\ s.bf = NoFrame \/ s.bf \in 0..(sz - 1)
                     /\ s.pageID \in Nat /\ s.lastID < sz

\* The scan has not come to the slot d yet.
Ahead(s, d) == /\ d.pageID <= s.lastID
               /\ \/ d.pageID >= s.pageID
                  \/ d.pageID = s.bf /\ s.slotID <= d.slotID /\ d.slotID < s.slotCount

\* It will, and will find a record there that nobody is at work on.
DueOK(V, cs, vs, c) ==
    \A z \in c.due : Ahead(c.scan, z) /\ \E x \in DOMAIN vs : Follow(V, x) = z /\ Untouched(cs, x)

ScansOK(V, cs, vs, sz) ==
    \A t \in Threads : IF cs[t].op = "tablescan"
                       THEN PositionOK(cs[t].scan, sz) /\ DueOK(V, cs, vs, cs[t])
                       ELSE cs[t].due = {}

SegmentInv(pgs, sz, cs, vs) ==
    /\ sz \in 0..Cardinality(PageIDs)
    /\ PagesOK(pgs, sz)
    /\ Linked(View(pgs), cs, vs)
    /\ \A t \in Threads : RoomOK(cs[t], pgs, sz)
    /\ ScansOK(View(pgs), cs, vs, sz)

Inv == /\ SegmentInv(pages, size, call, values)
       /\ holder \in [PageIDs -> Threads \cup {NoThread}]
       /\ broken \in SUBSET PageIDs

-----------------------------------------------------------------------------
LEMMA TidParts ==
  /\ \A x \in TIDs : /\ x.pageID \in PageIDs /\ x.slotID \in SlotIDs
                     /\ x = [pageID |-> x.pageID, slotID |-> x.slotID]
  /\ \A p \in PageIDs, i \in SlotIDs : /\ [pageID |-> p, slotID |-> i] \in TIDs
                                       /\ [pageID |-> p, slotID |-> i].pageID = p
                                       /\ [pageID |-> p, slotID |-> i].slotID = i
BY DEF TIDs

\* One slot changes, or none, or two of one page.
LEMMA ViewOne ==
  ASSUME NEW pgs \in [PageIDs -> Page], NEW x \in TIDs, NEW Q,
         Others(pgs[x.pageID], Q, {x.slotID})
  PROVE  View([pgs EXCEPT ![x.pageID] = Q]) = [View(pgs) EXCEPT ![x] = ViewOf(Q, x.slotID)]
<1> DEFINE new == [pgs EXCEPT ![x.pageID] = Q]
<1>1. ASSUME NEW z \in TIDs
      PROVE  ViewOf(new[z.pageID], z.slotID) = IF z = x THEN ViewOf(Q, x.slotID)
                                               ELSE ViewOf(pgs[z.pageID], z.slotID)
  <2>1. z.pageID \in PageIDs /\ z.slotID \in SlotIDs /\ x.pageID \in PageIDs
    BY TidParts
  <2>2. CASE z.pageID = x.pageID
    <3>1. new[z.pageID] = Q
      BY <2>1, <2>2
    <3>2. z.slotID = x.slotID => z = x
      BY <2>2, TidParts
    <3>3. z.slotID # x.slotID => ViewOf(Q, z.slotID) = ViewOf(pgs[z.pageID], z.slotID)
      BY <2>1, <2>2 DEF Others
    <3> QED
      BY <3>1, <3>2, <3>3
  <2>3. CASE z.pageID # x.pageID
    BY <2>1, <2>3
  <2> QED
    BY <2>2, <2>3
<1> HIDE DEF new
<1>2. View(new) = [View(pgs) EXCEPT ![x] = ViewOf(Q, x.slotID)]
  BY <1>1 DEF View
<1> QED
  BY <1>2 DEF new

LEMMA ViewNone ==
  ASSUME NEW pgs \in [PageIDs -> Page], NEW p \in PageIDs, NEW Q, Others(pgs[p], Q, {})
  PROVE  View([pgs EXCEPT ![p] = Q]) = View(pgs)
<1> DEFINE new == [pgs EXCEPT ![p] = Q]
<1>1. ASSUME NEW z \in TIDs
      PROVE  ViewOf(new[z.pageID], z.slotID) = ViewOf(pgs[z.pageID], z.slotID)
  <2>1. z.pageID \in PageIDs /\ z.slotID \in SlotIDs
    BY TidParts
  <2>2. CASE z.pageID = p
    BY <2>1, <2>2 DEF Others
  <2>3. CASE z.pageID # p
    BY <2>1, <2>3
  <2> QED
    BY <2>2, <2>3
<1> HIDE DEF new
<1>2. View(new) = View(pgs)
  BY <1>1 DEF View
<1> QED
  BY <1>2 DEF new

\* The record of the slot n has moved to l.
Swapped(V, l, n) == [V EXCEPT ![l] = V[n], ![n] = Void]

LEMMA ViewSwapped ==
  ASSUME NEW pgs \in [PageIDs -> Page], NEW x \in TIDs, NEW y \in TIDs, x # y,
         x.pageID = y.pageID, NEW Q, Others(pgs[x.pageID], Q, {x.slotID, y.slotID}),
         ViewOf(Q, x.slotID) = View(pgs)[y], ViewOf(Q, y.slotID) = Void
  PROVE  View([pgs EXCEPT ![x.pageID] = Q]) = Swapped(View(pgs), x, y)
<1> DEFINE p == x.pageID
           new == [pgs EXCEPT ![p] = Q]
<1>1. ASSUME NEW z \in TIDs
      PROVE  ViewOf(new[z.pageID], z.slotID) = IF z = y THEN ViewOf(Q, y.slotID)
                                               ELSE IF z = x THEN ViewOf(Q, x.slotID)
                                               ELSE ViewOf(pgs[z.pageID], z.slotID)
  <2>1. z.pageID \in PageIDs /\ z.slotID \in SlotIDs /\ p \in PageIDs
    BY TidParts
  <2>2. CASE z.pageID = p
    <3>1. new[z.pageID] = Q
      BY <2>1, <2>2
    <3>2. (z.slotID = x.slotID => z = x) /\ (z.slotID = y.slotID => z = y)
      BY <2>2, TidParts
    <3>3. z.slotID # x.slotID /\ z.slotID # y.slotID =>
             ViewOf(Q, z.slotID) = ViewOf(pgs[z.pageID], z.slotID)
      BY <2>1, <2>2 DEF Others
    <3> QED
      BY <3>1, <3>2, <3>3
  <2>3. CASE z.pageID # p
    BY <2>1, <2>3
  <2> QED
    BY <2>2, <2>3
<1> HIDE DEF new
<1>2. View(new) = Swapped(View(pgs), x, y)
  BY <1>1 DEF View, Swapped
<1> QED
  BY <1>2 DEF new

\* What a slot is, and what its view is.
LEMMA ViewIs ==
  ASSUME NEW pgs, NEW x \in TIDs
  PROVE  LET v == View(pgs)[x]
             s == pgs[x.pageID].slots[x.slotID]
         IN  /\ v = ViewOf(pgs[x.pageID], x.slotID)
             /\ IsVoid(v) <=> IsFree(s)
             /\ IsWay(v) <=> IsIndirection(s)
             /\ IsRec(v) <=> ~IsFree(s) /\ ~IsIndirection(s)
             /\ IsWay(v) => v.to = s.target
             /\ IsRec(v) => v = Rec(ReadRecord(pgs[x.pageID], s))
<1> DEFINE P == pgs[x.pageID]
           s == P.slots[x.slotID]
<1>1. View(pgs)[x] = ViewOf(P, x.slotID)
  BY DEF View
<1>2. ~(IsFree(s) /\ IsIndirection(s))
  BY DEF IsFree, IsIndirection
<1>3. CASE IsFree(s)
  BY <1>1, <1>2, <1>3 DEF ViewOf, Void, IsVoid, IsWay, IsRec
<1>4. CASE IsIndirection(s)
  BY <1>1, <1>2, <1>4 DEF ViewOf, Way, IsVoid, IsWay, IsRec
<1>5. CASE ~IsFree(s) /\ ~IsIndirection(s)
  BY <1>1, <1>5 DEF ViewOf, Rec, IsVoid, IsWay, IsRec
<1> QED
  BY <1>3, <1>4, <1>5

LEMMA PageRange ==
  /\ Cardinality(PageIDs) \in Nat
  /\ \A p \in PageIDs : p \in Nat /\ p < Cardinality(PageIDs)
  /\ \A p \in Nat : p < Cardinality(PageIDs) => p \in PageIDs
<1>1. Cardinality(PageIDs) \in Nat
  BY SegmentAssumption, FS_CardinalityType
<1>2. PICK n \in Nat : n = Cardinality(PageIDs)
  BY <1>1
<1>3. PageIDs = 0..(n - 1)
  BY <1>2, SegmentAssumption
<1>4. \A p : p \in 0..(n - 1) <=> p \in Nat /\ p < n
  OBVIOUS
<1> QED
  BY <1>2, <1>3, <1>4

\* What is taken is on a page in use.
LEMMA InUsePage ==
  ASSUME NEW pgs, NEW sz, PagesOK(pgs, sz), NEW x \in TIDs, ~IsVoid(View(pgs)[x]), sz \in Nat
  PROVE  x.pageID < sz
<1>1. x.pageID \in PageIDs /\ x.slotID \in SlotIDs /\ x.pageID \in Nat
  BY TidParts, PageRange
<1>2. ASSUME x.pageID >= sz PROVE FALSE
  <2>1. pgs[x.pageID] = EmptyPage
    BY <1>1, <1>2 DEF PagesOK
  <2>2. IsFree(pgs[x.pageID].slots[x.slotID])
    BY <1>1, <2>1 DEF EmptyPage, FreeSlot, IsFree
  <2> QED
    BY <2>2, ViewIs
<1> QED
  BY <1>1, <1>2

LEMMA PagesOne ==
  ASSUME NEW pgs, NEW sz \in Nat, PagesOK(pgs, sz), NEW p \in PageIDs, NEW Q, PageOK(Q),
         NEW sz2 \in Nat, sz <= sz2, p < sz2
  PROVE  PagesOK([pgs EXCEPT ![p] = Q], sz2)
<1>1. Q \in Page /\ [pgs EXCEPT ![p] = Q] \in [PageIDs -> Page]
  BY DEF PageOK, PagesOK
<1>2. ASSUME NEW q \in PageIDs
      PROVE  /\ PageOK([pgs EXCEPT ![p] = Q][q])
             /\ q >= sz2 => [pgs EXCEPT ![p] = Q][q] = EmptyPage
  <2>1. q \in Nat /\ p \in Nat
    BY PageRange
  <2>2. CASE q = p
    BY <2>1, <2>2 DEF PagesOK
  <2>3. CASE q # p
    <3>1. [pgs EXCEPT ![p] = Q][q] = pgs[q]
      BY <2>3 DEF PagesOK
    <3>2. q >= sz2 => q >= sz
      BY <2>1
    <3> QED
      BY <3>1, <3>2 DEF PagesOK
  <2> QED
    BY <2>2, <2>3
<1> QED
  BY <1>1, <1>2 DEF PagesOK

-----------------------------------------------------------------------------
LEMMA CallTypes ==
  ASSUME NEW cs \in [Threads -> Call], NEW t \in Threads
  PROVE  /\ cs[t] \in Call /\ cs[t].page \in Nat /\ cs[t].rec \in Seq(Units)
         /\ Len(cs[t].rec) \in Nat /\ cs[t].scan \in Scans /\ cs[t].due \in SUBSET TIDs
         /\ cs[t].tids \in Seq(TIDs)
BY DEF Call

LEMMA SizeRange ==
  ASSUME NEW sz \in 0..Cardinality(PageIDs)
  PROVE  /\ sz \in Nat /\ sz <= Cardinality(PageIDs)
         /\ \A p \in Nat : p < sz => p \in PageIDs
         /\ \A p \in PageIDs : p \in Nat
BY PageRange

\* What another thread does to the pages leaves an insert the room it has found.
LEMMA RoomKept ==
  ASSUME OneWriter,
         NEW pgs, NEW sz \in 0..Cardinality(PageIDs), PagesOK(pgs, sz),
         NEW cs, NEW vs, Calls(cs, vs), NEW t \in Threads, NEW u \in Threads, u # t,
         RoomOK(cs[u], pgs, sz),
         NEW pgs2, NEW sz2, PagesOK(pgs2, sz2),
         \/ cs[t].op \in {"insert", "update"}
         \/ sz2 = sz /\ \A p \in PageIDs : Gives(pgs[p], pgs2[p])
  PROVE  RoomOK(cs[u], pgs2, sz2)
<1>1. cs \in [Threads -> Call] /\ OpOK(cs[u])
  BY DEF Calls, LocalsOK
<1>2. CASE cs[u].pc \notin {"scan", "compact", "place"}
  BY <1>2 DEF RoomOK
<1>3. CASE cs[u].pc \in {"scan", "compact", "place"}
  <2>1. cs[u].op \in {"insert", "update"}
    BY <1>1, <1>3 DEF OpOK
  <2>2. sz2 = sz /\ \A p \in PageIDs : Gives(pgs[p], pgs2[p])
    BY <2>1, OneWriterCalls
  <2>3. cs[u].page \in Nat /\ Len(cs[u].rec) \in Nat
    BY <1>1, CallTypes
  <2>4. ASSUME cs[u].page < sz
        PROVE  LET h == pgs[cs[u].page].header
                   k == pgs2[cs[u].page].header
                   n == Len(cs[u].rec)
               IN  (Fits(h, n) => Fits(k, n)) /\ (HasRoom(h, n) => HasRoom(k, n))
    <3>1. cs[u].page \in PageIDs
      BY <2>3, <2>4, SizeRange
    <3>2. PageOK(pgs[cs[u].page]) /\ PageOK(pgs2[cs[u].page])
      BY <3>1 DEF PagesOK
    <3> QED
      BY <2>2, <2>3, <3>1, <3>2, RoomStays
  <2> QED
    BY <2>2, <2>4 DEF RoomOK
<1> QED
  BY <1>2, <1>3

LEMMA GivesSame ==
  ASSUME NEW P, PageOK(P)
  PROVE  Gives(P, P)
<1>1. P.header.slotCount \in Int /\ P.header.freeSpace \in Int /\ P.header.dataStart \in Int
  BY PageFacts
<1> QED
  BY <1>1 DEF Gives

LEMMA UntouchedSame ==
  ASSUME NEW cs \in [Threads -> Call], NEW t \in Threads, NEW d \in Call,
         d.op = cs[t].op, d.op = "update" => d.tids[1] = cs[t].tids[1], NEW x
  PROVE  Untouched(cs, x) => Untouched([cs EXCEPT ![t] = d], x)
BY DEF Untouched

\* A thread that does not scan does not take a record from the scans of others.
LEMMA ScansKept ==
  ASSUME NEW V, NEW cs, NEW vs, Linked(V, cs, vs), NEW t \in Threads, cs[t].op # "tablescan",
         NEW sz \in Nat, ScansOK(V, cs, vs, sz), NEW sz2 \in Nat, sz <= sz2,
         NEW d \in Call, d.op = cs[t].op, d.op = "update" => d.tids[1] = cs[t].tids[1],
         d.due = cs[t].due, NEW W, Changes(V, W, cs[t])
  PROVE  ScansOK(W, [cs EXCEPT ![t] = d], vs, sz2)
<1> DEFINE cs2 == [cs EXCEPT ![t] = d]
<1>1. cs \in [Threads -> Call]
  BY DEF Linked, Calls
<1>2. cs2[t] = d /\ \A u \in Threads \ {t} : cs2[u] = cs[u]
  BY <1>1
<1>3. \A x : Untouched(cs, x) => Untouched(cs2, x)
  BY <1>1, UntouchedSame
<1>4. ASSUME NEW x \in DOMAIN vs, Untouched(cs, x)
      PROVE  Follow(W, x) = Follow(V, x)
  <2>1. cs[t].op = "update" => x # cs[t].tids[1]
    BY <1>4 DEF Untouched
  <2> QED
    BY <2>1, OthersKept
<1> HIDE DEF cs2
<1>5. ASSUME NEW u \in Threads, cs2[u].op = "tablescan"
      PROVE  PositionOK(cs2[u].scan, sz2) /\ DueOK(W, cs2, vs, cs2[u])
  <2>1. u # t /\ cs2[u] = cs[u]
    BY <1>2, <1>5
  <2>2. PositionOK(cs[u].scan, sz) /\ DueOK(V, cs, vs, cs[u])
    BY <1>5, <2>1 DEF ScansOK
  <2>3. cs[u].scan.lastID \in Int
    BY <1>1, CallTypes DEF Scans
  <2>4. PositionOK(cs[u].scan, sz2)
    BY <2>2, <2>3 DEF PositionOK
  <2>5. DueOK(W, cs2, vs, cs[u])
    BY <1>3, <1>4, <2>2 DEF DueOK
  <2> QED
    BY <2>1, <2>4, <2>5
<1>6. ASSUME NEW u \in Threads, cs2[u].op # "tablescan"
      PROVE  cs2[u].due = {}
  <2>1. CASE u = t
    BY <1>2, <2>1 DEF ScansOK
  <2>2. CASE u # t
    BY <1>2, <1>6, <2>2 DEF ScansOK
  <2> QED
    BY <2>1, <2>2
<1> QED
  BY <1>5, <1>6 DEF ScansOK, cs2

(***************************************************************************)
(* A step of a call on records: what is left to show of it.                *)
(***************************************************************************)
LEMMA OwnStep ==
  ASSUME OneWriter, NEW pgs, NEW sz, NEW cs, NEW vs, SegmentInv(pgs, sz, cs, vs),
         NEW t \in Threads, cs[t].op # "tablescan",
         NEW pgs2, NEW sz2 \in 0..Cardinality(PageIDs), sz <= sz2, PagesOK(pgs2, sz2),
         \/ cs[t].op \in {"insert", "update"}
         \/ sz2 = sz /\ \A p \in PageIDs : Gives(pgs[p], pgs2[p]),
         NEW d \in Call, d.op = cs[t].op, d.op = "update" => d.tids[1] = cs[t].tids[1],
         d.due = cs[t].due, RoomOK(d, pgs2, sz2),
         NEW W, W = View(pgs2), Linked(W, [cs EXCEPT ![t] = d], vs),
         Changes(View(pgs), W, cs[t])
  PROVE  SegmentInv(pgs2, sz2, [cs EXCEPT ![t] = d], vs)
<1> DEFINE cs2 == [cs EXCEPT ![t] = d]
<1>1. /\ sz \in 0..Cardinality(PageIDs) /\ PagesOK(pgs, sz) /\ Linked(View(pgs), cs, vs)
      /\ \A u \in Threads : RoomOK(cs[u], pgs, sz)
      /\ ScansOK(View(pgs), cs, vs, sz) /\ Calls(cs, vs) /\ cs \in [Threads -> Call]
  BY DEF SegmentInv, Linked, Calls
<1>2. sz \in Nat /\ sz2 \in Nat
  BY <1>1, SizeRange
<1>3. cs2[t] = d /\ \A u \in Threads \ {t} : cs2[u] = cs[u]
  BY <1>1
<1>4. ScansOK(W, cs2, vs, sz2)
  BY <1>1, <1>2, ScansKept
<1>5. ASSUME NEW u \in Threads PROVE RoomOK(cs2[u], pgs2, sz2)
  <2>1. CASE u = t
    BY <1>3, <2>1
  <2>2. CASE u # t
    <3>1. RoomOK(cs[u], pgs2, sz2)
      BY <1>1, <2>2, RoomKept
    <3> QED
      BY <1>3, <2>2, <3>1
  <2> QED
    BY <2>1, <2>2
<1> HIDE DEF cs2
<1>6. Linked(W, cs2, vs)
  BY DEF cs2
<1>7. SegmentInv(pgs2, sz2, cs2, vs)
  BY <1>4, <1>5, <1>6 DEF SegmentInv
<1> QED
  BY <1>7 DEF cs2

\* One that leaves the pages alone.
LEMMA OwnStillStep ==
  ASSUME OneWriter, NEW pgs, NEW sz, NEW cs, NEW vs, SegmentInv(pgs, sz, cs, vs),
         NEW t \in Threads, cs[t].op # "tablescan",
         NEW d \in Call, d.op = cs[t].op, d.op = "update" => d.tids[1] = cs[t].tids[1],
         d.due = cs[t].due, RoomOK(d, pgs, sz),
         Linked(View(pgs), [cs EXCEPT ![t] = d], vs)
  PROVE  SegmentInv(pgs, sz, [cs EXCEPT ![t] = d], vs)
<1>1. sz \in 0..Cardinality(PageIDs) /\ PagesOK(pgs, sz) /\ Linked(View(pgs), cs, vs)
  BY DEF SegmentInv
<1>2. View(pgs) \in [TIDs -> Views]
  BY <1>1 DEF Linked, Forest
<1>3. Changes(View(pgs), View(pgs), cs[t])
  BY <1>2 DEF Changes
<1>4. \A p \in PageIDs : Gives(pgs[p], pgs[p])
  BY <1>1, GivesSame DEF PagesOK
<1>5. sz <= sz
  BY <1>1, SizeRange
<1> QED
  BY <1>1, <1>3, <1>4, <1>5, OwnStep

-----------------------------------------------------------------------------
(***************************************************************************)
(* The steps, one after the other.                                         *)
(***************************************************************************)
LEMMA InvFacts ==
  ASSUME Inv
  PROVE  /\ SegmentInv(pages, size, call, values) /\ size \in 0..Cardinality(PageIDs)
         /\ size \in Nat /\ PagesOK(pages, size) /\ pages \in [PageIDs -> Page]
         /\ Linked(View(pages), call, values) /\ Calls(call, values)
         /\ call \in [Threads -> Call]
         /\ \A t \in Threads : /\ RoomOK(call[t], pages, size)
                               /\ call[t] \in Call /\ OpOK(call[t])
         /\ ScansOK(View(pages), call, values, size)
BY SizeRange DEF Inv, SegmentInv, PagesOK, Linked, Calls, LocalsOK

LEMMA ScanPageStep ==
  ASSUME OneWriter, Inv, NEW t \in Threads, ScanPage(t)
  PROVE  SegmentInv(pages', size', call', values')
<1> DEFINE c == call[t]
           d == call'[t]
           p == c.page
           h == pages[p].header
           n == Len(c.rec)
<1>1. call \in [Threads -> Call] /\ c \in Call /\ OpOK(c) /\ size \in Nat
  BY InvFacts
<1>2. c.pc = "scan" /\ c.op \in {"insert", "update"} /\ p < size
  BY <1>1 DEF ScanPage, At, OpOK
<1>3. p \in Nat /\ n \in Nat
  BY <1>1, CallTypes
<1>4. p \in PageIDs /\ PageOK(pages[p])
  BY <1>2, <1>3, InvFacts, SizeRange DEF PagesOK
<1>5. /\ call' = [call EXCEPT ![t] = d] /\ d \in Call
      /\ d.pc \in {"scan", "compact", "place"} /\ d.op = c.op /\ d.tids = c.tids /\ d.rec = c.rec
      /\ d.due = c.due /\ d.header = p
      /\ d.page = IF Fits(h, n) THEN p ELSE p + 1
      /\ d.pc \in {"compact", "place"} => Fits(h, n)
      /\ d.pc = "place" => ~NeedsCompaction(h, n)
  <2>1. PICK pc, next : /\ pc = CASE ~Fits(h, n) -> "scan"
                                  [] Fits(h, n) /\ NeedsCompaction(h, n) -> "compact"
                                  [] OTHER -> "place"
                        /\ next = IF Fits(h, n) THEN p ELSE p + 1
    OBVIOUS
  <2>2. call' = [call EXCEPT ![t].header = p, ![t].page = next, ![t].pc = pc]
    BY <2>1 DEF ScanPage
  <2>3. d = [c EXCEPT !.header = p, !.page = next, !.pc = pc]
    BY <1>1, <2>2
  <2>4. call' = [call EXCEPT ![t] = d]
    BY <1>1, <2>2
  <2>5. /\ pc \in {"scan", "compact", "place"} /\ next \in Nat
        /\ pc \in {"compact", "place"} => Fits(h, n)
        /\ pc = "place" => ~NeedsCompaction(h, n)
    BY <1>3, <2>1
  <2> HIDE DEF h, d
  <2>6. /\ d \in Call /\ d.pc = pc /\ d.op = c.op /\ d.tids = c.tids /\ d.rec = c.rec
        /\ d.due = c.due /\ d.header = p /\ d.page = next
    BY <1>1, <1>4, <2>3, <2>5 DEF Call, Labels
  <2> QED
    BY <2>1, <2>4, <2>5, <2>6
<1>6. pages' = pages /\ size' = size /\ values' = values
  BY DEF ScanPage
<1>7. Linked(View(pages), [call EXCEPT ![t] = d], values)
  BY <1>2, <1>5, InvFacts, Searching
<1>8. d.pc = "place" => HasRoom(h, n)
  BY <1>3, <1>4, <1>5, RoomInOnePiece
<1>9. RoomOK(d, pages, size)
  <2>1. d.page <= size
    BY <1>1, <1>2, <1>3, <1>5
  <2>2. d.pc \in {"compact", "place"} => d.page = p
    BY <1>5
  <2> QED
    BY <1>2, <1>5, <1>8, <2>1, <2>2 DEF RoomOK
<1> HIDE DEF c, d, p, h, n
<1>10. SegmentInv(pages, size, [call EXCEPT ![t] = d], values)
  BY <1>2, <1>5, <1>7, <1>9, InvFacts, OwnStillStep DEF c
<1> QED
  BY <1>5, <1>6, <1>10

LEMMA ScanEndStep ==
  ASSUME OneWriter, Inv, NEW t \in Threads, ScanEnd(t)
  PROVE  SegmentInv(pages', size', call', values')
<1> DEFINE c == call[t]
           d == call'[t]
<1>1. call \in [Threads -> Call] /\ c \in Call /\ OpOK(c) /\ size \in Nat /\ RoomOK(c, pages, size)
  BY InvFacts
<1>2. c.pc = "scan" /\ c.op \in {"insert", "update"} /\ c.page >= size
  BY <1>1 DEF ScanEnd, At, OpOK
<1>3. c.page \in Nat
  BY <1>1, CallTypes
<1>5. /\ call' = [call EXCEPT ![t] = d] /\ d \in Call
      /\ d.pc = "place" /\ d.op = c.op /\ d.tids = c.tids /\ d.rec = c.rec
      /\ d.due = c.due /\ d.page = c.page
  BY <1>1 DEF ScanEnd, Call, Labels
<1>6. pages' = pages /\ size' = size /\ values' = values
  BY DEF ScanEnd
<1>7. Linked(View(pages), [call EXCEPT ![t] = d], values)
  BY <1>2, <1>5, InvFacts, Searching
<1>9. RoomOK(d, pages, size)
  BY <1>1, <1>2, <1>3, <1>5 DEF RoomOK
<1> HIDE DEF c, d
<1>10. SegmentInv(pages, size, [call EXCEPT ![t] = d], values)
  BY <1>2, <1>5, <1>7, <1>9, InvFacts, OwnStillStep DEF c
<1> QED
  BY <1>5, <1>6, <1>10

\* The slot a call has come to.
LEMMA CurrentIs ==
  ASSUME Inv, NEW t \in Threads, call[t].op \in {"remove", "lookup", "update"}
  PROVE  LET l == Last(call[t].tids)
             v == View(pages)[l]
         IN  /\ l \in TIDs /\ Current(t) = l /\ call[t].tids \in Seq(TIDs)
             /\ Len(call[t].tids) >= 1 /\ call[t].tids # << >>
             /\ IsWay(v) <=> IsIndirection(SlotOf(l))
             /\ IsWay(v) => v.to = SlotOf(l).target
             /\ l.pageID \in PageIDs /\ l.slotID \in SlotIDs
<1>1. call[t].tids \in Seq(TIDs) /\ Len(call[t].tids) >= 1
  BY InvFacts DEF Call, Calls, LocalsOK, TidsOK
<1>2. Last(call[t].tids) \in TIDs /\ call[t].tids # << >>
  BY <1>1, TidsFacts
<1> QED
  BY <1>1, <1>2, ViewIs, TidParts DEF Current, SlotOf

LEMMA LookupStepStep ==
  ASSUME OneWriter, Inv, NEW t \in Threads, LookupStep(t)
  PROVE  /\ SegmentInv(pages', size', call', values')
         /\ call'[t].pc = "return" => call'[t].answer = values[call[t].tids[1]]
<1> DEFINE c == call[t]
           d == call'[t]
           l == Last(c.tids)
           V == View(pages)
<1>1. call \in [Threads -> Call] /\ c \in Call /\ OpOK(c) /\ pages \in [PageIDs -> Page]
      /\ Linked(V, call, values)
  BY InvFacts
<1>2. c.pc = "lookup" /\ c.op = "lookup"
  BY <1>1 DEF LookupStep, At, OpOK
<1>3. /\ l \in TIDs /\ Current(t) = l
      /\ IsWay(V[l]) <=> IsIndirection(SlotOf(l))
      /\ IsWay(V[l]) => V[l].to = SlotOf(l).target
      /\ c.tids \in Seq(TIDs) /\ Len(c.tids) >= 1
  BY <1>2, CurrentIs
<1>4. pages' = pages /\ size' = size /\ values' = values
  BY DEF LookupStep
<1>5. call' = [call EXCEPT ![t] = d]
  BY <1>1 DEF LookupStep
<1>6. CASE IsWay(V[l])
  <2>0. call' = [call EXCEPT ![t] = [c EXCEPT !.tids = Append(c.tids, V[l].to)]]
    <3>1. IsIndirection(SlotOf(Current(t))) /\ SlotOf(Current(t)).target = V[l].to
      BY <1>3, <1>6
    <3>2. call'[t] = [c EXCEPT !.tids = Append(c.tids, SlotOf(Current(t)).target)]
      BY <1>1, <3>1 DEF LookupStep, Following
    <3> QED
      BY <1>5, <3>1, <3>2
  <2>1. d = [c EXCEPT !.tids = Append(@, V[l].to)]
    BY <1>1, <2>0
  <2>2. d \in Call /\ Linked(V, [call EXCEPT ![t] = d], values)
    BY <1>1, <1>2, <1>6, <2>1, LookupFollows
  <2>3. d.op = c.op /\ d.due = c.due /\ d.pc = c.pc
    BY <1>1, <2>1 DEF Call
  <2>4. RoomOK(d, pages, size)
    BY <1>2, <2>3 DEF RoomOK
  <2> HIDE DEF c, d, l, V
  <2>5. SegmentInv(pages, size, [call EXCEPT ![t] = d], values)
    BY <1>2, <2>2, <2>3, <2>4, InvFacts, OwnStillStep DEF c, V
  <2> QED
    BY <1>2, <1>4, <1>5, <2>3, <2>5 DEF d
<1>7. CASE ~IsWay(V[l])
  <2>0. ReadRecord(pages[l.pageID], SlotOf(l)) \in Seq(Units \cup {Junk})
    <3>1. pages[l.pageID] \in Page /\ SlotOf(l) \in Slot
      BY <1>1, <1>3, TidParts DEF SlotOf, Page
    <3> QED
      BY <3>1, ReadType
  <2>1. /\ d \in Call /\ d.pc = "return" /\ d.op = c.op /\ d.tids = c.tids /\ d.rec = c.rec
        /\ d.result = c.result /\ d.due = c.due
        /\ d.answer = ReadRecord(pages[l.pageID], SlotOf(l))
    <3>1. call' = [call EXCEPT ![t] = [c EXCEPT !.answer = ReadRecord(pages[l.pageID], SlotOf(l)),
                                                !.pc = "return"]]
      <4>1. ~IsIndirection(SlotOf(Current(t)))
        BY <1>3, <1>7
      <4> QED
        BY <1>3, <4>1 DEF LookupStep
    <3>2. d = [c EXCEPT !.answer = ReadRecord(pages[l.pageID], SlotOf(l)), !.pc = "return"]
      BY <1>1, <3>1
    <3> HIDE DEF d, l
    <3> QED
      BY <1>1, <2>0, <3>2 DEF Call, Labels
  <2>2. /\ Linked(V, [call EXCEPT ![t] = d], values)
        /\ V[l] = Rec(values[c.tids[1]])
    <3>1. /\ call[t].pc = "lookup" /\ ~IsWay(V[l]) /\ l = Last(call[t].tids)
          /\ d \in Call /\ d.pc = "return" /\ d.op = call[t].op /\ d.tids = call[t].tids
          /\ d.rec = call[t].rec /\ d.result = call[t].result /\ Linked(V, call, values)
      BY <1>1, <1>2, <1>7, <2>1
    <3> HIDE DEF c, d, l, V
    <3>2. Linked(V, [call EXCEPT ![t] = d], values) /\ V[l] = Rec(values[call[t].tids[1]])
      BY <3>1, LookupReads
    <3> QED
      BY <3>2 DEF c
  <2>3. V[l] = Rec(ReadRecord(pages[l.pageID], SlotOf(l)))
    <3>1. IsRec(V[l])
      BY <2>2 DEF Rec, IsRec
    <3> QED
      BY <1>3, <3>1, ViewIs DEF SlotOf
  <2>4. d.answer = values[c.tids[1]]
    BY <2>1, <2>2, <2>3 DEF Rec
  <2>5. RoomOK(d, pages, size)
    BY <2>1 DEF RoomOK
  <2> HIDE DEF c, d, l, V
  <2>6. SegmentInv(pages, size, [call EXCEPT ![t] = d], values)
    BY <1>2, <2>1, <2>2, <2>5, InvFacts, OwnStillStep DEF c, V
  <2> QED
    BY <1>4, <1>5, <2>4, <2>6 DEF c, d
<1> QED
  BY <1>6, <1>7

LEMMA CheckStep ==
  ASSUME OneWriter, Inv, NEW t \in Threads, Check(t)
  PROVE  SegmentInv(pages', size', call', values')
<1> DEFINE c == call[t]
           d == call'[t]
           l == Last(c.tids)
           V == View(pages)
<1>1. /\ call \in [Threads -> Call] /\ c \in Call /\ OpOK(c) /\ Linked(V, call, values)
  BY InvFacts
<1>2. c.pc = "check" /\ c.op = "update"
  BY <1>1 DEF Check, At, OpOK
<1>3. /\ l \in TIDs /\ Current(t) = l
      /\ IsWay(V[l]) <=> IsIndirection(SlotOf(l))
      /\ c.tids \in Seq(TIDs)
  BY <1>2, CurrentIs
<1>4. pages' = pages /\ size' = size /\ values' = values
  BY DEF Check
<1>5. call' = [call EXCEPT ![t] = d]
  BY <1>1 DEF Check
<1>6. Len(c.tids) = 2
  BY <1>1, <1>2 DEF Linked, Calls, LocalsOK, TidsOK
<1>7. CASE IsWay(V[l])
  <2>1. /\ d \in Call /\ d.pc = "skip" /\ d.op = c.op /\ d.tids = c.tids /\ d.rec = c.rec
        /\ d.result = c.result /\ d.due = c.due
    <3>1. IsIndirection(SlotOf(Current(t)))
      BY <1>3, <1>7
    <3>2. call' = [call EXCEPT ![t].pc = "skip"]
      BY <3>1 DEF Check
    <3>3. d = [c EXCEPT !.pc = "skip"]
      BY <1>1, <3>2
    <3> QED
      BY <1>1, <3>3 DEF Call, Labels
  <2>2. Linked(V, [call EXCEPT ![t] = d], values)
    BY <1>1, <1>2, <1>7, <2>1, ChecksWay
  <2>3. RoomOK(d, pages, size)
    BY <2>1 DEF RoomOK
  <2> HIDE DEF c, d, l, V
  <2>4. SegmentInv(pages, size, [call EXCEPT ![t] = d], values)
    BY <1>2, <2>1, <2>2, <2>3, InvFacts, OwnStillStep DEF c, V
  <2> QED
    BY <1>4, <1>5, <2>4
<1>8. CASE ~IsWay(V[l])
  <2>1. d = Done([c EXCEPT !.tids = Front(@)])
    <3>1. ~IsIndirection(SlotOf(Current(t)))
      BY <1>3, <1>8
    <3> QED
      BY <1>1, <3>1 DEF Check, Back
  <2>2. /\ d \in Call /\ d.tids # << >> /\ d.tids[1] = c.tids[1] /\ Len(d.tids) = 1
        /\ d.pc = "return" /\ d.op = c.op /\ d.rec = c.rec /\ d.result = c.result
        /\ d.due = c.due
    BY <1>1, <1>3, <1>6, <2>1, Popped
  <2>3. Linked(V, [call EXCEPT ![t] = d], values)
    BY <1>1, <1>2, <1>8, <2>2, ChecksRecord
  <2>4. RoomOK(d, pages, size)
    BY <2>2 DEF RoomOK
  <2> HIDE DEF c, d, l, V
  <2>5. SegmentInv(pages, size, [call EXCEPT ![t] = d], values)
    BY <1>2, <2>2, <2>3, <2>4, InvFacts, OwnStillStep DEF c, V
  <2> QED
    BY <1>4, <1>5, <2>5
<1> QED
  BY <1>7, <1>8

-----------------------------------------------------------------------------
LEMMA FollowingIs ==
  ASSUME NEW c \in Call, c.tids \in Seq(TIDs), Len(c.tids) >= 1, NEW y \in TIDs
  PROVE  LET d == Following(c, y)
         IN  /\ d \in Call /\ d.tids # << >> /\ d.tids[1] = c.tids[1] /\ Last(d.tids) = y
             /\ Len(d.tids) >= 1
             /\ Len(c.tids) = 1 => Len(d.tids) = 2 /\ d.tids[2] = y
             /\ d.pc = c.pc /\ d.op = c.op /\ d.rec = c.rec /\ d.result = c.result
             /\ d.due = c.due
<1>1. PICK d : d = [c EXCEPT !.tids = Append(@, y)]
  OBVIOUS
<1>2. d = Following(c, y)
  BY <1>1 DEF Following
<1> QED
  BY <1>1, <1>2, Pushed

LEMMA GivesOne ==
  ASSUME NEW pgs, NEW sz, PagesOK(pgs, sz), NEW p \in PageIDs, NEW Q, Gives(pgs[p], Q)
  PROVE  \A q \in PageIDs : Gives(pgs[q], [pgs EXCEPT ![p] = Q][q])
<1>1. ASSUME NEW q \in PageIDs PROVE Gives(pgs[q], [pgs EXCEPT ![p] = Q][q])
  <2>1. pgs \in [PageIDs -> Page] /\ Gives(pgs[q], pgs[q])
    BY GivesSame DEF PagesOK
  <2>2. CASE q = p
    BY <2>1, <2>2
  <2>3. CASE q # p
    BY <2>1, <2>3
  <2> QED
    BY <2>2, <2>3
<1> QED
  BY <1>1

LEMMA CompactStep ==
  ASSUME OneWriter, Inv, NEW t \in Threads, Compact(t)
  PROVE  SegmentInv(pages', size', call', values')
<1> DEFINE c == call[t]
           d == call'[t]
           p == c.page
           Q == Compacted(pages[p])
           new == [pages EXCEPT ![p] = Q]
           n == Len(c.rec)
<1>1. /\ call \in [Threads -> Call] /\ c \in Call /\ OpOK(c) /\ size \in Nat
      /\ RoomOK(c, pages, size) /\ pages \in [PageIDs -> Page] /\ PagesOK(pages, size)
      /\ size \in 0..Cardinality(PageIDs)
  BY InvFacts
<1>2. c.pc = "compact" /\ c.op \in {"insert", "update"}
  BY <1>1 DEF Compact, At, OpOK
<1>3. /\ p < size /\ p \in Nat /\ n \in Nat /\ Fits(pages[p].header, n) /\ c.header = p
  BY <1>1, <1>2, CallTypes DEF RoomOK
<1>4. p \in PageIDs /\ PageOK(pages[p])
  BY <1>1, <1>3, SizeRange DEF PagesOK
<1>5. PageOK(Q) /\ Others(pages[p], Q, {}) /\ HasRoom(Q.header, n)
  BY <1>3, <1>4, CompactedOK
<1>6. pages' = new /\ size' = size /\ values' = values
  BY <1>1 DEF Compact
<1>7. /\ call' = [call EXCEPT ![t] = d] /\ d \in Call
      /\ d.pc = "place" /\ d.op = c.op /\ d.tids = c.tids /\ d.rec = c.rec
      /\ d.due = c.due /\ d.page = p /\ d.header = c.header
  BY <1>1 DEF Compact, Call, Labels
<1>8. View(new) = View(pages)
  BY <1>1, <1>4, <1>5, ViewNone
<1>9. Linked(View(pages), [call EXCEPT ![t] = d], values)
  BY <1>2, <1>7, InvFacts, Searching
<1>10. PagesOK(new, size)
  <2>1. size <= size
    BY <1>1
  <2> QED
    BY <1>1, <1>3, <1>4, <1>5, <2>1, PagesOne
<1>11. new[p] = Q
  BY <1>1, <1>4
<1>12. Changes(View(pages), View(pages), c)
  BY <1>9 DEF Changes, Linked, Forest
<1> HIDE DEF new, Q, d, c, n
<1>13. RoomOK(d, new, size)
  BY <1>1, <1>3, <1>5, <1>7, <1>11 DEF RoomOK, n
<1> HIDE DEF p
<1>14. SegmentInv(new, size, [call EXCEPT ![t] = d], values)
  <2>1. /\ call[t].op \in {"insert", "update"} /\ d.op = call[t].op /\ d.tids = call[t].tids
        /\ d.due = call[t].due /\ size <= size /\ call[t].op # "tablescan"
        /\ SegmentInv(pages, size, call, values) /\ Changes(View(pages), View(pages), call[t])
    BY <1>1, <1>2, <1>7, <1>12, InvFacts DEF c
  <2> QED
    BY <1>1, <1>7, <1>8, <1>9, <1>10, <1>13, <2>1, OwnStep
<1> QED
  BY <1>6, <1>7, <1>14

\* A call changes slots of one page, and nobody waits for room there.
LEMMA SlotStep ==
  ASSUME OneWriter, NEW pgs, NEW sz, NEW cs, NEW vs, SegmentInv(pgs, sz, cs, vs),
         NEW t \in Threads, cs[t].op # "tablescan",
         NEW p \in PageIDs, p < sz, NEW Q, PageOK(Q),
         cs[t].op \in {"insert", "update"} \/ Gives(pgs[p], Q),
         NEW d \in Call, d.op = cs[t].op, d.op = "update" => d.tids[1] = cs[t].tids[1],
         d.due = cs[t].due, d.pc \notin {"scan", "compact", "place"} \/ (d.pc = "scan" /\ d.page = 0),
         NEW pgs2, pgs2 = [pgs EXCEPT ![p] = Q],
         NEW W, W = View(pgs2), Linked(W, [cs EXCEPT ![t] = d], vs) /\ Changes(View(pgs), W, cs[t])
  PROVE  SegmentInv(pgs2, sz, [cs EXCEPT ![t] = d], vs)
<1>1. sz \in 0..Cardinality(PageIDs) /\ sz \in Nat /\ PagesOK(pgs, sz) /\ sz <= sz
  BY SizeRange DEF SegmentInv
<1>2. PagesOK(pgs2, sz)
  BY <1>1, PagesOne
<1>3. Gives(pgs[p], Q) => \A q \in PageIDs : Gives(pgs[q], pgs2[q])
  BY <1>1, GivesOne
<1>4. RoomOK(d, pgs2, sz)
  BY <1>1 DEF RoomOK
<1> QED
  BY <1>1, <1>2, <1>3, <1>4, OwnStep

LEMMA RemoveStepStep ==
  ASSUME OneWriter, Inv, NEW t \in Threads, RemoveStep(t)
  PROVE  SegmentInv(pages', size', call', values')
<1> DEFINE c == call[t]
           d == call'[t]
           l == Last(c.tids)
           p == l.pageID
           V == View(pages)
<1>1. /\ call \in [Threads -> Call] /\ c \in Call /\ OpOK(c) /\ pages \in [PageIDs -> Page]
      /\ PagesOK(pages, size) /\ Linked(V, call, values) /\ size \in Nat
      /\ SegmentInv(pages, size, call, values)
  BY InvFacts
<1>2. c.pc = "remove" /\ c.op = "remove"
  BY <1>1 DEF RemoveStep, At, OpOK
<1>3. /\ l \in TIDs /\ Current(t) = l
      /\ IsWay(V[l]) <=> IsIndirection(SlotOf(l))
      /\ IsWay(V[l]) => V[l].to = SlotOf(l).target
      /\ c.tids \in Seq(TIDs) /\ Len(c.tids) >= 1 /\ c.tids # << >>
      /\ p \in PageIDs /\ l.slotID \in SlotIDs
  BY <1>2, CurrentIs
<1>4. ~IsVoid(V[l]) /\ (IsWay(V[l]) => V[l].to \in TIDs)
  BY <1>1, <1>2, RemoveFacts
<1>5. /\ PageOK(pages[p]) /\ ~IsFree(SlotOf(l)) /\ SlotOf(l) = pages[p].slots[l.slotID]
      /\ p < size
  BY <1>1, <1>3, <1>4, ViewIs, InUsePage DEF PagesOK, SlotOf
<1>6. size' = size /\ values' = values
  BY DEF RemoveStep
<1>7. CASE IsWay(V[l])
  <2> DEFINE Q == FreedSlot(pages[p], l.slotID)
             new == [pages EXCEPT ![p] = Q]
  <2>1. IsIndirection(SlotOf(Current(t))) /\ SlotOf(Current(t)).target = V[l].to
    BY <1>3, <1>7
  <2>2. pages' = new
    BY <1>3, <2>1 DEF RemoveStep
  <2>3. call' = [call EXCEPT ![t] = Following(c, V[l].to)]
    BY <2>1 DEF RemoveStep
  <2>4. call' = [call EXCEPT ![t] = d] /\ d = Following(c, V[l].to)
    BY <1>1, <2>3
  <2>5. SlotOf(l).length = 0
    BY <1>1, <1>3, <1>5, <1>7 DEF PageOK, SlotsOK, SlotOK
  <2>6. PageOK(Q) /\ ViewOf(Q, l.slotID) = Void /\ Others(pages[p], Q, {l.slotID})
        /\ Gives(pages[p], Q)
    BY <1>3, <1>5, <2>5, FreedSlotOK
  <2>7. View(new) = [V EXCEPT ![l] = Void]
    BY <1>1, <1>3, <2>6, ViewOne
  <2>8. /\ d \in Call /\ d.tids # << >> /\ d.tids[1] = c.tids[1] /\ Last(d.tids) = V[l].to
        /\ Len(d.tids) >= 1 /\ d.pc = c.pc /\ d.op = c.op /\ d.due = c.due
    BY <1>1, <1>3, <1>4, <1>7, <2>4, FollowingIs
  <2> HIDE DEF d, Q, new, l, V, p
  <2>9. Linked(View(new), [call EXCEPT ![t] = d], values) /\ Changes(V, View(new), call[t])
    <3>1. /\ call[t].pc = "remove" /\ l = Last(call[t].tids) /\ d.pc = "remove"
          /\ d.op = call[t].op /\ d.tids[1] = call[t].tids[1]
      BY <1>2, <2>8 DEF l
    <3> QED
      BY <1>1, <1>7, <2>7, <2>8, <3>1, RemoveFollows
  <2>10. SegmentInv(new, size, [call EXCEPT ![t] = d], values)
    BY <1>1, <1>2, <1>3, <1>5, <2>6, <2>8, <2>9, SlotStep DEF c, V, new
  <2> QED
    BY <1>6, <2>2, <2>4, <2>10
<1>8. CASE ~IsWay(V[l])
  <2> DEFINE Q == RecordRemoved(pages[p], l.slotID)
             new == [pages EXCEPT ![p] = Q]
  <2>1. ~IsIndirection(SlotOf(Current(t)))
    BY <1>3, <1>8
  <2>2. pages' = new
    BY <1>3, <2>1 DEF RemoveStep
  <2>3. call' = [call EXCEPT ![t].pc = "return"]
    BY <2>1 DEF RemoveStep
  <2>4. call' = [call EXCEPT ![t] = d] /\ d = [c EXCEPT !.pc = "return"]
    BY <1>1, <2>3
  <2>6. PageOK(Q) /\ ViewOf(Q, l.slotID) = Void /\ Others(pages[p], Q, {l.slotID})
        /\ Gives(pages[p], Q)
    BY <1>3, <1>5, <2>1, RecordRemovedOK
  <2>7. View(new) = [V EXCEPT ![l] = Void]
    BY <1>1, <1>3, <2>6, ViewOne
  <2>8. d \in Call /\ d.tids = c.tids /\ d.pc = "return" /\ d.op = c.op /\ d.due = c.due
    BY <1>1, <2>4 DEF Call, Labels
  <2> HIDE DEF d, Q, new, l, V, p
  <2>9. Linked(View(new), [call EXCEPT ![t] = d], values) /\ Changes(V, View(new), call[t])
    <3>1. /\ call[t].pc = "remove" /\ l = Last(call[t].tids)
          /\ d.op = call[t].op /\ d.tids = call[t].tids
      BY <1>2, <2>8 DEF l
    <3> QED
      BY <1>1, <1>8, <2>7, <2>8, <3>1, RemoveFrees
  <2>10. SegmentInv(new, size, [call EXCEPT ![t] = d], values)
    BY <1>1, <1>2, <1>3, <1>5, <2>6, <2>8, <2>9, SlotStep DEF c, V, new
  <2> QED
    BY <1>6, <2>2, <2>4, <2>10
<1> QED
  BY <1>7, <1>8

-----------------------------------------------------------------------------
\* An update at work on the slot it has come to.
LEMMA UpdateAt ==
  ASSUME Inv, NEW t \in Threads, call[t].op = "update"
  PROVE  LET c == call[t]
             l == Last(c.tids)
             V == View(pages)
             P == pages[l.pageID]
         IN  /\ call \in [Threads -> Call] /\ c \in Call /\ pages \in [PageIDs -> Page]
             /\ PagesOK(pages, size) /\ Linked(V, call, values) /\ size \in Nat
             /\ SegmentInv(pages, size, call, values)
             /\ l \in TIDs /\ Current(t) = l /\ l.pageID \in PageIDs /\ l.slotID \in SlotIDs
             /\ IsWay(V[l]) <=> IsIndirection(SlotOf(l))
             /\ IsWay(V[l]) => V[l].to = SlotOf(l).target
             /\ c.tids \in Seq(TIDs) /\ Len(c.tids) >= 1 /\ c.tids # << >>
             /\ Len(c.tids) # 1 => Len(c.tids) = 2
             /\ PageOK(P) /\ SlotOf(l) = P.slots[l.slotID]
             /\ c.rec \in Seq(Units) /\ c.rec \in Seq(Units \cup {Junk})
             /\ ~IsVoid(V[l]) => ~IsFree(SlotOf(l)) /\ l.pageID < size
             /\ c.tids[1] \in TIDs
<1> DEFINE c == call[t]
           l == Last(c.tids)
           V == View(pages)
<1>1. /\ call \in [Threads -> Call] /\ c \in Call /\ pages \in [PageIDs -> Page]
      /\ PagesOK(pages, size) /\ Linked(V, call, values) /\ size \in Nat
      /\ SegmentInv(pages, size, call, values)
  BY InvFacts
<1>2. /\ l \in TIDs /\ Current(t) = l /\ l.pageID \in PageIDs /\ l.slotID \in SlotIDs
      /\ IsWay(V[l]) <=> IsIndirection(SlotOf(l))
      /\ IsWay(V[l]) => V[l].to = SlotOf(l).target
      /\ c.tids \in Seq(TIDs) /\ Len(c.tids) >= 1 /\ c.tids # << >>
  BY CurrentIs
<1>3. PageOK(pages[l.pageID]) /\ SlotOf(l) = pages[l.pageID].slots[l.slotID]
  BY <1>1, <1>2 DEF PagesOK, SlotOf
<1>4. c.rec \in Seq(Units) /\ c.rec \in Seq(Units \cup {Junk})
  BY <1>1, CallFacts
<1>5. ~IsVoid(V[l]) => ~IsFree(SlotOf(l)) /\ l.pageID < size
  BY <1>1, <1>2, <1>3, ViewIs, InUsePage
<1>6. (Len(c.tids) # 1 => Len(c.tids) = 2) /\ c.tids[1] \in TIDs
  BY <1>1, UpdateTids
<1> QED
  BY <1>1, <1>2, <1>3, <1>4, <1>5, <1>6

LEMMA DoneIs ==
  ASSUME NEW c \in Call
  PROVE  LET d == Done(c)
         IN  /\ d \in Call /\ d.pc = IF Len(c.tids) = 1 THEN "return" ELSE "check"
             /\ d.op = c.op /\ d.tids = c.tids /\ d.rec = c.rec /\ d.result = c.result
             /\ d.due = c.due
BY DEF Done, Call, Labels

LEMMA BackIs ==
  ASSUME NEW c \in Call, c.tids \in Seq(TIDs), Len(c.tids) = 2
  PROVE  LET d == Done(Back(c))
         IN  /\ d \in Call /\ d.tids # << >> /\ d.tids[1] = c.tids[1] /\ Len(d.tids) = 1
             /\ d.pc = "return" /\ d.op = c.op /\ d.rec = c.rec /\ d.result = c.result
             /\ d.due = c.due
<1>1. PICK d : d = Done([c EXCEPT !.tids = Front(@)])
  OBVIOUS
<1>2. d = Done(Back(c))
  BY <1>1 DEF Back
<1> QED
  BY <1>1, <1>2, Popped, ZenonT(30)

\* The slot an update comes to is taken.
LEMMA UpdateOn ==
  ASSUME Inv, NEW t \in Threads, call[t].pc = "update"
  PROVE  ~IsVoid(View(pages)[Last(call[t].tids)])
<1> DEFINE c == call[t]
           l == Last(c.tids)
           V == View(pages)
           x == c.tids[1]
           y == c.tids[2]
<1>1. Linked(V, call, values) /\ OpOK(c)
  BY InvFacts
<1>2. c.op = "update"
  BY <1>1 DEF OpOK
<1>3. /\ x \in DOMAIN values /\ x \in TIDs /\ UpdateOK(V, c, values)
      /\ Len(c.tids) \in {1, 2} /\ l = IF Len(c.tids) = 1 THEN x ELSE y
      /\ Len(c.tids) = 2 => IsWay(V[x]) /\ V[x].to = y
  BY <1>1, <1>2, UpdateFacts, UpdateTids
<1>4. ~IsVoid(V[x]) /\ ~IsVoid(V[Follow(V, x)])
  BY <1>1, <1>3, RootFacts
<1> QED
  BY <1>3, <1>4 DEF Follow

LEMMA UpdateStepStep ==
  ASSUME OneWriter, Inv, NEW t \in Threads, UpdateStep(t)
  PROVE  SegmentInv(pages', size', call', values')
<1> DEFINE c == call[t]
           d == call'[t]
           l == Last(c.tids)
           p == l.pageID
           V == View(pages)
           s == SlotOf(l)
<1>1. call[t].pc = "update" /\ c.op = "update"
  BY InvFacts DEF UpdateStep, At, OpOK
<1>2. /\ call \in [Threads -> Call] /\ c \in Call /\ pages \in [PageIDs -> Page]
      /\ PagesOK(pages, size) /\ Linked(V, call, values) /\ size \in Nat
      /\ SegmentInv(pages, size, call, values)
      /\ l \in TIDs /\ Current(t) = l /\ p \in PageIDs /\ l.slotID \in SlotIDs
      /\ IsWay(V[l]) <=> IsIndirection(s)
      /\ IsWay(V[l]) => V[l].to = s.target
      /\ c.tids \in Seq(TIDs) /\ Len(c.tids) >= 1 /\ c.tids # << >>
      /\ PageOK(pages[p]) /\ s = pages[p].slots[l.slotID]
      /\ c.rec \in Seq(Units)
      /\ ~IsVoid(V[l]) => ~IsFree(s) /\ p < size
  BY <1>1, UpdateAt
<1>3. ~IsVoid(V[l]) /\ ~IsFree(s) /\ p < size
  BY <1>1, <1>2, UpdateOn
<1>4. size' = size /\ values' = values
  BY DEF UpdateStep
<1>5. CASE IsWay(V[l])
  <2>1. IsIndirection(SlotOf(Current(t))) /\ SlotOf(Current(t)).target = V[l].to
    BY <1>2, <1>5
  <2>2. pages' = pages
    BY <2>1 DEF UpdateStep
  <2>3. call' = [call EXCEPT ![t] = Following(c, V[l].to)]
    BY <2>1 DEF UpdateStep
  <2>4. call' = [call EXCEPT ![t] = d] /\ d = Following(c, V[l].to)
    BY <1>2, <2>3
  <2>5. V[l].to \in TIDs
    <3>1. V \in [TIDs -> Views] /\ l \in TIDs
      BY <1>2, CallFacts
    <3>2. V[l] \in Views
      BY <3>1
    <3> QED
      BY <1>5, <3>2, ViewsAre
  <2>6. /\ d \in Call /\ d.tids # << >> /\ d.tids[1] = c.tids[1]
        /\ Len(c.tids) = 1 => Len(d.tids) = 2 /\ d.tids[2] = V[l].to
        /\ d.pc = c.pc /\ d.op = c.op /\ d.rec = c.rec /\ d.result = c.result /\ d.due = c.due
    <3>1. c \in Call /\ c.tids \in Seq(TIDs) /\ Len(c.tids) >= 1
      BY <1>2
    <3>2. PICK y \in TIDs : y = V[l].to
      BY <2>5
    <3>3. PICK e : e = Following(c, y)
      OBVIOUS
    <3> HIDE DEF c
    <3>4. /\ e \in Call /\ e.tids # << >> /\ e.tids[1] = c.tids[1]
          /\ Len(c.tids) = 1 => Len(e.tids) = 2 /\ e.tids[2] = y
          /\ e.pc = c.pc /\ e.op = c.op /\ e.rec = c.rec /\ e.result = c.result /\ e.due = c.due
      BY <3>1, <3>3, FollowingIs
    <3>5. d = e
      BY <2>4, <3>2, <3>3 DEF c
    <3> QED
      BY <3>2, <3>4, <3>5
  <2> HIDE DEF d, l, V, p, s
  <2>7. Linked(V, [call EXCEPT ![t] = d], values)
    BY <1>1, <1>2, <1>5, <2>6, UpdateFollows DEF l
  <2>8. RoomOK(d, pages, size)
    BY <1>1, <2>6 DEF RoomOK
  <2>9. SegmentInv(pages, size, [call EXCEPT ![t] = d], values)
    BY <1>1, <1>2, <2>6, <2>7, <2>8, OwnStillStep DEF c, V
  <2> QED
    BY <1>4, <2>2, <2>4, <2>9
<1>6. CASE ~IsWay(V[l]) /\ Len(c.rec) <= s.length
  <2> DEFINE Q == ReplacedInPlace(pages[p], l.slotID, c.rec)
             new == [pages EXCEPT ![p] = Q]
  <2>0. s.length \in Nat /\ Len(c.rec) \in Nat
    <3>1. PageOK(pages[p]) /\ l.slotID \in SlotIDs /\ s = pages[p].slots[l.slotID]
      BY <1>2
    <3>2. c.rec \in Seq(Units)
      BY <1>2
    <3> HIDE DEF s, c, p, l
    <3>3. s.length \in Nat
      BY <3>1, PageFacts
    <3>4. Len(c.rec) \in Nat
      BY <3>2
    <3> QED
      BY <3>3, <3>4
  <2>1. /\ ~IsIndirection(SlotOf(Current(t))) /\ Len(call[t].rec) <= SlotOf(Current(t)).length
        /\ ~(Len(call[t].rec) > SlotOf(Current(t)).length)
    <3>1. PICK a \in Nat : a = Len(c.rec)
      BY <2>0
    <3>2. PICK b \in Nat : b = s.length
      BY <2>0
    <3>3. a <= b /\ ~(a > b)
      BY <1>6, <3>1, <3>2
    <3>4. Current(t) = l /\ ~IsIndirection(s)
      BY <1>2, <1>6
    <3> QED
      BY <3>1, <3>2, <3>3, <3>4
  <2>2. pages' = new
    BY <1>2, <2>1 DEF UpdateStep
  <2>3. call' = [call EXCEPT ![t] = Done(c)]
    BY <2>1 DEF UpdateStep
  <2>4. call' = [call EXCEPT ![t] = d] /\ d = Done(c)
    BY <1>2, <2>3
  <2>5. PageOK(Q) /\ ViewOf(Q, l.slotID) = Rec(c.rec) /\ Others(pages[p], Q, {l.slotID})
    BY <1>2, <1>3, <1>6, ReplacedOK
  <2>6. View(new) = [V EXCEPT ![l] = Rec(c.rec)]
    <3>1. l \in TIDs /\ p = l.pageID /\ Others(pages[l.pageID], Q, {l.slotID})
          /\ pages \in [PageIDs -> Page]
      BY <1>2, <2>5
    <3> HIDE DEF l, p, Q
    <3>2. View([pages EXCEPT ![l.pageID] = Q]) = [View(pages) EXCEPT ![l] = ViewOf(Q, l.slotID)]
      BY <3>1, ViewOne
    <3> QED
      BY <2>5, <3>1, <3>2
  <2>7. /\ d \in Call /\ d.pc = IF Len(c.tids) = 1 THEN "return" ELSE "check"
        /\ d.op = c.op /\ d.tids = c.tids /\ d.rec = c.rec /\ d.result = c.result
        /\ d.due = c.due
    BY <1>2, <2>4, DoneIs
  <2>8. IsRec(V[l])
    BY <1>2, <1>3, <1>6, ViewIs
  <2> HIDE DEF d, Q, new, l, V, p, s
  <2>9. Linked(View(new), [call EXCEPT ![t] = d], values) /\ Changes(V, View(new), call[t])
    BY <1>1, <1>2, <2>6, <2>7, <2>8, UpdateReplaces DEF l
  <2>10. d.pc \notin {"scan", "compact", "place"}
    BY <2>7
  <2>11. SegmentInv(new, size, [call EXCEPT ![t] = d], values)
    BY <1>1, <1>2, <1>3, <2>5, <2>7, <2>9, <2>10, SlotStep DEF c, V, new
  <2> QED
    BY <1>4, <2>2, <2>4, <2>11
<1>7. CASE ~IsWay(V[l]) /\ ~(Len(c.rec) <= s.length)
  <2> DEFINE Q == RecordDropped(pages[p], l.slotID)
             new == [pages EXCEPT ![p] = Q]
  <2>1. ~IsIndirection(SlotOf(Current(t))) /\ ~(Len(call[t].rec) <= SlotOf(Current(t)).length)
    BY <1>2, <1>7
  <2>2. pages' = new
    BY <1>2, <2>1 DEF UpdateStep
  <2>3. call' = [call EXCEPT ![t].pc = "scan", ![t].page = 0]
    BY <2>1 DEF UpdateStep
  <2>4. call' = [call EXCEPT ![t] = d] /\ d = [c EXCEPT !.pc = "scan", !.page = 0]
    BY <1>2, <2>3
  <2>5. PageOK(Q) /\ ViewOf(Q, l.slotID) = Rec(<< >>) /\ Others(pages[p], Q, {l.slotID})
    BY <1>2, <1>3, <1>7, DroppedOK
  <2>6. View(new) = [V EXCEPT ![l] = Rec(<< >>)]
    <3>1. l \in TIDs /\ p = l.pageID /\ Others(pages[l.pageID], Q, {l.slotID})
          /\ pages \in [PageIDs -> Page]
      BY <1>2, <2>5
    <3> HIDE DEF l, p, Q
    <3>2. View([pages EXCEPT ![l.pageID] = Q]) = [View(pages) EXCEPT ![l] = ViewOf(Q, l.slotID)]
      BY <3>1, ViewOne
    <3> QED
      BY <2>5, <3>1, <3>2
  <2>7. /\ d \in Call /\ d.pc = "scan" /\ d.page = 0
        /\ d.op = c.op /\ d.tids = c.tids /\ d.rec = c.rec /\ d.result = c.result
        /\ d.due = c.due
    <3>1. c \in Call /\ d = [c EXCEPT !.pc = "scan", !.page = 0]
      BY <1>2, <2>4
    <3> HIDE DEF c, d
    <3> QED
      BY <3>1 DEF Call, Labels
  <2>8. IsRec(V[l])
    BY <1>2, <1>3, <1>7, ViewIs
  <2> HIDE DEF d, Q, new, l, V, p, s
  <2>9. Linked(View(new), [call EXCEPT ![t] = d], values) /\ Changes(V, View(new), call[t])
    BY <1>1, <1>2, <2>6, <2>7, <2>8, UpdateDrops DEF l
  <2>11. SegmentInv(new, size, [call EXCEPT ![t] = d], values)
    BY <1>1, <1>2, <1>3, <2>5, <2>7, <2>9, SlotStep DEF c, V, new
  <2> QED
    BY <1>4, <2>2, <2>4, <2>11
<1> QED
  BY <1>5, <1>6, <1>7

-----------------------------------------------------------------------------
\* An indirection, and a slot whose record has been dropped, have no data.
LEMMA NoData ==
  ASSUME NEW pgs \in [PageIDs -> Page], NEW x \in TIDs, PageOK(pgs[x.pageID]),
         LET v == View(pgs)[x] IN IsWay(v) \/ v = Rec(<< >>)
  PROVE  /\ pgs[x.pageID].slots[x.slotID].length = 0
         /\ ~IsFree(pgs[x.pageID].slots[x.slotID])
<1> DEFINE P == pgs[x.pageID]
           s == P.slots[x.slotID]
           v == View(pgs)[x]
<1>1. x.pageID \in PageIDs /\ x.slotID \in SlotIDs /\ P \in Page /\ s \in Slot /\ SlotOK(s)
  BY TidParts DEF PageOK, SlotsOK, Page
<1>2. /\ IsWay(v) <=> IsIndirection(s)
      /\ IsRec(v) <=> ~IsFree(s) /\ ~IsIndirection(s)
      /\ IsRec(v) => v = Rec(ReadRecord(P, s))
  BY ViewIs
<1>3. CASE IsWay(v)
  BY <1>1, <1>2, <1>3 DEF SlotOK, IsFree, IsIndirection
<1>4. CASE v = Rec(<< >>)
  <2>1. IsRec(v)
    BY <1>4 DEF Rec, IsRec
  <2>2. ReadRecord(P, s) = << >>
    BY <1>2, <1>4, <2>1 DEF Rec
  <2>3. s.length = Len(<< >>)
    BY <1>1, <2>2, ReadType
  <2> QED
    BY <1>2, <2>1, <2>3
<1> QED
  BY <1>3, <1>4

\* The slot x is made to lead to y.
Led(V, x, y) == [V EXCEPT ![x] = Way(y)]

LEMMA PointsSwapped ==
  ASSUME OneWriter, NEW V, NEW cs, NEW vs, Linked(V, cs, vs), NEW t \in Threads,
         cs[t].pc = "point", NEW l, l = Last(cs[t].tids), NEW n, n = cs[t].result,
         NEW d \in Call, d.pc = IF Len(cs[t].tids) = 1 THEN "return" ELSE "check",
         d.op = cs[t].op, d.tids = cs[t].tids, d.rec = cs[t].rec
  PROVE  LET W == Swapped(V, l, n)
         IN  Linked(W, [cs EXCEPT ![t] = d], vs) /\ Changes(V, W, cs[t])
<1>1. PICK W : W = [V EXCEPT ![l] = V[n], ![n] = Void]
  OBVIOUS
<1>2. Linked(W, [cs EXCEPT ![t] = d], vs) /\ Changes(V, W, cs[t])
  BY <1>1, PointMoves
<1> QED
  BY <1>1, <1>2 DEF Swapped

LEMMA PointsLed ==
  ASSUME OneWriter, NEW V, NEW cs, NEW vs, Linked(V, cs, vs), NEW t \in Threads,
         cs[t].pc = "point", NEW l, l = Last(cs[t].tids), NEW n, n = cs[t].result,
         NEW d \in Call, d.pc = IF Len(cs[t].tids) = 1 THEN "return" ELSE "check",
         d.op = cs[t].op, d.tids = cs[t].tids, d.rec = cs[t].rec
  PROVE  LET W == Led(V, l, n)
         IN  Linked(W, [cs EXCEPT ![t] = d], vs) /\ Changes(V, W, cs[t])
<1>1. PICK W : W = [V EXCEPT ![l] = Way(n)]
  OBVIOUS
<1>2. Linked(W, [cs EXCEPT ![t] = d], vs) /\ Changes(V, W, cs[t])
  BY <1>1, PointLinks
<1> QED
  BY <1>1, <1>2 DEF Led

LEMMA SkipsLed ==
  ASSUME OneWriter, NEW V, NEW cs, NEW vs, Linked(V, cs, vs), NEW t \in Threads,
         cs[t].pc = "skip", NEW x, x = cs[t].tids[1], NEW y, y = Last(cs[t].tids),
         NEW d \in Call, d.pc = "free",
         d.op = cs[t].op, d.tids = cs[t].tids, d.rec = cs[t].rec
  PROVE  LET W == Led(V, x, V[y].to)
         IN  Linked(W, [cs EXCEPT ![t] = d], vs) /\ Changes(V, W, cs[t])
<1>1. PICK W : W = [V EXCEPT ![x] = Way(V[y].to)]
  OBVIOUS
<1>2. Linked(W, [cs EXCEPT ![t] = d], vs) /\ Changes(V, W, cs[t])
  BY <1>1, Skips
<1> QED
  BY <1>1, <1>2 DEF Led

LEMMA PointStep ==
  ASSUME OneWriter, Inv, NEW t \in Threads, Point(t)
  PROVE  SegmentInv(pages', size', call', values')
<1> DEFINE c == call[t]
           d == call'[t]
           l == Last(c.tids)
           n == c.result
           p == l.pageID
           V == View(pages)
           P == pages[p]
<1>1. call[t].pc = "point" /\ c.op = "update"
  BY InvFacts DEF Point, At, OpOK
<1>2. /\ call \in [Threads -> Call] /\ c \in Call /\ pages \in [PageIDs -> Page]
      /\ PagesOK(pages, size) /\ Linked(V, call, values) /\ size \in Nat
      /\ SegmentInv(pages, size, call, values)
      /\ l \in TIDs /\ Current(t) = l /\ p \in PageIDs /\ l.slotID \in SlotIDs
      /\ c.tids \in Seq(TIDs) /\ Len(c.tids) >= 1 /\ c.tids # << >>
      /\ PageOK(P)
      /\ ~IsVoid(V[l]) => p < size
  BY <1>1, UpdateAt
<1>3. n \in TIDs /\ l # n /\ V[l] = Rec(<< >>) /\ IsRec(V[l]) /\ IsRec(V[n])
  BY <1>1, <1>2, PointFacts
<1>4. size' = size /\ values' = values
  BY DEF Point
<1>5. p < size /\ P.slots[l.slotID].length = 0 /\ ~IsFree(P.slots[l.slotID])
  BY <1>2, <1>3, NoData DEF Rec, IsVoid
<1>6. call' = [call EXCEPT ![t] = Done([c EXCEPT !.result = NoTID])]
  BY DEF Point
<1>7. /\ d \in Call /\ d.pc = IF Len(c.tids) = 1 THEN "return" ELSE "check"
      /\ d.op = c.op /\ d.tids = c.tids /\ d.rec = c.rec /\ d.due = c.due
  <2>1. PICK b : b = [c EXCEPT !.result = NoTID]
    OBVIOUS
  <2>2. /\ b \in Call /\ b.pc = c.pc /\ b.op = c.op /\ b.tids = c.tids /\ b.rec = c.rec
        /\ b.due = c.due
    BY <1>2, <2>1 DEF Call
  <2>3. d = Done(b)
    BY <1>2, <1>6, <2>1
  <2> HIDE DEF d, c
  <2> QED
    BY <2>2, <2>3, DoneIs
<1>8. call' = [call EXCEPT ![t] = d]
  BY <1>2, <1>6
<1>9. CASE n.pageID = p
  <2> DEFINE Q == SlotMoved(P, l.slotID, n.slotID)
             new == [pages EXCEPT ![p] = Q]
  <2>1. pages' = new
    BY <1>2, <1>9 DEF Point
  <2>2. n.slotID \in SlotIDs /\ l.slotID # n.slotID
    BY <1>2, <1>3, <1>9, TidParts
  <2>3. ~IsFree(P.slots[n.slotID]) /\ ~IsIndirection(P.slots[n.slotID])
    BY <1>3, <1>9, ViewIs
  <2>4. /\ PageOK(Q) /\ ViewOf(Q, l.slotID) = ViewOf(P, n.slotID) /\ ViewOf(Q, n.slotID) = Void
        /\ Others(P, Q, {l.slotID, n.slotID})
    BY <1>2, <1>5, <2>2, <2>3, MovedOK
  <2>5. View(new) = Swapped(V, l, n)
    <3>1. /\ ViewOf(Q, l.slotID) = View(pages)[n] /\ l.pageID = n.pageID /\ p = l.pageID
          /\ Others(pages[l.pageID], Q, {l.slotID, n.slotID})
      BY <1>3, <1>9, <2>4, ViewIs
    <3> HIDE DEF l, n, p, Q, P
    <3> QED
      BY <1>2, <1>3, <2>4, <3>1, ViewSwapped
  <2> HIDE DEF d, Q, new, l, V, p, P, n
  <2>6. Linked(View(new), [call EXCEPT ![t] = d], values) /\ Changes(V, View(new), call[t])
    <3>1. /\ call[t].pc = "point" /\ l = Last(call[t].tids) /\ n = call[t].result
          /\ d \in Call /\ d.pc = IF Len(call[t].tids) = 1 THEN "return" ELSE "check"
          /\ d.op = call[t].op /\ d.tids = call[t].tids /\ d.rec = call[t].rec
          /\ Linked(V, call, values)
      BY <1>1, <1>2, <1>7 DEF l, n
    <3> HIDE DEF c
    <3> QED
      BY <2>5, <3>1, PointsSwapped
  <2>7. d.pc \notin {"scan", "compact", "place"}
    BY <1>7
  <2>8. SegmentInv(new, size, [call EXCEPT ![t] = d], values)
    BY <1>1, <1>2, <1>5, <1>7, <2>4, <2>6, <2>7, SlotStep DEF c, V, new
  <2> QED
    BY <1>4, <1>8, <2>1, <2>8
<1>10. CASE n.pageID # p
  <2> DEFINE Q == [P EXCEPT !.slots[l.slotID] = Indirection(n)]
             new == [pages EXCEPT ![p] = Q]
  <2>1. pages' = new
    BY <1>2, <1>10 DEF Point
  <2>4. PageOK(Q) /\ ViewOf(Q, l.slotID) = Way(n) /\ Others(P, Q, {l.slotID})
    BY <1>2, <1>3, <1>5, RedirectedOK
  <2>5. View(new) = Led(V, l, n)
    <3>1. Others(pages[l.pageID], Q, {l.slotID}) /\ p = l.pageID
      BY <2>4
    <3> HIDE DEF l, n, p, Q, P
    <3>2. View([pages EXCEPT ![l.pageID] = Q]) = [View(pages) EXCEPT ![l] = ViewOf(Q, l.slotID)]
      BY <1>2, <3>1, ViewOne
    <3> QED
      BY <2>4, <3>1, <3>2 DEF Led
  <2> HIDE DEF d, Q, new, l, V, p, P, n
  <2>6. Linked(View(new), [call EXCEPT ![t] = d], values) /\ Changes(V, View(new), call[t])
    <3>1. /\ call[t].pc = "point" /\ l = Last(call[t].tids) /\ n = call[t].result
          /\ d \in Call /\ d.pc = IF Len(call[t].tids) = 1 THEN "return" ELSE "check"
          /\ d.op = call[t].op /\ d.tids = call[t].tids /\ d.rec = call[t].rec
          /\ Linked(V, call, values)
      BY <1>1, <1>2, <1>7 DEF l, n
    <3> HIDE DEF c
    <3> QED
      BY <2>5, <3>1, PointsLed
  <2>7. d.pc \notin {"scan", "compact", "place"}
    BY <1>7
  <2>8. SegmentInv(new, size, [call EXCEPT ![t] = d], values)
    BY <1>1, <1>2, <1>5, <1>7, <2>4, <2>6, <2>7, SlotStep DEF c, V, new
  <2> QED
    BY <1>4, <1>8, <2>1, <2>8
<1> QED
  BY <1>9, <1>10

LEMMA SkipStep ==
  ASSUME OneWriter, Inv, NEW t \in Threads, Skip(t)
  PROVE  SegmentInv(pages', size', call', values')
<1> DEFINE c == call[t]
           d == call'[t]
           y == Last(c.tids)
           x == c.tids[1]
           p == x.pageID
           V == View(pages)
           P == pages[p]
           z == V[y].to
           Q == [P EXCEPT !.slots[x.slotID] = Indirection(z)]
           new == [pages EXCEPT ![p] = Q]
<1>1. call[t].pc = "skip" /\ c.op = "update"
  BY InvFacts DEF Skip, At, OpOK
<1>2. /\ call \in [Threads -> Call] /\ c \in Call /\ pages \in [PageIDs -> Page]
      /\ PagesOK(pages, size) /\ Linked(V, call, values) /\ size \in Nat
      /\ SegmentInv(pages, size, call, values)
      /\ y \in TIDs /\ Current(t) = y
      /\ IsWay(V[y]) => V[y].to = SlotOf(y).target
      /\ c.tids \in Seq(TIDs) /\ c.tids # << >> /\ x \in TIDs
  BY <1>1, UpdateAt
<1>3. /\ Len(c.tids) = 2 /\ y = c.tids[2] /\ IsWay(V[y]) /\ IsWay(V[x])
  <2>1. Len(c.tids) = 2
    BY <1>1, <1>2 DEF Linked, Calls, LocalsOK, TidsOK
  <2>2. UpdateOK(V, c, values) /\ y = c.tids[2]
    BY <1>1, <1>2, <2>1, UpdateFacts, UpdateTids
  <2>3. V[x] = Way(y)
    BY <1>1, <2>1, <2>2 DEF UpdateOK
  <2> QED
    BY <1>1, <2>1, <2>2, <2>3 DEF UpdateOK, Way, IsWay
<1>4. Outer(t) = x /\ SlotOf(Current(t)).target = z
  BY <1>2, <1>3 DEF Outer
<1>5. z \in TIDs /\ p \in PageIDs /\ x.slotID \in SlotIDs /\ ~IsVoid(V[x])
  BY <1>2, <1>3, ViewsAre, TidParts DEF Linked, Forest, IsWay, IsVoid
<1>6. PageOK(P) /\ p < size
  BY <1>2, <1>5, InUsePage DEF PagesOK
<1>7. P.slots[x.slotID].length = 0 /\ ~IsFree(P.slots[x.slotID])
  BY <1>2, <1>3, <1>6, NoData
<1>8. PageOK(Q) /\ ViewOf(Q, x.slotID) = Way(z) /\ Others(P, Q, {x.slotID})
  BY <1>5, <1>6, <1>7, RedirectedOK
<1>9. /\ pages' = [pages EXCEPT ![p].slots[x.slotID] = Indirection(z)]
      /\ call' = [call EXCEPT ![t].pc = "free"]
      /\ size' = size /\ values' = values
  BY <1>4 DEF Skip
<1>10. pages' = new
  BY <1>2, <1>5, <1>9
<1>11. call' = [call EXCEPT ![t] = d] /\ d = [c EXCEPT !.pc = "free"]
  BY <1>2, <1>9
<1> HIDE DEF Q, z, P, V, p
<1>12. View(new) = Led(V, x, z)
  <2>1. Others(pages[x.pageID], Q, {x.slotID}) /\ p = x.pageID
    BY <1>8 DEF P, p
  <2> HIDE DEF x
  <2>2. View([pages EXCEPT ![x.pageID] = Q]) = [View(pages) EXCEPT ![x] = ViewOf(Q, x.slotID)]
    BY <1>2, <2>1, ViewOne
  <2> QED
    BY <1>8, <2>1, <2>2 DEF V, Led
<1>13. d \in Call /\ d.pc = "free" /\ d.op = c.op /\ d.tids = c.tids /\ d.rec = c.rec /\ d.due = c.due
  <2>1. c \in Call
    BY <1>2
  <2> HIDE DEF c, d
  <2> QED
    BY <1>11, <2>1 DEF Call, Labels
<1> HIDE DEF d, new, x, y
<1>14. Linked(View(new), [call EXCEPT ![t] = d], values) /\ Changes(V, View(new), call[t])
  <2>1. /\ call[t].pc = "skip" /\ x = call[t].tids[1] /\ y = Last(call[t].tids)
        /\ d \in Call /\ d.pc = "free"
        /\ d.op = call[t].op /\ d.tids = call[t].tids /\ d.rec = call[t].rec
        /\ Linked(V, call, values) /\ View(new) = Led(V, x, V[y].to)
    BY <1>1, <1>2, <1>12, <1>13 DEF x, y, z
  <2> HIDE DEF c
  <2> QED
    BY <2>1, SkipsLed
<1>15. SegmentInv(new, size, [call EXCEPT ![t] = d], values)
  BY <1>1, <1>2, <1>5, <1>6, <1>8, <1>13, <1>14, SlotStep DEF c, V, new
<1> QED
  BY <1>9, <1>10, <1>11, <1>15

LEMMA FreeStep ==
  ASSUME OneWriter, Inv, NEW t \in Threads, Free(t)
  PROVE  SegmentInv(pages', size', call', values')
<1> DEFINE c == call[t]
           d == call'[t]
           l == Last(c.tids)
           p == l.pageID
           V == View(pages)
           P == pages[p]
           Q == FreedSlot(P, l.slotID)
           new == [pages EXCEPT ![p] = Q]
<1>1. call[t].pc = "free" /\ c.op = "update"
  BY InvFacts DEF Free, At, OpOK
<1>2. /\ call \in [Threads -> Call] /\ c \in Call /\ pages \in [PageIDs -> Page]
      /\ PagesOK(pages, size) /\ Linked(V, call, values) /\ size \in Nat
      /\ SegmentInv(pages, size, call, values)
      /\ l \in TIDs /\ Current(t) = l /\ p \in PageIDs /\ l.slotID \in SlotIDs
      /\ c.tids \in Seq(TIDs) /\ c.tids # << >> /\ PageOK(P)
      /\ ~IsVoid(V[l]) => p < size
  BY <1>1, UpdateAt
<1>3. Len(c.tids) = 2 /\ IsWay(V[l])
  <2>1. Len(c.tids) = 2
    BY <1>1, <1>2 DEF Linked, Calls, LocalsOK, TidsOK
  <2>2. UpdateOK(V, c, values) /\ l = c.tids[2]
    BY <1>1, <1>2, <2>1, UpdateFacts, UpdateTids
  <2> QED
    BY <1>1, <2>1, <2>2 DEF UpdateOK
<1>4. P.slots[l.slotID].length = 0 /\ ~IsFree(P.slots[l.slotID]) /\ p < size
  BY <1>2, <1>3, NoData DEF IsWay, IsVoid
<1>5. PageOK(Q) /\ ViewOf(Q, l.slotID) = Void /\ Others(P, Q, {l.slotID})
  BY <1>2, <1>4, FreedSlotOK
<1>6. pages' = new /\ size' = size /\ values' = values
  BY <1>2 DEF Free
<1>7. call' = [call EXCEPT ![t] = Done(Back(c))]
  BY DEF Free
<1>8. call' = [call EXCEPT ![t] = d] /\ d = Done(Back(c))
  BY <1>2, <1>7
<1>9. /\ d \in Call /\ d.tids # << >> /\ d.tids[1] = c.tids[1] /\ Len(d.tids) = 1
      /\ d.pc = "return" /\ d.op = c.op /\ d.rec = c.rec /\ d.due = c.due
  BY <1>2, <1>3, <1>8, BackIs
<1>10. View(new) = [V EXCEPT ![l] = Void]
  <2>1. Others(pages[l.pageID], Q, {l.slotID}) /\ p = l.pageID
    BY <1>5
  <2> HIDE DEF l, Q, P, p
  <2>2. View([pages EXCEPT ![l.pageID] = Q]) = [View(pages) EXCEPT ![l] = ViewOf(Q, l.slotID)]
    BY <1>2, <2>1, ViewOne
  <2> QED
    BY <1>5, <2>1, <2>2
<1> HIDE DEF d, Q, new, l, V, p, P
<1>11. Linked(View(new), [call EXCEPT ![t] = d], values) /\ Changes(V, View(new), call[t])
  BY <1>1, <1>2, <1>9, <1>10, Frees DEF l
<1>12. SegmentInv(new, size, [call EXCEPT ![t] = d], values)
  BY <1>1, <1>2, <1>4, <1>5, <1>9, <1>11, SlotStep DEF c, V, new
<1> QED
  BY <1>6, <1>8, <1>12

-----------------------------------------------------------------------------
\* What insert does to the page it has found.
Filled(P, r) ==
    LET new == Allocated(P.header, P.slots, Len(r))
    IN  [WithRecord(P, NewSlotID(P.header), new.dataStart, r) EXCEPT !.header = new]

LEMMA FilledOK ==
  ASSUME NEW P, PageOK(P), NEW r \in Seq(Units), HasRoom(P.header, Len(r))
  PROVE  LET i == NewSlotID(P.header)
             Q == Filled(P, r)
         IN  /\ i \in SlotIDs /\ ViewOf(P, i) = Void
             /\ PageOK(Q) /\ ViewOf(Q, i) = Rec(r) /\ Others(P, Q, {i})
BY InsertedOK DEF Filled

\* The page insert has found, or the fresh one, has room.
LEMMA PlaceFacts ==
  ASSUME Inv, NEW t \in Threads, call[t].pc = "place", call[t].page \in PageIDs
  PROVE  LET c == call[t]
             p == c.page
             P == pages[p]
         IN  /\ c.op \in {"insert", "update"} /\ c.rec \in Seq(Units)
             /\ p \in Nat /\ p <= size /\ PageOK(P) /\ HasRoom(P.header, Len(c.rec))
             /\ p = size => P = EmptyPage
             /\ p # size => c.header = p
             /\ p # NoPage
<1> DEFINE c == call[t]
           p == c.page
           P == pages[p]
<1>1. /\ call \in [Threads -> Call] /\ c \in Call /\ OpOK(c) /\ size \in Nat
      /\ RoomOK(c, pages, size) /\ PagesOK(pages, size) /\ Linked(View(pages), call, values)
  BY InvFacts
<1>2. c.op \in {"insert", "update"} /\ c.pc = "place"
  BY <1>1 DEF OpOK
<1>3. c.rec \in Records /\ c.rec \in Seq(Units)
  BY <1>1, <1>2, CallFacts
<1>4. p \in Nat /\ p \in PageIDs /\ p <= size /\ PageOK(P)
  BY <1>1, <1>2, CallTypes DEF RoomOK, PagesOK
<1>5. p # NoPage
  BY <1>4 DEF NoPage
<1>6. CASE p = size
  <2>1. P = EmptyPage
    BY <1>1, <1>4, <1>6 DEF PagesOK
  <2>2. PICK n \in Nat : n = Len(c.rec)
    BY <1>3
  <2>3. HeaderSize + SlotSize + n <= BlockSize
    BY <1>3, <2>2, SegmentAssumption
  <2>4. HasRoom(EmptyPage.header, n)
    BY <2>3, EmptyPageOK
  <2> QED
    BY <1>2, <1>3, <1>4, <1>5, <1>6, <2>1, <2>2, <2>4
<1>7. CASE p # size
  <2>1. p < size
    BY <1>1, <1>4, <1>7
  <2>2. HasRoom(P.header, Len(c.rec)) /\ c.header = p
    BY <1>1, <1>2, <2>1 DEF RoomOK
  <2> QED
    BY <1>2, <1>3, <1>4, <1>5, <1>7, <2>2
<1> QED
  BY <1>6, <1>7

LEMMA PlaceStep ==
  ASSUME OneWriter, Inv, NEW t \in Threads, Place(t)
  PROVE  SegmentInv(pages', size', call', values')
<1> DEFINE c == call[t]
           d == call'[t]
           p == c.page
           P == pages[p]
           r == c.rec
           i == NewSlotID(P.header)
           n == [pageID |-> p, slotID |-> i]
           Q == Filled(P, r)
           new == [pages EXCEPT ![p] = Q]
           sz == IF p = size THEN size + 1 ELSE size
           pc == IF c.op = "insert" THEN "return" ELSE "point"
           V == View(pages)
<1>1. /\ call \in [Threads -> Call] /\ c \in Call /\ pages \in [PageIDs -> Page]
      /\ size \in Nat /\ size \in 0..Cardinality(PageIDs) /\ PagesOK(pages, size)
      /\ Linked(V, call, values) /\ SegmentInv(pages, size, call, values)
  BY InvFacts
<1>2. call[t].pc = "place" /\ call[t].page \in PageIDs
  BY DEF Place, At
<1>3. /\ c.op \in {"insert", "update"} /\ r \in Seq(Units)
      /\ p \in Nat /\ p <= size /\ PageOK(P) /\ HasRoom(P.header, Len(r))
      /\ p = size => P = EmptyPage
      /\ p # size => c.header = p
      /\ p # NoPage
  BY <1>2, PlaceFacts
<1>4. i \in SlotIDs /\ ViewOf(P, i) = Void
      /\ PageOK(Q) /\ ViewOf(Q, i) = Rec(r) /\ Others(P, Q, {i})
  BY <1>3, FilledOK
<1>5. /\ pages' = [[pages EXCEPT ![p] = WithRecord(P, i, Allocated(P.header, P.slots, Len(r)).dataStart, r)]
                      EXCEPT ![p].header = Allocated(P.header, P.slots, Len(r))]
      /\ size' = sz
      /\ call' = [call EXCEPT ![t].result = n, ![t].pc = pc]
  <2>1. CASE p = size
    <3>1. P = EmptyPage
      BY <1>3, <2>1
    <3>2. NewSlotID(EmptyPage.header) \in SlotIDs
      BY <1>4, <3>1
    <3> QED
      BY <1>3, <2>1, <3>1, <3>2 DEF Place
  <2>2. CASE p # size
    <3>1. c.header = p
      BY <1>3, <2>2
    <3> QED
      BY <1>3, <1>4, <2>2, <3>1 DEF Place
  <2> QED
    BY <2>1, <2>2
<1>6. pages' = new
  BY <1>1, <1>2, <1>5 DEF Filled
<1>7. values' = values
  BY DEF Place
<1>8. call' = [call EXCEPT ![t] = d] /\ d = [c EXCEPT !.result = n, !.pc = pc]
  BY <1>1, <1>5
<1>9. n \in TIDs /\ n.pageID = p /\ n.slotID = i
  BY <1>2, <1>4, TidParts
<1>10. /\ d \in Call /\ d.pc = pc /\ d.op = c.op /\ d.tids = c.tids /\ d.rec = r /\ d.result = n
       /\ d.due = c.due
  <2>1. c \in Call /\ pc \in Labels
    BY <1>1 DEF Labels
  <2> HIDE DEF c, d, n, pc
  <2> QED
    BY <1>8, <1>9, <2>1 DEF Call
<1>11. V[n] = Void
  BY <1>4, <1>9 DEF View
<1> HIDE DEF Q, n, i
<1>12. View(new) = [V EXCEPT ![n] = Rec(r)]
  <2>1. Others(pages[n.pageID], Q, {n.slotID}) /\ p = n.pageID
    BY <1>4, <1>9
  <2> HIDE DEF p, P, r
  <2>2. View([pages EXCEPT ![n.pageID] = Q]) = [View(pages) EXCEPT ![n] = ViewOf(Q, n.slotID)]
    BY <1>1, <1>9, <2>1, ViewOne
  <2> QED
    BY <1>4, <1>9, <2>1, <2>2
<1>13. /\ sz \in 0..Cardinality(PageIDs) /\ size <= sz /\ sz \in Nat /\ p < sz
  <2>1. p < Cardinality(PageIDs) /\ Cardinality(PageIDs) \in Nat
    BY <1>2, PageRange
  <2>2. PICK m \in Nat : m = Cardinality(PageIDs)
    BY <2>1
  <2> QED
    BY <1>1, <1>3, <2>1, <2>2
<1> HIDE DEF sz, d, new, V
<1>14. PagesOK(new, sz)
  BY <1>1, <1>2, <1>4, <1>13, PagesOne DEF new
<1>15. RoomOK(d, new, sz)
  BY <1>10 DEF RoomOK
<1>16. Linked(View(new), [call EXCEPT ![t] = d], values) /\ Changes(V, View(new), call[t])
  <2>1. /\ call[t].pc = "place" /\ IsVoid(V[n]) /\ n \in TIDs
        /\ d.pc = IF call[t].op = "insert" THEN "return" ELSE "point"
        /\ d \in Call /\ d.op = call[t].op /\ d.tids = call[t].tids /\ d.rec = call[t].rec
        /\ d.result = n /\ View(new) = [V EXCEPT ![n] = Rec(call[t].rec)]
        /\ Linked(V, call, values)
    BY <1>1, <1>2, <1>9, <1>10, <1>11, <1>12 DEF Void, IsVoid
  <2> HIDE DEF c, p, r, P, pc
  <2> QED
    BY <2>1, Places
<1>17. SegmentInv(new, sz, [call EXCEPT ![t] = d], values)
  <2>1. /\ call[t].op \in {"insert", "update"} /\ call[t].op # "tablescan" /\ d.op = call[t].op
        /\ d.tids = call[t].tids /\ d.due = call[t].due /\ d \in Call
    BY <1>3, <1>10
  <2> HIDE DEF c, p, r, P, pc
  <2> QED
    BY <1>1, <1>13, <1>14, <1>15, <1>16, <2>1, OwnStep DEF V
<1> QED
  BY <1>5, <1>6, <1>7, <1>8, <1>17

-----------------------------------------------------------------------------
LEMMA HomeIs ==
  ASSUME NEW x \in TIDs
  PROVE  Home(x) = Follow(View(pages), x)
BY ViewIs DEF Home, Follow, SlotOf

\* A step that leaves the pages alone.
LEMMA ClientInv ==
  ASSUME NEW pgs, NEW sz, NEW cs, NEW vs, SegmentInv(pgs, sz, cs, vs), NEW t \in Threads,
         NEW cs2 \in [Threads -> Call], Beside(cs, cs2, t),
         NEW V, V = View(pgs), NEW vs2, Linked(V, cs2, vs2), RoomOK(cs2[t], pgs, sz),
         IF cs2[t].op = "tablescan"
         THEN PositionOK(cs2[t].scan, sz) /\ DueOK(V, cs2, vs2, cs2[t])
         ELSE cs2[t].due = {},
         \A u \in Threads \ {t} : /\ cs2[u].scan = cs[u].scan /\ cs2[u].due \subseteq cs[u].due
                                  /\ \A x \in DOMAIN vs :
                                        Follow(V, x) \in cs2[u].due /\ Untouched(cs, x) =>
                                           x \in DOMAIN vs2 /\ Untouched(cs2, x)
  PROVE  SegmentInv(pgs, sz, cs2, vs2)
<1>1. ASSUME NEW u \in Threads PROVE RoomOK(cs2[u], pgs, sz)
  BY <1>1 DEF SegmentInv, Beside, Alike, RoomOK
<1>2. ASSUME NEW u \in Threads \ {t}, cs2[u].op = "tablescan"
      PROVE  PositionOK(cs2[u].scan, sz) /\ DueOK(V, cs2, vs2, cs2[u])
  <2>1. cs[u].op = "tablescan"
    BY <1>2 DEF Beside, Alike
  <2>2. PositionOK(cs[u].scan, sz) /\ DueOK(V, cs, vs, cs[u])
    BY <2>1 DEF SegmentInv, ScansOK
  <2>3. ASSUME NEW z \in cs2[u].due
        PROVE  Ahead(cs2[u].scan, z) /\ \E x \in DOMAIN vs2 : Follow(V, x) = z /\ Untouched(cs2, x)
    <3>1. z \in cs[u].due /\ cs2[u].scan = cs[u].scan
      BY <2>3
    <3>2. Ahead(cs[u].scan, z) /\ \E x \in DOMAIN vs : Follow(V, x) = z /\ Untouched(cs, x)
      BY <2>2, <3>1 DEF DueOK
    <3> QED
      BY <3>1, <3>2
  <2> QED
    BY <2>2, <2>3 DEF DueOK
<1>3. ASSUME NEW u \in Threads \ {t}, cs2[u].op # "tablescan"
      PROVE  cs2[u].due = {}
  <2>1. cs[u].op # "tablescan" /\ u \in Threads
    BY <1>3 DEF Beside, Alike
  <2>2. cs[u].due = {}
    BY <2>1 DEF SegmentInv, ScansOK
  <2> QED
    BY <2>2
<1>4. ScansOK(V, cs2, vs2, sz)
  BY <1>2, <1>3 DEF ScansOK
<1> QED
  BY <1>1, <1>4 DEF SegmentInv

(***************************************************************************)
(* Steps of a scan.                                                        *)
(***************************************************************************)
LEMMA ScanInv ==
  ASSUME NEW pgs, NEW sz, NEW cs, NEW vs, SegmentInv(pgs, sz, cs, vs), NEW t \in Threads,
         cs[t].op \in {"none", "tablescan"},
         NEW d \in Call, d.op \in {"none", "tablescan"}, d.op # "none" => d.op \in Ops[t],
         d.tids = << >>, OpOK(d), d.pc \notin {"scan", "compact", "place"},
         IF d.op = "tablescan"
         THEN /\ PositionOK(d.scan, sz)
              /\ \A z \in d.due : Ahead(d.scan, z) /\ \E x \in DOMAIN vs :
                                     Follow(View(pgs), x) = z /\ Untouched(cs, x)
         ELSE d.due = {}
  PROVE  SegmentInv(pgs, sz, [cs EXCEPT ![t] = d], vs)
<1> DEFINE cs2 == [cs EXCEPT ![t] = d]
           V == View(pgs)
<1>1. Linked(V, cs, vs) /\ cs \in [Threads -> Call]
  BY DEF SegmentInv, Linked, Calls
<1>2. cs2 \in [Threads -> Call] /\ cs2[t] = d /\ Beside(cs, cs2, t)
  BY <1>1, Stepped
<1>3. LocalsOK(d)
  BY DEF LocalsOK, TidsOK, OpOK
<1>4. Linked(V, cs2, vs)
  BY <1>1, <1>3, Scanned
<1>5. \A x : Untouched(cs, x) => Untouched(cs2, x)
  BY <1>1 DEF Untouched
<1>6. \A u \in Threads \ {t} : cs2[u] = cs[u]
  BY <1>1
<1>7. RoomOK(d, pgs, sz)
  BY DEF RoomOK
<1>8. d.op = "tablescan" => PositionOK(d.scan, sz) /\ DueOK(V, cs2, vs, d)
  BY <1>5 DEF DueOK
<1> HIDE DEF cs2, V
<1>9. SegmentInv(pgs, sz, cs2, vs)
  BY <1>2, <1>4, <1>5, <1>6, <1>7, <1>8, ClientInv DEF V
<1> QED
  BY <1>9 DEF cs2

LEMMA OpenedIs ==
  ASSUME NEW a \in Int, NEW b \in Int
  PROVE  LET s == Opened(a, b)
         IN  s \in Scans /\ s.bf = NoFrame /\ s.pageID = a /\ s.lastID = b
<1>1. NoFrame \in Int
  BY DEF NoFrame
<1> HIDE DEF NoFrame
<1>2. PICK n : n = NewScan
  OBVIOUS
<1>3. n \in Scans /\ n.bf = NoFrame
  BY <1>1, <1>2 DEF NewScan, Scans
<1>4. Opened(a, b) = [n EXCEPT !.pageID = a, !.lastID = b]
  BY <1>2 DEF Opened
<1> QED
  BY <1>3, <1>4 DEF Scans

LEMMA OpenScanStep ==
  ASSUME Inv, NEW t \in Threads, OpenScan(t)
  PROVE  SegmentInv(pages', size', call', values')
<1> DEFINE d == call'[t]
           V == View(pages)
           free == DOMAIN values \ InUse(t)
<1>1. /\ call \in [Threads -> Call] /\ size \in Nat /\ PagesOK(pages, size)
      /\ Linked(V, call, values) /\ SegmentInv(pages, size, call, values) /\ OpOK(call[t])
      /\ DOMAIN values \subseteq TIDs
  BY InvFacts DEF Calls
<1>2. call[t].op = "none" /\ "tablescan" \in Ops[t]
  BY <1>1 DEF OpenScan, At, OpOK
<1>3. call' = [call EXCEPT ![t] = d]
      /\ d = [Idle EXCEPT !.pc = "next", !.op = "tablescan", !.scan = Opened(0, size - 1),
                          !.due = {Home(x) : x \in free}]
  BY <1>1 DEF OpenScan
<1>4. \A x \in free : Home(x) = Follow(V, x) /\ Home(x) \in TIDs /\ ~IsVoid(V[Home(x)])
  BY <1>1, HomeIs, RootFacts
<1>5. PICK due : due = {Home(x) : x \in free}
  OBVIOUS
<1>6. due \subseteq TIDs
  BY <1>4, <1>5
<1>7. Opened(0, size - 1) \in Scans /\ Opened(0, size - 1).bf = NoFrame
      /\ Opened(0, size - 1).pageID = 0 /\ Opened(0, size - 1).lastID = size - 1
  BY <1>1, OpenedIs
<1>8. /\ d \in Call /\ d.pc = "next" /\ d.op = "tablescan" /\ d.tids = << >>
      /\ d.scan = Opened(0, size - 1) /\ d.due = due
  <2>1. d = [Idle EXCEPT !.pc = "next", !.op = "tablescan", !.scan = Opened(0, size - 1),
                         !.due = due]
    BY <1>3, <1>5
  <2>2. Idle \in Call /\ Idle.tids = << >>
    BY IdleCall
  <2> HIDE DEF d
  <2> QED
    BY <1>6, <1>7, <2>1, <2>2 DEF Call, Labels, AllOps
<1>9. ASSUME NEW z \in d.due
      PROVE  Ahead(d.scan, z) /\ \E x \in DOMAIN values : Follow(V, x) = z /\ Untouched(call, x)
  <2>1. PICK x \in free : z = Home(x)
    BY <1>5, <1>8, <1>9
  <2>2. Follow(V, x) = z /\ z \in TIDs /\ z.pageID < size /\ x \in DOMAIN values
    BY <1>1, <1>4, <2>1, InUsePage
  <2>3. z.pageID \in Nat
    BY <2>2, TidParts, PageRange
  <2>4. Ahead(d.scan, z)
    BY <1>1, <1>7, <1>8, <2>2, <2>3 DEF Ahead
  <2>5. Untouched(call, x)
    <3> SUFFICES ASSUME NEW u \in Threads, call[u].op = "update", call[u].tids[1] = x
                 PROVE  FALSE
      BY DEF Untouched
    <3>1. u # t
      BY <1>2
    <3>2. call[u].tids # << >>
      BY <1>1, CallFacts
    <3> QED
      BY <2>1, <3>1, <3>2 DEF InUse
  <2> QED
    BY <2>2, <2>4, <2>5
<1>10. PositionOK(d.scan, size)
  BY <1>1, <1>7, <1>8 DEF PositionOK
<1>11. OpOK(d)
  BY <1>8 DEF OpOK
<1>12. pages' = pages /\ size' = size /\ values' = values
  BY DEF OpenScan
<1> HIDE DEF d, V
<1>13. SegmentInv(pages, size, [call EXCEPT ![t] = d], values)
  BY <1>1, <1>2, <1>8, <1>9, <1>10, <1>11, ScanInv DEF V
<1> QED
  BY <1>3, <1>12, <1>13

LEMMA CloseScanStep ==
  ASSUME Inv, NEW t \in Threads, CloseScan(t)
  PROVE  SegmentInv(pages', size', call', values')
<1>1. SegmentInv(pages, size, call, values) /\ OpOK(call[t])
  BY InvFacts
<1>2. call[t].op = "tablescan"
  BY <1>1 DEF CloseScan, At, OpOK
<1>3. /\ call' = [call EXCEPT ![t] = Idle]
      /\ pages' = pages /\ size' = size /\ values' = values
  BY DEF CloseScan
<1>4. /\ Idle \in Call /\ Idle.op = "none" /\ Idle.pc = "idle" /\ Idle.tids = << >> /\ OpOK(Idle)
      /\ Idle.due = {}
  BY IdleCall DEF LocalsOK
<1>5. SegmentInv(pages, size, [call EXCEPT ![t] = Idle], values)
  BY <1>1, <1>2, <1>4, ScanInv
<1> QED
  BY <1>3, <1>5

-----------------------------------------------------------------------------
LEMMA NextRecordIs ==
  ASSUME NEW s \in Scans, NEW R
  PROVE  LET i == NextRecord(s, R)
         IN  /\ i \in Nat /\ i <= s.slotCount
             /\ i < s.slotCount => i \in R /\ s.slotID <= i
             /\ \A k \in R \cap Nat : s.slotID <= k /\ k < s.slotCount => i <= k
<1> DEFINE a == s.slotID
           n == s.slotCount
           S == {i \in a..(n - 1) : i \in R} \cup {n}
<1>1. a \in Nat /\ n \in Nat
  BY DEF Scans
<1> HIDE DEF a, n
<1>2. S \in SUBSET (0..n) /\ S # {}
  BY <1>1
<1>3. Min(S) \in S /\ \A y \in S : Min(S) <= y
  <2> HIDE DEF S
  <2> QED
    BY <1>1, <1>2, MinIs
<1>4. NextRecord(s, R) = Min(S)
  BY DEF NextRecord, a, n
<1>5. \A k \in R \cap Nat : a <= k /\ k < n => k \in S
  BY <1>1
<1>6. Min(S) \in Nat /\ Min(S) <= n /\ (Min(S) < n => Min(S) \in R /\ a <= Min(S))
  BY <1>1, <1>3
<1> HIDE DEF S
<1> QED
  BY <1>3, <1>4, <1>5, <1>6 DEF a, n

\* The positions of a scan.
LEMMA ScanFacts ==
  ASSUME NEW s \in Scans
  PROVE  /\ s.bf \in Int /\ s.pageID \in Int /\ s.lastID \in Int
         /\ s.slotCount \in Nat /\ s.slotID \in Nat
         /\ LET u == Unfixed(s)
            IN  /\ u \in Scans /\ u.bf = NoFrame /\ u.pageID = s.pageID /\ u.lastID = s.lastID
         /\ \A i \in Nat : LET w == Past(s, i)
                           IN  /\ w \in Scans /\ w.bf = s.bf /\ w.pageID = s.pageID
                               /\ w.lastID = s.lastID /\ w.slotCount = s.slotCount
                               /\ w.slotID = i + 1
<1>1. NoFrame \in Int
  BY DEF NoFrame
<1> HIDE DEF NoFrame
<1> QED
  BY <1>1 DEF Scans, Unfixed, Past

LEMMA LoadedIs ==
  ASSUME NEW s \in Scans, NEW sz \in Nat, PositionOK(s, sz), ~AtEnd(s), NEW n \in Nat
  PROVE  LET p == PageOf(s)
             w == Loaded(s, n)
         IN  /\ p \in Nat /\ p < sz
             /\ w \in Scans /\ w.bf = p /\ w.lastID = s.lastID /\ w.pageID \in Nat
             /\ w.bf \in 0..(sz - 1)
             /\ \A z : /\ Ahead(s, z)
                       /\ z.pageID \in Nat /\ z.slotID \in Nat
                       /\ z.pageID = p => z.slotID < n
                       => Ahead(w, z)
<1>0. s.bf \in Int /\ s.pageID \in Int /\ s.lastID \in Int /\ s.pageID \in Nat
  BY ScanFacts DEF PositionOK
<1>1. CASE s.bf = NoFrame
  <2>1. s.pageID <= s.lastID /\ s.lastID < sz
    BY <1>0, <1>1 DEF AtEnd, PositionOK
  <2>0. PICK q \in Nat : q = s.pageID + 1
    BY <1>0
  <2>2. PICK w : w = [s EXCEPT !.bf = s.pageID, !.slotCount = n, !.slotID = 0, !.pageID = q]
    OBVIOUS
  <2>3. w = Loaded(s, n) /\ PageOf(s) = s.pageID
    BY <1>1, <2>0, <2>2 DEF Loaded, PageOf
  <2>4. /\ w \in Scans /\ w.bf = s.pageID /\ w.slotCount = n /\ w.slotID = 0
        /\ w.pageID = s.pageID + 1 /\ w.lastID = s.lastID
    <3>1. /\ w \in Scans /\ w.bf = s.pageID /\ w.slotCount = n /\ w.slotID = 0
          /\ w.pageID = q /\ w.lastID = s.lastID
      <4>1. PICK b \in Int : b = s.pageID
        BY <1>0
      <4>2. w = [s EXCEPT !.bf = b, !.slotCount = n, !.slotID = 0, !.pageID = q]
        BY <2>2, <4>1
      <4>3. w.bf = b /\ w.slotCount = n /\ w.slotID = 0 /\ w.pageID = q /\ w.lastID = s.lastID
        BY <4>2 DEF Scans
      <4>4. w \in Scans
        <5>1. PICK s1 : s1 = [s EXCEPT !.bf = b, !.slotCount = n]
          OBVIOUS
        <5>2. PICK s2 : s2 = [s1 EXCEPT !.slotID = 0]
          OBVIOUS
        <5>3. s1 \in Scans
          BY <5>1 DEF Scans
        <5>4. s2 \in Scans
          BY <5>2, <5>3 DEF Scans
        <5>5. w = [s2 EXCEPT !.pageID = q]
          BY <4>2, <5>1, <5>2 DEF Scans
        <5> QED
          BY <5>4, <5>5 DEF Scans
      <4> QED
        BY <4>1, <4>3, <4>4
    <3> QED
      BY <2>0, <3>1
  <2>5. ASSUME NEW z, Ahead(s, z), z.pageID \in Nat, z.slotID \in Nat,
               z.pageID = s.pageID => z.slotID < n
        PROVE  Ahead(w, z)
    <3>1. z.pageID >= s.pageID
      <4>1. z.pageID # s.bf
        BY <1>1, <2>5 DEF NoFrame
      <4> QED
        BY <2>5, <4>1 DEF Ahead
    <3>2. CASE z.pageID = s.pageID
      BY <2>4, <2>5, <3>2 DEF Ahead
    <3>3. CASE z.pageID # s.pageID
      <4>1. z.pageID >= s.pageID + 1
        BY <1>0, <2>5, <3>1, <3>3
      <4> QED
        BY <2>4, <2>5, <4>1 DEF Ahead
    <3> QED
      BY <3>2, <3>3
  <2>6. s.pageID < sz /\ s.pageID \in 0..(sz - 1) /\ s.pageID + 1 \in Nat
    BY <1>0, <2>1
  <2> QED
    BY <1>0, <2>3, <2>4, <2>5, <2>6
<1>2. CASE s.bf # NoFrame
  <2>1. Loaded(s, n) = s /\ PageOf(s) = s.bf
    BY <1>2 DEF Loaded, PageOf
  <2>2. s.bf \in 0..(sz - 1)
    BY <1>2 DEF PositionOK
  <2> QED
    BY <1>0, <2>1, <2>2
<1> QED
  BY <1>1, <1>2

\* Two TIDs do not lead to one record.
LEMMA FollowOne ==
  ASSUME NEW V, NEW cs, NEW vs, Linked(V, cs, vs), NEW x \in DOMAIN vs, NEW y \in DOMAIN vs,
         Follow(V, x) = Follow(V, y)
  PROVE  x = y
<1>1. /\ x \in RootsIn(cs, vs) /\ y \in RootsIn(cs, vs)
      /\ IsWay(V[x]) => x \in Live(V, LeavingIn(cs)) /\ V[x].to \in TIDs \ RootsIn(cs, vs)
      /\ IsWay(V[y]) => y \in Live(V, LeavingIn(cs)) /\ V[y].to \in TIDs \ RootsIn(cs, vs)
  BY RootFacts
<1>2. \A a, b \in Live(V, LeavingIn(cs)) : V[a].to = V[b].to => a = b
  BY DEF Linked, Forest
<1> QED
  BY <1>1, <1>2 DEF Follow

\* What is due is there.
LEMMA DueThere ==
  ASSUME Inv, NEW z \in TIDs, NEW x \in DOMAIN values,
         Follow(View(pages), x) = z, Untouched(call, x)
  PROVE  LET P == pages[z.pageID]
             s == P.slots[z.slotID]
         IN  /\ PageOK(P) /\ z.pageID \in Nat /\ z.slotID \in Nat /\ z.slotID \in SlotIDs
             /\ s.offset >= 2 /\ z.slotID < P.header.slotCount
             /\ ReadRecord(P, s) = values[x]
<1> DEFINE P == pages[z.pageID]
           s == P.slots[z.slotID]
           V == View(pages)
<1>1. Linked(V, call, values) /\ PagesOK(pages, size)
  BY InvFacts
<1>2. V[z] = Rec(values[x])
  BY <1>1 DEF Linked, Contents, Leads
<1>3. PageOK(P) /\ z.pageID \in Nat /\ z.slotID \in SlotIDs /\ z.pageID \in PageIDs
  BY <1>1, TidParts, PageRange DEF PagesOK
<1>4. IsRec(V[z])
  BY <1>2 DEF Rec, IsRec
<1>5. ~IsFree(s) /\ ~IsIndirection(s) /\ V[z] = Rec(ReadRecord(P, s))
  BY <1>4, ViewIs
<1>6. /\ z.slotID \in Nat /\ s.offset \in Nat /\ z.slotID < P.header.slotCount
  BY <1>3, <1>5, PageFacts
<1>7. s.offset >= 2
  BY <1>5, <1>6 DEF IsFree, IsIndirection
<1>8. ReadRecord(P, s) = values[x]
  BY <1>2, <1>5 DEF Rec
<1> QED
  BY <1>3, <1>6, <1>7, <1>8

-----------------------------------------------------------------------------
LEMMA NextStepStep ==
  ASSUME Inv, NEW t \in Threads, NextStep(t)
  PROVE  /\ SegmentInv(pages', size', call', values')
         /\ call'[t].pc = "scanned" =>
               \A x \in DOMAIN values : Home(x) \in call[t].due \ call'[t].due =>
                  call'[t].answer = values[x]
<1> DEFINE c == call[t]
           d == call'[t]
           p == PageOf(c.scan)
           P == pages[p]
           w == Loaded(c.scan, P.header.slotCount)
           R == {k \in SlotIDs : P.slots[k].offset >= 2}
           i == NextRecord(w, R)
           y == [pageID |-> p, slotID |-> i]
           V == View(pages)
<1>1. /\ call \in [Threads -> Call] /\ size \in Nat /\ PagesOK(pages, size) /\ c \in Call
      /\ Linked(V, call, values) /\ SegmentInv(pages, size, call, values) /\ OpOK(c)
      /\ size \in 0..Cardinality(PageIDs)
  BY InvFacts
<1>2. c.op = "tablescan" /\ ~AtEnd(c.scan)
  BY <1>1 DEF NextStep, OpOK
<1>3. /\ c.scan \in Scans /\ c.due \subseteq TIDs /\ c.tids = << >> /\ "tablescan" \in Ops[t]
      /\ PositionOK(c.scan, size) /\ DueOK(V, call, values, c)
  <2>1. ScansOK(V, call, values, size) /\ Calls(call, values)
    BY InvFacts
  <2> QED
    BY <1>1, <1>2, <2>1, CallTypes DEF ScansOK, Calls, LocalsOK, TidsOK
<1>4. p \in Nat /\ p < size
  <2>1. PICK n \in Nat : TRUE
    OBVIOUS
  <2> QED
    BY <1>1, <1>2, <1>3, <2>1, LoadedIs
<1>5. p \in PageIDs /\ PageOK(P)
  BY <1>1, <1>4, SizeRange DEF PagesOK
<1>6. P \in Page /\ P.header.slotCount \in Nat
  BY <1>5, PageFacts
<1>7. /\ w \in Scans /\ w.bf = p /\ w.lastID = c.scan.lastID /\ w.pageID \in Nat
      /\ w.bf \in 0..(size - 1)
      /\ \A z : /\ Ahead(c.scan, z)
                /\ z.pageID \in Nat /\ z.slotID \in Nat
                /\ z.pageID = p => z.slotID < P.header.slotCount
                => Ahead(w, z)
  BY <1>1, <1>2, <1>3, <1>6, LoadedIs
<1>8. /\ i \in Nat /\ i <= w.slotCount
      /\ i < w.slotCount => i \in R
      /\ \A k \in R \cap Nat : w.slotID <= k /\ k < w.slotCount => i <= k
  BY <1>7, NextRecordIs
<1> HIDE DEF w, i
<1>9. /\ w.pageID \in Int /\ w.lastID \in Int /\ w.slotCount \in Nat /\ w.slotID \in Nat
  BY <1>7, ScanFacts
\* What is due lies ahead of the position reached, or is the record returned.
<1>10. ASSUME NEW z \in c.due
       PROVE  /\ Ahead(w, z) /\ z \in TIDs
              /\ z.pageID = p => z.slotID \in R \cap Nat
              /\ z.pageID = p /\ z.slotID = i => z = y
              /\ \E x \in DOMAIN values : /\ Follow(V, x) = z /\ Untouched(call, x)
                                          /\ z = y => ReadRecord(P, P.slots[i]) = values[x]
  <2>1. PICK x \in DOMAIN values : Follow(V, x) = z /\ Untouched(call, x)
    BY <1>3 DEF DueOK
  <2>2. z \in TIDs /\ Ahead(c.scan, z)
    BY <1>3 DEF DueOK
  <2>3. /\ z.pageID \in Nat /\ z.slotID \in Nat /\ z.slotID \in SlotIDs
        /\ z.pageID = p => P.slots[z.slotID].offset >= 2 /\ z.slotID < P.header.slotCount
        /\ ReadRecord(pages[z.pageID], pages[z.pageID].slots[z.slotID]) = values[x]
    BY <2>1, <2>2, DueThere
  <2>4. Ahead(w, z)
    BY <1>7, <2>2, <2>3
  <2>5. z.pageID = p /\ z.slotID = i => z = y
    BY <2>2, TidParts
  <2>6. z = y => z.pageID = p /\ z.slotID = i
    OBVIOUS
  <2> QED
    BY <2>1, <2>2, <2>3, <2>4, <2>5, <2>6
<1>11. pages' = pages /\ size' = size /\ values' = values
  BY DEF NextStep
<1>12. call' = [call EXCEPT ![t] =
          CASE i = w.slotCount -> [c EXCEPT !.scan = Unfixed(w), !.pc = "next", !.answer = << >>]
            [] i < w.slotCount /\ P.slots[i].length # RecordLength ->
                 [c EXCEPT !.scan = w, !.pc = "undefined"]
            [] OTHER -> [c EXCEPT !.scan = Past(w, i), !.pc = "scanned",
                                  !.answer = ReadRecord(P, P.slots[i]), !.due = c.due \ {y}]]
  BY DEF NextStep, Kept, w, i
<1>19. i = w.slotCount => call'[t] = [c EXCEPT !.scan = Unfixed(w), !.pc = "next", !.answer = << >>]
  <2>1. PICK a1, a2, a3 : /\ a1 = [c EXCEPT !.scan = Unfixed(w), !.pc = "next", !.answer = << >>]
                          /\ a2 = [c EXCEPT !.scan = w, !.pc = "undefined"]
                          /\ a3 = [c EXCEPT !.scan = Past(w, i), !.pc = "scanned",
                                            !.answer = ReadRecord(P, P.slots[i]), !.due = c.due \ {y}]
    OBVIOUS
  <2>2. call' = [call EXCEPT ![t] = CASE i = w.slotCount -> a1
                                      [] i < w.slotCount /\ P.slots[i].length # RecordLength -> a2
                                      [] OTHER -> a3]
    BY <1>12, <2>1
  <2>3. i = w.slotCount => call'[t] = a1
    BY <1>1, <1>8, <1>9, <2>2
  <2> QED
    BY <2>1, <2>3
<1>13. call' = [call EXCEPT ![t] = d]
  BY <1>1, <1>12
<1>14. PositionOK(w, size)
  BY <1>3, <1>7 DEF PositionOK
\* What is left to show of each of the three outcomes.
<1>15. ASSUME d \in Call, d.op = "tablescan", d.pc \in {"next", "undefined", "scanned"},
              d.tids = << >>, PositionOK(d.scan, size), d.due \subseteq c.due,
              \A z \in d.due : Ahead(d.scan, z)
       PROVE  SegmentInv(pages, size, [call EXCEPT ![t] = d], values)
  <2>1. OpOK(d)
    BY <1>15 DEF OpOK
  <2>2. \A z \in d.due : Ahead(d.scan, z) /\ \E x \in DOMAIN values :
                            Follow(V, x) = z /\ Untouched(call, x)
    BY <1>10, <1>15
  <2> HIDE DEF d, V
  <2> QED
    BY <1>1, <1>2, <1>3, <1>15, <2>1, <2>2, ScanInv DEF V
<1>16. CASE i = w.slotCount
  <2>1. d = [c EXCEPT !.scan = Unfixed(w), !.pc = "next", !.answer = << >>]
    BY <1>16, <1>19
  <2>2. Unfixed(w) \in Scans
    BY <1>7, ScanFacts
  <2>3. /\ d \in Call /\ d.op = "tablescan" /\ d.pc = "next" /\ d.tids = << >>
        /\ d.scan = Unfixed(w) /\ d.due = c.due
    <3>0. << >> \in Seq(Units \cup {Junk})
      OBVIOUS
    <3>1. PICK a \in Seq(Units \cup {Junk}) : a = << >>
      BY <3>0
    <3>2. d = [c EXCEPT !.scan = Unfixed(w), !.pc = "next", !.answer = a]
      BY <2>1, <3>1
    <3> HIDE DEF c, d
    <3> QED
      BY <1>1, <1>2, <1>3, <2>2, <3>2 DEF Call, Labels
  <2>4. /\ Unfixed(w).bf = NoFrame /\ Unfixed(w).pageID = w.pageID
        /\ Unfixed(w).lastID = w.lastID
    BY <1>7, ScanFacts
  <2>5. PositionOK(d.scan, size)
    BY <1>14, <2>3, <2>4 DEF PositionOK
  <2>6. ASSUME NEW z \in d.due PROVE Ahead(d.scan, z)
    <3>1. Ahead(w, z) /\ (z.pageID = p => z.slotID \in R \cap Nat)
      BY <1>10, <2>3, <2>6
    <3>2. ~(z.pageID = w.bf /\ w.slotID <= z.slotID /\ z.slotID < w.slotCount)
      BY <1>7, <1>8, <1>9, <1>16, <3>1
    <3> QED
      BY <2>3, <2>4, <3>1, <3>2 DEF Ahead
  <2> QED
    BY <1>11, <1>13, <1>15, <2>3, <2>5, <2>6
<1>17. CASE i # w.slotCount /\ P.slots[i].length # RecordLength
  <2>0. i < w.slotCount
    BY <1>8, <1>9, <1>17
  <2>1. d = [c EXCEPT !.scan = w, !.pc = "undefined"]
    BY <1>1, <1>12, <1>17, <2>0
  <2>3. /\ d \in Call /\ d.op = "tablescan" /\ d.pc = "undefined" /\ d.tids = << >>
        /\ d.scan = w /\ d.due = c.due
    <3> HIDE DEF c, d
    <3> QED
      BY <1>1, <1>2, <1>3, <1>7, <2>1 DEF Call, Labels
  <2>4. \A z \in d.due : Ahead(d.scan, z)
    BY <1>10, <2>3
  <2> QED
    BY <1>11, <1>13, <1>14, <1>15, <2>3, <2>4
<1>18. CASE i # w.slotCount /\ P.slots[i].length = RecordLength
  <2>0. i < w.slotCount /\ i \in R
    BY <1>8, <1>9, <1>18
  <2>1. d = [c EXCEPT !.scan = Past(w, i), !.pc = "scanned",
                      !.answer = ReadRecord(P, P.slots[i]), !.due = c.due \ {y}]
    BY <1>1, <1>12, <1>18, <2>0
  <2>2. ReadRecord(P, P.slots[i]) \in Seq(Units \cup {Junk})
    <3>1. P.slots[i] \in Slot
      BY <1>6, <2>0 DEF Page
    <3> QED
      BY <1>6, <3>1, ReadType
  <2>3. /\ Past(w, i) \in Scans /\ Past(w, i).bf = w.bf /\ Past(w, i).pageID = w.pageID
        /\ Past(w, i).lastID = w.lastID /\ Past(w, i).slotCount = w.slotCount
        /\ Past(w, i).slotID = i + 1
    BY <1>7, <1>8, ScanFacts
  <2>4. /\ d \in Call /\ d.op = "tablescan" /\ d.pc = "scanned" /\ d.tids = << >>
        /\ d.scan = Past(w, i) /\ d.due = c.due \ {y} /\ d.answer = ReadRecord(P, P.slots[i])
    <3>1. PICK a \in Seq(Units \cup {Junk}) : a = ReadRecord(P, P.slots[i])
      BY <2>2
    <3>2. PICK due : due = c.due \ {y}
      OBVIOUS
    <3>3. due \subseteq TIDs
      BY <1>3, <3>2
    <3>4. d = [c EXCEPT !.scan = Past(w, i), !.pc = "scanned", !.answer = a, !.due = due]
      BY <2>1, <3>1, <3>2
    <3>5. /\ d \in Call /\ d.op = "tablescan" /\ d.pc = "scanned" /\ d.tids = << >>
          /\ d.scan = Past(w, i) /\ d.due = due /\ d.answer = a
      <4> HIDE DEF c, d
      <4> QED
        BY <1>1, <1>2, <1>3, <2>3, <3>3, <3>4 DEF Call, Labels
    <3> QED
      BY <3>1, <3>2, <3>5
  <2>5. PositionOK(d.scan, size)
    BY <1>14, <2>3, <2>4 DEF PositionOK
  <2>6. ASSUME NEW z \in d.due PROVE Ahead(d.scan, z)
    <3>1. /\ Ahead(w, z) /\ (z.pageID = p => z.slotID \in R \cap Nat) /\ z # y
          /\ (z.pageID = p /\ z.slotID = i => z = y)
      BY <1>10, <2>4, <2>6
    <3>2. z.pageID = w.bf /\ w.slotID <= z.slotID /\ z.slotID < w.slotCount => i + 1 <= z.slotID
      BY <1>7, <1>8, <1>9, <3>1
    <3> QED
      BY <2>3, <2>4, <3>1, <3>2 DEF Ahead
  <2>7. ASSUME NEW x \in DOMAIN values, Home(x) \in c.due \ d.due
        PROVE  d.answer = values[x]
    <3>1. x \in TIDs
      BY <1>1 DEF Linked, Calls
    <3>2. Home(x) = y /\ Home(x) = Follow(V, x) /\ y \in c.due
      BY <2>4, <2>7, <3>1, HomeIs
    <3>3. PICK x2 \in DOMAIN values : /\ Follow(V, x2) = y
                                      /\ ReadRecord(P, P.slots[i]) = values[x2]
      BY <1>10, <3>2
    <3>4. x2 = x
      BY <1>1, <3>2, <3>3, FollowOne
    <3> QED
      BY <2>4, <3>3, <3>4
  <2> QED
    BY <1>11, <1>13, <1>15, <2>4, <2>5, <2>6, <2>7
<1> QED
  BY <1>16, <1>17, <1>18

-----------------------------------------------------------------------------
(***************************************************************************)
(* A call begins or returns.                                               *)
(***************************************************************************)
LEMMA BeginFacts ==
  ASSUME Inv, NEW t \in Threads, NEW op \in AllOps, NEW tids \in Seq(TIDs), NEW r \in Seq(Units),
         NEW label \in Labels, Begin(t, op, tids, r, label)
  PROVE  LET d == call'[t]
         IN  /\ call[t].pc = "idle" /\ op \in Ops[t]
             /\ call' \in [Threads -> Call] /\ Beside(call, call', t)
             /\ d \in Call /\ d.pc = label /\ d.op = op /\ d.tids = tids /\ d.rec = r
             /\ d.page = 0 /\ d.due = {}
             /\ \A u \in Threads \ {t} : /\ call'[u].scan = call[u].scan
                                         /\ call'[u].due = call[u].due \ Touched(op, tids)
             /\ pages' = pages /\ size' = size
<1> DEFINE d == call'[t]
           due(u) == call[u].due \ Touched(op, tids)
<1>1. call \in [Threads -> Call]
  BY InvFacts
<1>2. /\ call' = [u \in Threads |->
                    IF u = t THEN [Idle EXCEPT !.pc = label, !.op = op, !.tids = tids, !.rec = r]
                             ELSE [call[u] EXCEPT !.due = due(u)]]
      /\ call[t].pc = "idle" /\ op \in Ops[t] /\ pages' = pages /\ size' = size
  BY DEF Begin, At
<1>3. d = [Idle EXCEPT !.pc = label, !.op = op, !.tids = tids, !.rec = r]
  BY <1>2
<1>4. \A u \in Threads \ {t} : call'[u] = [call[u] EXCEPT !.due = due(u)]
  BY <1>2
<1>5. /\ d \in Call /\ d.pc = label /\ d.op = op /\ d.tids = tids /\ d.rec = r
      /\ d.page = 0 /\ d.due = {}
  <2>1. Idle \in Call /\ Idle.page = 0 /\ Idle.due = {}
    BY IdleCall
  <2> HIDE DEF d
  <2> QED
    BY <1>3, <2>1 DEF Call
<1>6. ASSUME NEW u \in Threads \ {t}
      PROVE  /\ call'[u] \in Call /\ Alike(call[u], call'[u]) /\ call'[u].scan = call[u].scan
             /\ call'[u].due = due(u)
  <2>1. PICK b : b = due(u)
    OBVIOUS
  <2>2. PICK c \in Call : c = call[u]
    BY <1>1
  <2>3. b \subseteq TIDs
    BY <2>1, <2>2 DEF Call
  <2>4. call'[u] = [c EXCEPT !.due = b]
    BY <1>4, <2>1, <2>2
  <2>5. PICK e : e = [c EXCEPT !.due = b]
    OBVIOUS
  <2>6. e \in Call /\ Alike(c, e) /\ e.scan = c.scan /\ e.due = b
    BY <2>3, <2>5 DEF Call, Alike
  <2> QED
    BY <2>1, <2>2, <2>4, <2>5, <2>6
<1>7. call' \in [Threads -> Call]
  <2> HIDE DEF d
  <2>1. \A u \in Threads : call'[u] \in Call
    BY <1>5, <1>6 DEF d
  <2>2. PICK g : g = [u \in Threads |->
                    IF u = t THEN [Idle EXCEPT !.pc = label, !.op = op, !.tids = tids, !.rec = r]
                             ELSE [call[u] EXCEPT !.due = due(u)]]
    OBVIOUS
  <2>3. g = [u \in Threads |-> g[u]]
    BY <2>2, Zenon
  <2>4. call' = g
    BY <1>2, <2>2, Zenon
  <2>5. \A u \in Threads : g[u] \in Call
    BY <2>1, <2>4
  <2> HIDE DEF due
  <2>6. g \in [Threads -> Call]
    BY <2>3, <2>5, Zenon
  <2> QED
    BY <2>4, <2>6
<1>8. Beside(call, call', t)
  BY <1>6 DEF Beside
<1> QED
  BY <1>2, <1>5, <1>6, <1>7, <1>8

LEMMA BeginInv ==
  ASSUME Inv, NEW t \in Threads, NEW op \in AllOps \ {"tablescan"}, NEW tids \in Seq(TIDs),
         NEW r \in Seq(Units), NEW label \in Labels, Begin(t, op, tids, r, label),
         label \notin {"compact", "place"},
         op \in {"update", "remove"} => tids # << >> /\ tids[1] \in DOMAIN values,
         Linked(View(pages), call', values'),
         IF op = "remove" THEN DOMAIN values' = DOMAIN values \ {tids[1]} ELSE values' = values
  PROVE  SegmentInv(pages', size', call', values')
<1> DEFINE V == View(pages)
<1>1. /\ call' \in [Threads -> Call] /\ Beside(call, call', t)
      /\ call'[t].pc = label /\ call'[t].op = op /\ call'[t].tids = tids
      /\ call'[t].page = 0 /\ call'[t].due = {}
      /\ \A u \in Threads \ {t} : /\ call'[u].scan = call[u].scan
                                  /\ call'[u].due = call[u].due \ Touched(op, tids)
      /\ pages' = pages /\ size' = size
  BY BeginFacts
<1>2. SegmentInv(pages, size, call, values) /\ size \in Nat /\ Linked(V, call, values)
  BY InvFacts
<1>3. RoomOK(call'[t], pages, size)
  BY <1>1, <1>2 DEF RoomOK
<1>4. ASSUME NEW u \in Threads \ {t}, NEW x \in DOMAIN values,
             Follow(V, x) \in call'[u].due, Untouched(call, x)
      PROVE  x \in DOMAIN values' /\ Untouched(call', x)
  <2>1. op \in {"update", "remove"} => x # tids[1]
    <3> SUFFICES ASSUME op \in {"update", "remove"}, x = tids[1] PROVE FALSE
      OBVIOUS
    <3>1. x \in TIDs
      BY <1>2, RootFacts
    <3>2. Follow(V, x) \in Touched(op, tids)
      BY <3>1, HomeIs DEF Touched
    <3> QED
      BY <1>1, <1>4, <3>2
  <2>2. x \in DOMAIN values'
    BY <2>1
  <2>3. \A v \in Threads \ {t} : call'[v].op = call[v].op /\ call'[v].tids = call[v].tids
    BY <1>1 DEF Beside, Alike
  <2>4. Untouched(call', x)
    BY <1>1, <1>4, <2>1, <2>3 DEF Untouched
  <2> QED
    BY <2>2, <2>4
<1>5. \A u \in Threads \ {t} : /\ call'[u].scan = call[u].scan /\ call'[u].due \subseteq call[u].due
                               /\ \A x \in DOMAIN values :
                                     Follow(V, x) \in call'[u].due /\ Untouched(call, x) =>
                                        x \in DOMAIN values' /\ Untouched(call', x)
  BY <1>1, <1>4
<1> HIDE DEF V
<1>6. SegmentInv(pages, size, call', values')
  BY <1>1, <1>2, <1>3, <1>5, ClientInv DEF V
<1> QED
  BY <1>1, <1>6

LEMMA InUseFacts ==
  ASSUME NEW t \in Threads, NEW x, x \notin InUse(t)
  PROVE  \A u \in Threads \ {t} : call[u].tids # << >> => call[u].tids[1] # x
BY DEF InUse

LEMMA InsertStep ==
  ASSUME Inv, NEW t \in Threads, NEW r \in Records, Insert(t, r)
  PROVE  SegmentInv(pages', size', call', values')
<1>1. /\ Begin(t, "insert", << >>, r, "scan") /\ values' = values
  BY DEF Insert
<1>2. /\ "insert" \in AllOps \ {"tablescan"} /\ "scan" \in Labels /\ << >> \in Seq(TIDs)
      /\ r \in Seq(Units)
  BY SegmentAssumption DEF AllOps, Labels
<1>3. /\ call[t].pc = "idle" /\ "insert" \in Ops[t]
      /\ call' \in [Threads -> Call] /\ Beside(call, call', t)
      /\ call'[t] \in Call /\ call'[t].pc = "scan" /\ call'[t].op = "insert"
      /\ call'[t].tids = << >> /\ call'[t].rec = r
  <2>1. PICK s \in Seq(TIDs) : s = << >>
    BY <1>2
  <2>2. PICK op \in AllOps : op = "insert"
    BY <1>2
  <2>3. PICK label \in Labels : label = "scan"
    BY <1>2
  <2>4. Begin(t, op, s, r, label)
    BY <1>1, <2>1, <2>2, <2>3
  <2>5. /\ call[t].pc = "idle" /\ op \in Ops[t]
        /\ call' \in [Threads -> Call] /\ Beside(call, call', t)
        /\ call'[t] \in Call /\ call'[t].pc = label /\ call'[t].op = op
        /\ call'[t].tids = s /\ call'[t].rec = r
    BY <1>2, <2>4, BeginFacts
  <2> QED
    BY <2>1, <2>2, <2>3, <2>5
<1>4. Linked(View(pages), call', values)
  BY <1>3, InvFacts, BeginsInsert
<1> QED
  BY <1>1, <1>2, <1>4, BeginInv

LEMMA LookupBegins ==
  ASSUME Inv, NEW t \in Threads, NEW x \in DOMAIN values, Lookup(t, x)
  PROVE  SegmentInv(pages', size', call', values')
<1>1. /\ Begin(t, "lookup", <<x>>, << >>, "lookup") /\ values' = values /\ x \notin InUse(t)
  BY DEF Lookup
<1>2. x \in TIDs
  BY InvFacts DEF Calls
<1>3. /\ "lookup" \in AllOps \ {"tablescan"} /\ "lookup" \in Labels /\ <<x>> \in Seq(TIDs)
      /\ << >> \in Seq(Units)
  BY <1>2 DEF AllOps, Labels
<1>4. /\ call[t].pc = "idle" /\ "lookup" \in Ops[t]
      /\ call' \in [Threads -> Call] /\ Beside(call, call', t)
      /\ call'[t] \in Call /\ call'[t].pc = "lookup" /\ call'[t].op = "lookup"
      /\ call'[t].tids = <<x>>
  <2>1. PICK s \in Seq(TIDs) : s = <<x>>
    BY <1>3
  <2>2. PICK b \in Seq(Units) : b = << >>
    BY <1>3
  <2>3. PICK op \in AllOps : op = "lookup"
    BY <1>3
  <2>4. PICK label \in Labels : label = "lookup"
    BY <1>3
  <2>5. Begin(t, op, s, b, label)
    BY <1>1, <2>1, <2>2, <2>3, <2>4
  <2>6. /\ call[t].pc = "idle" /\ op \in Ops[t]
        /\ call' \in [Threads -> Call] /\ Beside(call, call', t)
        /\ call'[t] \in Call /\ call'[t].pc = label /\ call'[t].op = op
        /\ call'[t].tids = s /\ call'[t].rec = b
    BY <2>5, BeginFacts
  <2> QED
    BY <2>1, <2>2, <2>3, <2>4, <2>6
<1>5. \A u \in Threads \ {t} : call[u].tids # << >> => call[u].tids[1] # x
  BY <1>1, InUseFacts
<1>6. Linked(View(pages), call', values)
  BY <1>4, <1>5, InvFacts, BeginsOn
<1> QED
  BY <1>1, <1>3, <1>6, BeginInv

LEMMA UpdateBegins ==
  ASSUME Inv, NEW t \in Threads, NEW x \in DOMAIN values, NEW r \in Records, Update(t, x, r)
  PROVE  SegmentInv(pages', size', call', values')
<1>1. /\ Begin(t, "update", <<x>>, r, "update") /\ values' = values /\ x \notin InUse(t)
  BY DEF Update
<1>2. x \in TIDs
  BY InvFacts DEF Calls
<1>3. /\ "update" \in AllOps \ {"tablescan"} /\ "update" \in Labels /\ <<x>> \in Seq(TIDs)
      /\ r \in Seq(Units) /\ <<x>> # << >> /\ <<x>>[1] = x
  BY <1>2, SegmentAssumption DEF AllOps, Labels
<1>4. /\ call[t].pc = "idle" /\ "update" \in Ops[t]
      /\ call' \in [Threads -> Call] /\ Beside(call, call', t)
      /\ call'[t] \in Call /\ call'[t].pc = "update" /\ call'[t].op = "update"
      /\ call'[t].tids = <<x>> /\ call'[t].rec = r
  <2>1. PICK s \in Seq(TIDs) : s = <<x>>
    BY <1>3
  <2>2. PICK b \in Seq(Units) : b = r
    BY <1>3
  <2>3. PICK op \in AllOps : op = "update"
    BY <1>3
  <2>4. PICK label \in Labels : label = "update"
    BY <1>3
  <2>5. Begin(t, op, s, b, label)
    BY <1>1, <2>1, <2>2, <2>3, <2>4
  <2>6. /\ call[t].pc = "idle" /\ op \in Ops[t]
        /\ call' \in [Threads -> Call] /\ Beside(call, call', t)
        /\ call'[t] \in Call /\ call'[t].pc = label /\ call'[t].op = op
        /\ call'[t].tids = s /\ call'[t].rec = b
    BY <2>5, BeginFacts
  <2> QED
    BY <2>1, <2>2, <2>3, <2>4, <2>6
<1>5. \A u \in Threads \ {t} : call[u].tids # << >> => call[u].tids[1] # x
  BY <1>1, InUseFacts
<1>6. Linked(View(pages), call', values)
  BY <1>4, <1>5, InvFacts, BeginsOn
<1> QED
  BY <1>1, <1>3, <1>6, BeginInv

LEMMA DeleteBegins ==
  ASSUME Inv, NEW t \in Threads, NEW x \in DOMAIN values, Delete(t, x)
  PROVE  SegmentInv(pages', size', call', values')
<1>1. /\ Begin(t, "remove", <<x>>, << >>, "remove") /\ x \notin InUse(t)
      /\ values' = [u \in DOMAIN values \ {x} |-> values[u]]
  BY DEF Delete
<1>2. x \in TIDs
  BY InvFacts DEF Calls
<1>3. /\ "remove" \in AllOps \ {"tablescan"} /\ "remove" \in Labels /\ <<x>> \in Seq(TIDs)
      /\ << >> \in Seq(Units) /\ <<x>> # << >> /\ <<x>>[1] = x
  BY <1>2 DEF AllOps, Labels
<1>4. /\ call[t].pc = "idle" /\ "remove" \in Ops[t]
      /\ call' \in [Threads -> Call] /\ Beside(call, call', t)
      /\ call'[t] \in Call /\ call'[t].pc = "remove" /\ call'[t].op = "remove"
      /\ call'[t].tids = <<x>>
  <2>1. PICK s \in Seq(TIDs) : s = <<x>>
    BY <1>3
  <2>2. PICK b \in Seq(Units) : b = << >>
    BY <1>3
  <2>3. PICK op \in AllOps : op = "remove"
    BY <1>3
  <2>4. PICK label \in Labels : label = "remove"
    BY <1>3
  <2>5. Begin(t, op, s, b, label)
    BY <1>1, <2>1, <2>2, <2>3, <2>4
  <2>6. /\ call[t].pc = "idle" /\ op \in Ops[t]
        /\ call' \in [Threads -> Call] /\ Beside(call, call', t)
        /\ call'[t] \in Call /\ call'[t].pc = label /\ call'[t].op = op
        /\ call'[t].tids = s /\ call'[t].rec = b
    BY <2>5, BeginFacts
  <2> QED
    BY <2>1, <2>2, <2>3, <2>4, <2>6
<1>5. \A u \in Threads \ {t} : call[u].tids # << >> => call[u].tids[1] # x
  BY <1>1, InUseFacts
<1>6. /\ DOMAIN values' = DOMAIN values \ {x}
      /\ \A z \in DOMAIN values' : values'[z] = values[z]
  BY <1>1
<1>7. Linked(View(pages), call', values')
  <2>1. Linked(View(pages), call, values)
    BY InvFacts
  <2>2. PICK w : w = values'
    OBVIOUS
  <2>3. PICK d \in Call : d = call'[t]
    BY <1>4
  <2>4. PICK cs2 \in [Threads -> Call] : cs2 = call'
    BY <1>4
  <2>5. /\ Beside(call, cs2, t) /\ d = cs2[t] /\ d.op = "remove" /\ d.pc = "remove"
        /\ d.tids = <<x>> /\ call[t].pc = "idle" /\ "remove" \in Ops[t]
    BY <1>4, <2>3, <2>4
  <2>6. Forgotten(values, w, x)
    BY <1>6, <2>2 DEF Forgotten
  <2>7. PICK V : V = View(pages)
    OBVIOUS
  <2>8. Linked(V, call, values) /\ call[t].pc = "idle"
    BY <2>1, <2>5, <2>7
  <2>9. Linked(V, cs2, w)
    BY <1>5, <2>5, <2>6, <2>8, BeginsRemove
  <2> QED
    BY <2>2, <2>4, <2>7, <2>9
<1> QED
  BY <1>1, <1>3, <1>6, <1>7, BeginInv

LEMMA ReturnStep ==
  ASSUME Inv, NEW t \in Threads, Return(t)
  PROVE  SegmentInv(pages', size', call', values')
<1> DEFINE c == call[t]
           V == View(pages)
<1>1. /\ SegmentInv(pages, size, call, values) /\ Linked(V, call, values)
      /\ call \in [Threads -> Call] /\ OpOK(c)
  BY InvFacts
<1>2. c.pc = "return" /\ call' = [call EXCEPT ![t] = Idle] /\ pages' = pages /\ size' = size
  BY DEF Return, At
<1>3. c.op = "insert" => values' = With(values, c.result, c.rec)
  BY DEF Return
<1>4. c.op = "update" => values' = [values EXCEPT ![c.tids[1]] = c.rec]
  BY DEF Return
<1>5. c.op \notin {"insert", "update"} => values' = values
  BY DEF Return
<1>6. /\ call' \in [Threads -> Call] /\ call'[t] = Idle /\ Beside(call, call', t)
      /\ c.op = "update" => c.tids[1] \in DOMAIN values
  <2>1. Linked(V, call, values) /\ call[t].pc = "return"
    BY <1>1, <1>2
  <2> HIDE DEF V
  <2>2. LET cs2 == [call EXCEPT ![t] = Idle]
        IN  cs2 \in [Threads -> Call] /\ cs2[t] = Idle /\ Beside(call, cs2, t)
    BY <2>1, ReturnFacts
  <2>3. call[t].op = "update" => call[t].tids[1] \in DOMAIN values
    BY <2>1, CallFacts DEF Linked, OwnOK, UpdateOK
  <2> QED
    BY <1>2, <2>2, <2>3
<1>7. DOMAIN values \subseteq DOMAIN values'
  BY <1>3, <1>4, <1>5 DEF With
<1>8. Linked(V, call', values')
  <2>1. CASE c.op = "insert"
    BY <1>1, <1>2, <1>3, <2>1, ReturnsInsert
  <2>2. CASE c.op = "update"
    <3>1. /\ DOMAIN values' = DOMAIN values /\ values'[call[t].tids[1]] = call[t].rec
          /\ \A z \in DOMAIN values \ {call[t].tids[1]} : values'[z] = values[z]
      BY <1>4, <1>6, <2>2
    <3> QED
      BY <1>1, <1>2, <2>2, <3>1, ReturnsUpdate
  <2>3. CASE c.op \notin {"insert", "update"}
    BY <1>1, <1>2, <1>5, <2>3, ReturnsOther
  <2> QED
    BY <2>1, <2>2, <2>3
<1>9. RoomOK(call'[t], pages, size)
  BY <1>6, IdleCall DEF RoomOK
<1>10. call'[t].op = "none" /\ call'[t].due = {}
  BY <1>6, IdleCall
<1>11. \A u \in Threads \ {t} : call'[u] = call[u]
  BY <1>1, <1>2
<1>12. \A x : Untouched(call, x) => Untouched(call', x)
  BY <1>10, <1>11 DEF Untouched
<1> HIDE DEF c, V
<1>13. \A u \in Threads \ {t} : /\ call'[u].scan = call[u].scan /\ call'[u].due \subseteq call[u].due
                                /\ \A x \in DOMAIN values :
                                      Follow(V, x) \in call'[u].due /\ Untouched(call, x) =>
                                         x \in DOMAIN values' /\ Untouched(call', x)
  BY <1>7, <1>11, <1>12
<1>14. SegmentInv(pages, size, call', values')
  BY <1>1, <1>6, <1>8, <1>9, <1>10, <1>13, ClientInv DEF V
<1> QED
  BY <1>2, <1>14

-----------------------------------------------------------------------------
(***************************************************************************)
(* The invariant holds, and what follows from it.                          *)
(***************************************************************************)
LEMMA InitInv ==
  ASSUME Init
  PROVE  Inv
<1>1. /\ pages = [p \in PageIDs |-> EmptyPage] /\ size = 0
      /\ holder = [p \in PageIDs |-> NoThread] /\ broken = {}
      /\ call = [t \in Threads |-> Idle] /\ values = << >>
  BY DEF Init
<1>2. DOMAIN values = {}
  BY <1>1
<1>3. PageOK(EmptyPage) /\ \A i \in SlotIDs : ViewOf(EmptyPage, i) = Void
  <2>1. PICK n \in Nat : n = 0
    OBVIOUS
  <2>2. HeaderSize + SlotSize + n <= BlockSize
    BY <2>1, SizesAssumption
  <2> QED
    BY <2>2, EmptyPageOK
<1>4. EmptyPage \in Page
  BY <1>3 DEF PageOK
<1>5. PagesOK(pages, size)
  BY <1>1, <1>3, <1>4 DEF PagesOK
<1>6. View(pages) = [x \in TIDs |-> Void]
  <2>1. \A x \in TIDs : ViewOf(pages[x.pageID], x.slotID) = Void
    BY <1>1, <1>3, TidParts
  <2> QED
    BY <2>1 DEF View
<1> DEFINE V == View(pages)
<1>7. V \in [TIDs -> Views] /\ \A x \in TIDs : IsVoid(V[x]) /\ ~IsWay(V[x])
  BY <1>6, ViewsFacts
<1>8. call \in [Threads -> Call] /\ \A t \in Threads : call[t] = Idle
  BY <1>1, IdleCall
<1>9. RootsIn(call, values) = {} /\ LeavingIn(call) = {} /\ DeepIn(call) = {}
  BY <1>2, <1>8, IdleCall DEF RootsIn, LeavingIn, DeepIn
<1> HIDE DEF V
<1>10. Forest(V, {}, {}, {})
  BY <1>7 DEF Forest, Live
<1>11. Calls(call, values)
  <2>1. \A t \in Threads : /\ LocalsOK(call[t]) /\ call[t].op = "none" /\ RootsOf(call[t]) = {}
                           /\ call[t].tids = << >>
    BY <1>8, IdleCall
  <2> QED
    BY <1>2, <1>8, <2>1 DEF Calls
<1>12. Contents(V, call, values)
  BY <1>2, <1>8, IdleCall DEF Contents
<1>13. Linked(V, call, values)
  BY <1>9, <1>10, <1>11, <1>12 DEF Linked
<1>14. \A t \in Threads : RoomOK(call[t], pages, size)
  BY <1>8, IdleCall DEF RoomOK
<1>15. ScansOK(V, call, values, size)
  BY <1>8, IdleCall DEF ScansOK
<1>16. size \in 0..Cardinality(PageIDs)
  BY <1>1, PageRange
<1>17. SegmentInv(pages, size, call, values)
  BY <1>5, <1>13, <1>14, <1>15, <1>16 DEF SegmentInv, V
<1>18. holder \in [PageIDs -> Threads \cup {NoThread}] /\ broken \in SUBSET PageIDs
  BY <1>1
<1> QED
  BY <1>17, <1>18 DEF Inv

Locks == /\ holder \in [PageIDs -> Threads \cup {NoThread}]
         /\ broken \in SUBSET PageIDs

\* What a thread does to the locks.
LEMMA LocksStep ==
  ASSUME Inv, NEW t \in Threads, Check(t) \/ Skip(t) \/ Free(t)
  PROVE  Locks'
<1>1. /\ holder \in [PageIDs -> Threads \cup {NoThread}] /\ broken \in SUBSET PageIDs
  BY DEF Inv
<1>2. CASE Check(t)
  <2>1. holder' \in {holder, [holder EXCEPT ![Current(t).pageID] = t]} /\ broken' = broken
    BY <1>2 DEF Check
  <2> QED
    BY <1>1, <2>1 DEF Locks
<1>3. CASE Skip(t)
  <2>1. holder' = [holder EXCEPT ![Outer(t).pageID] = NoThread] /\ broken' = broken
    BY <1>3 DEF Skip
  <2> QED
    BY <1>1, <2>1 DEF Locks
<1>4. CASE Free(t)
  <2> DEFINE p == Current(t).pageID
  <2>1. p \in PageIDs
    <3>1. call[t].tids \in Seq(TIDs) /\ Len(call[t].tids) = 2
      <4>1. call[t].pc = "free" /\ Linked(View(pages), call, values)
        BY <1>4, InvFacts DEF Free, At
      <4>2. call[t].tids \in Seq(TIDs) /\ TidsOK(call[t])
        BY <4>1, CallFacts
      <4> QED
        BY <4>1, <4>2 DEF TidsOK
    <3>2. Current(t) \in TIDs
      BY <3>1, TidsFacts DEF Current
    <3> QED
      BY <3>2, TidParts
  <2>2. /\ holder' = [holder EXCEPT ![p] = IF holder[p] = t THEN NoThread ELSE holder[p]]
        /\ broken' \in {broken, broken \cup {p}}
    BY <1>4 DEF Free
  <2> HIDE DEF p
  <2>3. holder[p] \in Threads \cup {NoThread}
    BY <1>1, <2>1
  <2> QED
    BY <1>1, <2>1, <2>2, <2>3 DEF Locks
<1> QED
  BY <1>2, <1>3, <1>4

LEMMA StepInv ==
  ASSUME OneWriter, Inv, NEW t \in Threads, Step(t)
  PROVE  Inv'
<1> DEFINE Other == UNCHANGED <<holder, broken>>
<1>1. Locks
  BY DEF Inv, Locks
<1>2. Other => Locks'
  BY <1>1 DEF Locks
<1>3. CASE ScanPage(t)
  BY <1>2, <1>3, ScanPageStep DEF ScanPage, Inv, Locks
<1>4. CASE ScanEnd(t)
  BY <1>2, <1>4, ScanEndStep DEF ScanEnd, Inv, Locks
<1>5. CASE Compact(t)
  BY <1>2, <1>5, CompactStep DEF Compact, Inv, Locks
<1>6. CASE Place(t)
  BY <1>2, <1>6, PlaceStep DEF Place, Inv, Locks
<1>7. CASE RemoveStep(t)
  BY <1>2, <1>7, RemoveStepStep DEF RemoveStep, Inv, Locks
<1>8. CASE LookupStep(t)
  BY <1>2, <1>8, LookupStepStep DEF LookupStep, Inv, Locks
<1>9. CASE UpdateStep(t)
  BY <1>2, <1>9, UpdateStepStep DEF UpdateStep, Inv, Locks
<1>10. CASE Point(t)
  BY <1>2, <1>10, PointStep DEF Point, Inv, Locks
<1>11. CASE Check(t)
  BY <1>11, LocksStep, CheckStep DEF Inv, Locks
<1>12. CASE Skip(t)
  BY <1>12, LocksStep, SkipStep DEF Inv, Locks
<1>13. CASE Free(t)
  BY <1>13, LocksStep, FreeStep DEF Inv, Locks
<1>14. CASE OpenScan(t)
  BY <1>2, <1>14, OpenScanStep DEF OpenScan, Inv, Locks
<1>15. CASE NextStep(t)
  BY <1>2, <1>15, NextStepStep DEF NextStep, Inv, Locks
<1>16. CASE CloseScan(t)
  BY <1>2, <1>16, CloseScanStep DEF CloseScan, Inv, Locks
<1>17. CASE Return(t)
  BY <1>2, <1>17, ReturnStep DEF Return, Inv, Locks
<1> QED
  BY <1>3, <1>4, <1>5, <1>6, <1>7, <1>8, <1>9, <1>10, <1>11, <1>12, <1>13, <1>14, <1>15, <1>16,
     <1>17 DEF Step

LEMMA NextInv ==
  ASSUME OneWriter, Inv, [Next]_vars
  PROVE  Inv'
<1>1. CASE UNCHANGED vars
  BY <1>1 DEF vars, Inv
<1>2. ASSUME NEW t \in Threads, NEW r \in Records, Insert(t, r)
      PROVE  Inv'
  BY <1>2, InsertStep DEF Insert, Begin, Inv
<1>3. ASSUME NEW t \in Threads, NEW x \in DOMAIN values, Delete(t, x)
      PROVE  Inv'
  BY <1>3, DeleteBegins DEF Delete, Begin, Inv
<1>4. ASSUME NEW t \in Threads, NEW x \in DOMAIN values, Lookup(t, x)
      PROVE  Inv'
  BY <1>4, LookupBegins DEF Lookup, Begin, Inv
<1>5. ASSUME NEW t \in Threads, NEW x \in DOMAIN values, NEW r \in Records, Update(t, x, r)
      PROVE  Inv'
  BY <1>5, UpdateBegins DEF Update, Begin, Inv
<1>6. ASSUME NEW t \in Threads, Step(t)
      PROVE  Inv'
  BY <1>6, StepInv
<1> QED
  BY <1>1, <1>2, <1>3, <1>4, <1>5, <1>6 DEF Next

(***************************************************************************)
(* The inductive invariant: what is on each page, how the slots lead to    *)
(* each other and to the records of the clients, what each call has come   *)
(* to, and what is ahead of each table scan.                               *)
(***************************************************************************)
THEOREM SegmentInvariant ==
  ASSUME OneWriter
  PROVE  Spec => []Inv
<1>1. Init => Inv
  BY InitInv
<1>2. Inv /\ [Next]_vars => Inv'
  BY NextInv
<1> QED
  BY <1>1, <1>2, PTL DEF Spec

\* The variables are what they are said to be; a full segment makes no page.
THEOREM TypeCorrect ==
  ASSUME OneWriter
  PROVE  Spec => []TypeOK
<1>1. Inv => TypeOK
  BY InvFacts DEF TypeOK, Inv, Calls
<1> QED
  BY <1>1, SegmentInvariant, PTL

LEMMA PagesInUse ==
  ASSUME Inv, NEW p \in 0..(size - 1)
  PROVE  PageOK(pages[p])
<1>1. p \in Nat /\ p < Cardinality(PageIDs)
  BY InvFacts, PageRange
<1>2. p \in PageIDs
  BY <1>1, PageRange
<1> QED
  BY <1>2, InvFacts DEF PagesOK

(***************************************************************************)
(* The header's free space is what slots and records leave of the page,    *)
(* through every insert, removal, update and compaction.                   *)
(***************************************************************************)
THEOREM SpaceIsAccounted ==
  ASSUME OneWriter
  PROVE  Spec => []SpaceAccounted
<1>1. Inv => SpaceAccounted
  BY PagesInUse, PageSpace DEF SpaceAccounted
<1> QED
  BY <1>1, SegmentInvariant, PTL

\* The cached first free slot is the first free slot.
THEOREM FirstFreeIsRight ==
  ASSUME OneWriter
  PROVE  Spec => []FirstFreeRight
<1>1. Inv => FirstFreeRight
  BY PagesInUse, PageFirstFree DEF FirstFreeRight
<1> QED
  BY <1>1, SegmentInvariant, PTL

\* Records overlap neither each other nor the slots.
THEOREM RecordsLieApart ==
  ASSUME OneWriter
  PROVE  Spec => []RecordsApart
<1>1. ASSUME Inv, NEW p \in 0..(size - 1)
      PROVE  LET h == pages[p].header
             IN  /\ HeaderSize + SlotSize * h.slotCount <= h.dataStart
                 /\ \A i \in UsedSlots(pages[p]) :
                       Area(pages[p].slots[i]) \subseteq h.dataStart..(BlockSize - 1)
                 /\ \A i, j \in UsedSlots(pages[p]) :
                       i # j => Area(pages[p].slots[i]) \cap Area(pages[p].slots[j]) = {}
  BY <1>1, PagesInUse, PageApart
<1>2. Inv => RecordsApart
  BY <1>1 DEF RecordsApart
<1> QED
  BY <1>2, SegmentInvariant, PTL

-----------------------------------------------------------------------------
(***************************************************************************)
(* When nobody is at work, the records clients know of, and the slots      *)
(* their indirections lead to, are all there is.                           *)
(***************************************************************************)
LEMMA NothingLostInv ==
  ASSUME Inv
  PROVE  NothingLost
<1> DEFINE V == View(pages)
           D == DOMAIN values
<1> SUFFICES ASSUME \A t \in Threads : call[t].pc = "idle"
             PROVE  /\ Taken = D \cup UNION {Targets(x) : x \in D}
                    /\ \A x \in D : \A y \in Targets(x) :
                          /\ y \notin D
                          /\ ~IsIndirection(SlotOf(y))
                          /\ \A z \in D \ {x} : y \notin Targets(z)
  BY DEF NothingLost, At
<1>1. /\ size \in Nat /\ PagesOK(pages, size)
      /\ Forest(V, RootsIn(call, values), LeavingIn(call), DeepIn(call))
  BY InvFacts DEF Linked
<1>2. RootsIn(call, values) = D /\ LeavingIn(call) = {} /\ DeepIn(call) = {}
  BY DEF RootsIn, LeavingIn, DeepIn, RootsOf, LeavingOf, DeepOf
<1>3. Forest(V, D, {}, {})
  BY <1>1, <1>2
<1>4. \A x \in TIDs : /\ IsVoid(V[x]) <=> IsFree(SlotOf(x))
                      /\ IsWay(V[x]) <=> IsIndirection(SlotOf(x))
                      /\ IsWay(V[x]) => V[x].to = SlotOf(x).target
  BY ViewIs DEF SlotOf
<1>5. \A x \in TIDs : ~IsVoid(V[x]) => x.pageID < size
  BY <1>1, InUsePage
<1> HIDE DEF V, D
<1>6. D \subseteq TIDs /\ \A x \in D : ~IsVoid(V[x])
  BY <1>3 DEF Forest
<1>7. \A x \in TIDs : IsWay(V[x]) => /\ V[x].to \in TIDs \ D /\ ~IsVoid(V[V[x].to])
                                     /\ ~IsWay(V[V[x].to])
  BY <1>3 DEF Forest, Live
<1>8. \A x, y \in TIDs : IsWay(V[x]) /\ IsWay(V[y]) /\ V[x].to = V[y].to => x = y
  BY <1>3 DEF Forest, Live
<1>9. \A x \in TIDs \ D : ~IsVoid(V[x]) => \E y \in TIDs : IsWay(V[y]) /\ V[y].to = x
  BY <1>3 DEF Forest, Live
<1>10. \A x \in TIDs : Targets(x) = IF IsWay(V[x]) THEN {V[x].to} ELSE {}
  BY <1>4 DEF Targets
<1>11. Taken = {x \in TIDs : ~IsVoid(V[x])}
  BY <1>4, <1>5 DEF Taken
<1>12. ASSUME NEW x \in Taken, x \notin D
       PROVE  x \in UNION {Targets(y) : y \in D}
  <2>1. PICK y \in TIDs : IsWay(V[y]) /\ V[y].to = x
    BY <1>9, <1>11, <1>12
  <2>2. ASSUME y \notin D PROVE FALSE
    <3>1. ~IsVoid(V[y])
      BY <2>1 DEF IsWay, IsVoid
    <3>2. PICK z \in TIDs : IsWay(V[z]) /\ V[z].to = y
      BY <1>9, <2>2, <3>1
    <3> QED
      BY <1>7, <2>1, <3>2
  <2>3. y \in D /\ x \in Targets(y)
    BY <1>10, <2>1, <2>2
  <2> QED
    BY <2>3
<1>13. ASSUME NEW x \in D, NEW y \in Targets(x)
       PROVE  /\ x \in TIDs /\ IsWay(V[x]) /\ y = V[x].to
              /\ y \in TIDs \ D /\ ~IsVoid(V[y]) /\ ~IsIndirection(SlotOf(y))
              /\ \A z \in D \ {x} : y \notin Targets(z)
  <2>1. x \in TIDs /\ IsWay(V[x]) /\ y = V[x].to
    BY <1>6, <1>10
  <2>2. y \in TIDs \ D /\ ~IsVoid(V[y]) /\ ~IsIndirection(SlotOf(y))
    BY <1>4, <1>7, <2>1
  <2>3. ASSUME NEW z \in D \ {x}, y \in Targets(z) PROVE FALSE
    <3>1. z \in TIDs /\ IsWay(V[z]) /\ y = V[z].to
      BY <1>6, <1>10, <2>3
    <3> QED
      BY <1>8, <2>1, <3>1
  <2> QED
    BY <2>1, <2>2, <2>3
<1>14. Taken = D \cup UNION {Targets(x) : x \in D}
  <2>1. \A x \in D : x \in Taken /\ Targets(x) \subseteq Taken
    BY <1>6, <1>11, <1>13
  <2> QED
    BY <1>12, <2>1
<1> QED
  BY <1>13, <1>14

\* No slot is lost and none is shared, however often records have moved.
THEOREM NoSlotLost ==
  ASSUME OneWriter
  PROVE  Spec => []NothingLost
BY NothingLostInv, SegmentInvariant, PTL

\* insert never returns the TID of a record some client keeps.
THEOREM TidsAreFresh ==
  ASSUME OneWriter
  PROVE  Spec => []TidsNotOverwritten
<1>1. ASSUME Inv, NEW t \in Threads, call[t].pc = "return", call[t].op = "insert"
      PROVE  /\ call[t].result \notin DOMAIN values
             /\ \A u \in Threads \ {t} :
                   call[u].pc = "return" /\ call[u].op = "insert" => call[u].result # call[t].result
  <2>1. Calls(call, values)
    BY <1>1, InvFacts
  <2>2. \A u \in Threads : call[u].pc = "return" /\ call[u].op = "insert" =>
                              RootsOf(call[u]) = {call[u].result}
    BY DEF RootsOf
  <2>3. RootsOf(call[t]) \cap DOMAIN values = {}
        /\ \A u \in Threads \ {t} : RootsOf(call[t]) \cap RootsOf(call[u]) = {}
    BY <2>1 DEF Calls
  <2> QED
    BY <1>1, <2>2, <2>3
<1>2. Inv => TidsNotOverwritten
  BY <1>1 DEF TidsNotOverwritten, At
<1> QED
  BY <1>2, SegmentInvariant, PTL

-----------------------------------------------------------------------------
\* What two of the longer steps change of the call.
LEMMA ScanPageCall ==
  ASSUME NEW t \in Threads, ScanPage(t)
  PROVE  \E d1, d2, d3 : call' = [call EXCEPT ![t].header = d1, ![t].page = d2, ![t].pc = d3]
BY Zenon DEF ScanPage

LEMMA PlaceCall ==
  ASSUME NEW t \in Threads, Place(t)
  PROVE  \E d1, d2 : \/ call' = [call EXCEPT ![t].pc = d1]
                     \/ call' = [call EXCEPT ![t].result = d1, ![t].pc = d2]
<1> DEFINE p == call[t].page
           q == IF p = size THEN p ELSE call[t].header
           h == IF p = size THEN EmptyPage.header ELSE pages[q].header
           i == NewSlotID(h)
           bad == q = NoPage \/ i \notin SlotIDs
           pc == IF call[t].op = "insert" THEN "return" ELSE "point"
<1>1. bad => call' = [call EXCEPT ![t].pc = "undefined"]
  BY DEF Place
<1>2. ~bad => call' = [call EXCEPT ![t].result = [pageID |-> p, slotID |-> i], ![t].pc = pc]
  BY DEF Place
<1> HIDE DEF bad, p, i, pc
<1> QED
  BY <1>1, <1>2

\* A step of a thread is its own.
LEMMA OthersStay ==
  ASSUME Inv, NEW t \in Threads, NEW u \in Threads \ {t}, Step(t)
  PROVE  call'[u] = call[u]
<1>1. call \in [Threads -> Call]
  BY InvFacts
<1>2. CASE ScanPage(t)
  BY <1>1, <1>2, ScanPageCall
<1>3. CASE ScanEnd(t)
  BY <1>3 DEF ScanEnd
<1>4. CASE Compact(t)
  BY <1>4 DEF Compact
<1>5. CASE Place(t)
  BY <1>1, <1>5, PlaceCall
<1>6. CASE RemoveStep(t)
  <2>1. \E d : call' = [call EXCEPT ![t] = d] \/ call' = [call EXCEPT ![t].pc = d]
    BY <1>6, Zenon DEF RemoveStep
  <2> QED
    BY <1>1, <2>1
<1>7. CASE LookupStep(t)
  BY <1>7 DEF LookupStep
<1>8. CASE UpdateStep(t)
  <2>1. \E d, e : call' = [call EXCEPT ![t] = d] \/ call' = [call EXCEPT ![t].pc = d, ![t].page = e]
    BY <1>8, Zenon DEF UpdateStep
  <2> QED
    BY <1>1, <2>1
<1>9. CASE Point(t)
  BY <1>9 DEF Point
<1>10. CASE Check(t)
  <2>1. \E d : call' = [call EXCEPT ![t] = d] \/ call' = [call EXCEPT ![t].pc = d]
    BY <1>10, Zenon DEF Check
  <2> QED
    BY <1>1, <2>1
<1>11. CASE Skip(t)
  BY <1>11 DEF Skip
<1>12. CASE Free(t)
  BY <1>12 DEF Free
<1>13. CASE OpenScan(t)
  BY <1>13 DEF OpenScan
<1>14. CASE NextStep(t)
  <2>1. \E d : call' = [call EXCEPT ![t] = d]
    BY <1>14, Zenon DEF NextStep
  <2> QED
    BY <1>1, <2>1
<1>15. CASE CloseScan(t)
  BY <1>15 DEF CloseScan
<1>16. CASE Return(t)
  BY <1>16 DEF Return
<1> QED
  BY <1>2, <1>3, <1>4, <1>5, <1>6, <1>7, <1>8, <1>9, <1>10, <1>11, <1>12, <1>13, <1>14, <1>15,
     <1>16 DEF Step

\* What a beginning call is to the other threads.
LEMMA OthersOnBegin ==
  ASSUME Inv, NEW t \in Threads, NEW op \in AllOps, NEW tids, NEW r, NEW label \in Labels,
         Begin(t, op, tids, r, label)
  PROVE  /\ call[t].pc = "idle" /\ call'[t].pc = label
         /\ \A u \in Threads \ {t} : call'[u].pc = call[u].pc /\ call'[u].scan = call[u].scan
<1>1. call \in [Threads -> Call] /\ call[t].pc = "idle"
  BY InvFacts DEF Begin, At
<1>2. call'[t] = [Idle EXCEPT !.pc = label, !.op = op, !.tids = tids, !.rec = r]
  BY DEF Begin
<1>3. call'[t].pc = label
  BY <1>2, IdleCall DEF Call
<1>4. ASSUME NEW u \in Threads \ {t}
      PROVE  call'[u].pc = call[u].pc /\ call'[u].scan = call[u].scan
  <2>1. PICK b : b = call[u].due \ Touched(op, tids)
    OBVIOUS
  <2>2. call'[u] = [call[u] EXCEPT !.due = b]
    BY <2>1 DEF Begin
  <2>3. call[u] \in Call
    BY <1>1
  <2> QED
    BY <2>2, <2>3 DEF Call
<1> QED
  BY <1>1, <1>3, <1>4

\* A client's call.
Calling(t) == \/ \E r \in Records : Insert(t, r)
              \/ \E x \in DOMAIN values : \/ Delete(t, x) \/ Lookup(t, x)
                                          \/ \E r \in Records : Update(t, x, r)

LEMMA CallingFacts ==
  ASSUME Inv, NEW t \in Threads, Calling(t)
  PROVE  /\ call[t].pc = "idle" /\ call'[t].pc \in {"scan", "remove", "lookup", "update"}
         /\ \A u \in Threads \ {t} : call'[u].pc = call[u].pc /\ call'[u].scan = call[u].scan
<1>1. {"insert", "remove", "lookup", "update"} \subseteq AllOps
      /\ {"scan", "remove", "lookup", "update"} \subseteq Labels
  BY DEF AllOps, Labels
<1>2. \E op, label, tids, r :
         /\ op \in AllOps /\ label \in Labels /\ Begin(t, op, tids, r, label)
         /\ label \in {"scan", "remove", "lookup", "update"}
  BY <1>1 DEF Calling, Insert, Delete, Lookup, Update
<1> QED
  BY <1>2, OthersOnBegin

LEMMA NextCases ==
  ASSUME Next
  PROVE  \E t \in Threads : Calling(t) \/ Step(t)
BY DEF Next, Calling

-----------------------------------------------------------------------------
LEMMA LookupEnds ==
  ASSUME NEW t \in Threads, Step(t), call[t].pc = "lookup"
  PROVE  LookupStep(t)
BY DEF Step, ScanPage, ScanEnd, Compact, Place, RemoveStep, UpdateStep, Point, Check, Skip, Free,
       OpenScan, NextStep, CloseScan, Return, At

\* lookup returns what the client has stored under the TID.
THEOREM LookupIsRight ==
  ASSUME OneWriter
  PROVE  Spec => LookupReturnsRecord
<1>1. ASSUME Inv, [Next]_vars, NEW t \in Threads, call[t].pc = "lookup", call'[t].pc = "return"
      PROVE  call'[t].answer = values[call[t].tids[1]]
  <2>1. call' # call
    BY <1>1
  <2>2. PICK u \in Threads : Calling(u) \/ Step(u)
    BY <1>1, <2>1, NextCases DEF vars
  <2>3. ~Calling(u)
    BY <1>1, CallingFacts
  <2>4. u = t
    BY <1>1, <2>2, <2>3, OthersStay
  <2>5. LookupStep(t)
    BY <1>1, <2>2, <2>3, <2>4, LookupEnds
  <2> QED
    BY <1>1, <2>5, LookupStepStep
<1>2. Inv /\ [Next]_vars =>
         [\A t \in Threads : At(t, "lookup") /\ call'[t].pc = "return" =>
                                call'[t].answer = values[call[t].tids[1]]]_vars
  BY <1>1 DEF At
<1> QED
  BY <1>2, SegmentInvariant, PTL DEF Spec, LookupReturnsRecord

-----------------------------------------------------------------------------
LEMMA ScanStays ==
  ASSUME NEW c \in Call
  PROVE  /\ \A y : Following(c, y).scan = c.scan
         /\ Done(c).scan = c.scan
         /\ Done([c EXCEPT !.result = NoTID]).scan = c.scan
         /\ Done(Back(c)).scan = c.scan
BY DEF Call, Following, Done, Back

LEMMA FollowingStays ==
  ASSUME NEW c \in Call, NEW y, NEW d, d = Following(c, y)
  PROVE  d.scan = c.scan
BY ScanStays

\* Only a step of the scan takes it further.
LEMMA ScanMoves ==
  ASSUME Inv, NEW t \in Threads, Step(t), call'[t].pc = "scanned", call'[t].scan # call[t].scan
  PROVE  NextStep(t)
<1>1. call \in [Threads -> Call] /\ call[t] \in Call
  BY InvFacts
<1>2. Idle.pc = "idle"
  BY IdleCall
<1>3. ~CloseScan(t) /\ ~Return(t)
  BY <1>1, <1>2 DEF CloseScan, Return
<1>4. ~OpenScan(t)
  <2> SUFFICES ASSUME OpenScan(t) PROVE FALSE
    OBVIOUS
  <2>1. \E d1, d2 : call'[t] = [Idle EXCEPT !.pc = "next", !.op = "tablescan", !.scan = d1, !.due = d2]
    BY <1>1 DEF OpenScan
  <2>2. call'[t].pc = "next"
    BY <2>1, IdleCall DEF Call
  <2> QED
    BY <2>2
<1>5. ~ScanPage(t)
  <2> SUFFICES ASSUME ScanPage(t) PROVE FALSE
    OBVIOUS
  <2>1. \E d1, d2, d3 : call' = [call EXCEPT ![t].header = d1, ![t].page = d2, ![t].pc = d3]
    BY ScanPageCall
  <2>2. call'[t].scan = call[t].scan
    BY <1>1, <2>1 DEF Call
  <2> QED
    BY <2>2
<1>6. ~Place(t)
  <2> SUFFICES ASSUME Place(t) PROVE FALSE
    OBVIOUS
  <2>1. \E d1, d2 : \/ call' = [call EXCEPT ![t].pc = d1]
                    \/ call' = [call EXCEPT ![t].result = d1, ![t].pc = d2]
    BY PlaceCall
  <2>2. call'[t].scan = call[t].scan
    BY <1>1, <2>1 DEF Call
  <2> QED
    BY <2>2
<1>7. ~(ScanEnd(t) \/ Compact(t) \/ Skip(t))
  <2> SUFFICES ASSUME ScanEnd(t) \/ Compact(t) \/ Skip(t) PROVE FALSE
    OBVIOUS
  <2>1. \E d : call' = [call EXCEPT ![t].pc = d]
    BY Zenon DEF ScanEnd, Compact, Skip
  <2>2. call'[t].scan = call[t].scan
    BY <1>1, <2>1 DEF Call
  <2> QED
    BY <2>2
<1>8. ~RemoveStep(t)
  <2> SUFFICES ASSUME RemoveStep(t) PROVE FALSE
    OBVIOUS
  <2>1. \E d : call' = [call EXCEPT ![t] = Following(call[t], d)] \/ call' = [call EXCEPT ![t].pc = d]
    BY Zenon DEF RemoveStep
  <2>2. call'[t].scan = call[t].scan
    <3>1. PICK d : call' = [call EXCEPT ![t] = Following(call[t], d)] \/ call' = [call EXCEPT ![t].pc = d]
      BY <2>1
    <3>2. CASE call' = [call EXCEPT ![t] = Following(call[t], d)]
      <4>1. call'[t] = Following(call[t], d)
        BY <1>1, <3>2
      <4> QED
        BY <1>1, <4>1, ScanStays, FollowingStays
    <3>3. CASE call' = [call EXCEPT ![t].pc = d]
      BY <1>1, <3>3 DEF Call
    <3> QED
      BY <3>1, <3>2, <3>3
  <2> QED
    BY <2>2
<1>9. ~LookupStep(t)
  <2> SUFFICES ASSUME LookupStep(t) PROVE FALSE
    OBVIOUS
  <2>1. \E d : \/ call' = [call EXCEPT ![t] = Following(call[t], d)]
               \/ call' = [call EXCEPT ![t] = [call[t] EXCEPT !.answer = d, !.pc = "return"]]
    BY DEF LookupStep
  <2>2. call'[t].scan = call[t].scan
    <3>1. PICK d : \/ call' = [call EXCEPT ![t] = Following(call[t], d)]
                   \/ call' = [call EXCEPT ![t] = [call[t] EXCEPT !.answer = d, !.pc = "return"]]
      BY <2>1
    <3>2. CASE call' = [call EXCEPT ![t] = Following(call[t], d)]
      <4>1. call'[t] = Following(call[t], d)
        BY <1>1, <3>2
      <4> QED
        BY <1>1, <4>1, ScanStays, FollowingStays
    <3>3. CASE call' = [call EXCEPT ![t] = [call[t] EXCEPT !.answer = d, !.pc = "return"]]
      BY <1>1, <3>3 DEF Call
    <3> QED
      BY <3>1, <3>2, <3>3
  <2> QED
    BY <2>2
<1>10. ~UpdateStep(t)
  <2> SUFFICES ASSUME UpdateStep(t) PROVE FALSE
    OBVIOUS
  <2>1. \E d, e : \/ call' = [call EXCEPT ![t] = Following(call[t], d)]
                  \/ call' = [call EXCEPT ![t] = Done(call[t])]
                  \/ call' = [call EXCEPT ![t].pc = d, ![t].page = e]
    BY Zenon DEF UpdateStep
  <2>2. call'[t].scan = call[t].scan
    <3>1. PICK d, e : \/ call' = [call EXCEPT ![t] = Following(call[t], d)]
                      \/ call' = [call EXCEPT ![t] = Done(call[t])]
                      \/ call' = [call EXCEPT ![t].pc = d, ![t].page = e]
      BY <2>1
    <3>2. CASE call' = [call EXCEPT ![t] = Following(call[t], d)]
      <4>1. call'[t] = Following(call[t], d)
        BY <1>1, <3>2
      <4> QED
        BY <1>1, <4>1, ScanStays, FollowingStays
    <3>3. CASE call' = [call EXCEPT ![t] = Done(call[t])]
      <4>1. call'[t] = Done(call[t])
        BY <1>1, <3>3
      <4> QED
        BY <1>1, <4>1, ScanStays, FollowingStays
    <3>4. CASE call' = [call EXCEPT ![t].pc = d, ![t].page = e]
      BY <1>1, <3>4 DEF Call
    <3> QED
      BY <3>1, <3>2, <3>3, <3>4
  <2> QED
    BY <2>2
<1>11. ~Point(t)
  <2> SUFFICES ASSUME Point(t) PROVE FALSE
    OBVIOUS
  <2>1. call'[t] = Done([call[t] EXCEPT !.result = NoTID])
    BY <1>1 DEF Point
  <2> QED
    BY <1>1, <2>1, ScanStays
<1>12. ~Check(t)
  <2> SUFFICES ASSUME Check(t) PROVE FALSE
    OBVIOUS
  <2>1. \E d : call' = [call EXCEPT ![t] = Done(Back(call[t]))] \/ call' = [call EXCEPT ![t].pc = d]
    BY Zenon DEF Check
  <2> QED
    BY <1>1, <2>1, ScanStays DEF Call
<1>13. ~Free(t)
  <2> SUFFICES ASSUME Free(t) PROVE FALSE
    OBVIOUS
  <2>1. call'[t] = Done(Back(call[t]))
    BY <1>1 DEF Free
  <2> QED
    BY <1>1, <2>1, ScanStays
<1> QED
  BY <1>3, <1>4, <1>5, <1>6, <1>7, <1>8, <1>9, <1>10, <1>11, <1>12, <1>13 DEF Step

-----------------------------------------------------------------------------
(***************************************************************************)
(* The segment implements the store of records.                            *)
(***************************************************************************)
\* The records of the clients, as a function.
ClientRecords == [x \in DOMAIN values |-> values[x]]

LEMMA StoredIs ==
  ASSUME Inv
  PROVE  StoredRecords = ClientRecords
<1> DEFINE V == View(pages)
<1>1. /\ DOMAIN values \subseteq TIDs /\ V \in [TIDs -> Views]
      /\ \A x \in DOMAIN values : Untouched(call, x) => Leads(V, x, values[x])
  BY InvFacts DEF Linked, Forest, Calls, Contents
<1>2. ASSUME NEW x \in DOMAIN values, Updaters(x) = {}
      PROVE  Content(x) = values[x]
  <2>1. Untouched(call, x)
    BY <1>2 DEF Updaters, Untouched
  <2>2. x \in TIDs /\ Home(x) = Follow(V, x)
    BY <1>1, HomeIs
  <2>3. V[Home(x)] = Rec(values[x])
    BY <1>1, <2>1, <2>2 DEF Leads
  <2>4. Home(x) \in TIDs
    BY InvFacts, RootFacts, <2>2
  <2>5. IsRec(V[Home(x)])
    BY <2>3 DEF IsRec, Rec
  <2>6. V[Home(x)] = Rec(Content(x))
    BY <2>4, <2>5, ViewIs DEF Content, SlotOf
  <2> QED
    BY <2>3, <2>6 DEF Rec
<1>3. \A x \in DOMAIN values : (IF Updaters(x) # {} THEN values[x] ELSE Content(x)) = values[x]
  BY <1>2
<1> QED
  BY <1>3 DEF StoredRecords, ClientRecords

\* What ReturnStep and the calls of remove do to the records.
LEMMA StoredChanges ==
  ASSUME Inv, Next
  PROVE  \/ values' = values
         \/ \E x \in DOMAIN values : values' = [u \in DOMAIN values \ {x} |-> values[u]]
         \/ \E x \in TIDs \ DOMAIN values, r \in Records : values' = With(values, x, r)
         \/ \E x \in DOMAIN values, r \in Records : values' = [values EXCEPT ![x] = r]
<1>1. PICK t \in Threads : Calling(t) \/ Step(t)
  BY NextCases
<1>2. CASE Calling(t)
  BY <1>2 DEF Calling, Insert, Delete, Lookup, Update
<1>3. CASE Step(t) /\ ~Return(t)
  BY <1>3 DEF Step, ScanPage, ScanEnd, Compact, Place, RemoveStep, LookupStep, UpdateStep, Point,
              Check, Skip, Free, OpenScan, NextStep, CloseScan
<1>4. CASE Return(t)
  <2> DEFINE c == call[t]
             V == View(pages)
  <2>1. c.pc = "return" /\ Linked(V, call, values)
    BY <1>4, InvFacts DEF Return, At
  <2>2. c.op = "insert" => c.result \in TIDs \ DOMAIN values /\ c.rec \in Records
    <3> HIDE DEF V
    <3>1. call[t].op = "insert" => call[t].result \in TIDs \ DOMAIN values /\ call[t].rec \in Records
      BY <2>1, ReturnFacts
    <3> QED
      BY <3>1
  <2>3. c.op = "update" => c.tids[1] \in DOMAIN values /\ c.rec \in Records
    <3> HIDE DEF V
    <3>1. call[t].op = "update" => call[t].tids[1] \in DOMAIN values /\ call[t].rec \in Records
      BY <2>1, CallFacts
    <3> QED
      BY <3>1
  <2>4. CASE c.op = "insert"
    <3>1. values' = With(values, c.result, c.rec)
      BY <1>4, <2>4 DEF Return
    <3> QED
      BY <2>2, <2>4, <3>1
  <2>5. CASE c.op = "update"
    <3>1. values' = [values EXCEPT ![c.tids[1]] = c.rec]
      BY <1>4, <2>5 DEF Return
    <3> QED
      BY <2>3, <2>5, <3>1
  <2>6. CASE c.op \notin {"insert", "update"}
    BY <1>4, <2>6 DEF Return
  <2> QED
    BY <2>4, <2>5, <2>6
<1> QED
  BY <1>1, <1>2, <1>3, <1>4

LEMMA StoreStep ==
  ASSUME Inv, [Next]_vars, StoredRecords = ClientRecords, StoredRecords' = ClientRecords'
  PROVE  [RecordStore!Next]_StoredRecords
<1> DEFINE S == StoredRecords
<1>1. S = [x \in DOMAIN values |-> values[x]] /\ S' = [x \in DOMAIN values' |-> values'[x]]
  BY DEF ClientRecords
<1>2. DOMAIN S = DOMAIN values
  BY <1>1
<1> HIDE DEF S
<1>3. values' = values => S' = S
  BY <1>1
<1>4. ASSUME NEW x \in DOMAIN values, values' = [u \in DOMAIN values \ {x} |-> values[u]]
      PROVE  x \in DOMAIN S /\ S' = [u \in DOMAIN S \ {x} |-> S[u]]
  <2>1. DOMAIN values' = DOMAIN values \ {x} /\ \A u \in DOMAIN values \ {x} : values'[u] = values[u]
    BY <1>4
  <2>2. \A u \in DOMAIN values \ {x} : S[u] = values[u]
    BY <1>1
  <2> QED
    BY <1>1, <1>2, <2>1, <2>2
<1>5. ASSUME NEW x \in TIDs \ DOMAIN values, NEW r \in Records, values' = With(values, x, r)
      PROVE  /\ x \in TIDs \ DOMAIN S
             /\ S' = [u \in DOMAIN S \cup {x} |-> IF u = x THEN r ELSE S[u]]
  <2>1. /\ DOMAIN values' = DOMAIN values \cup {x} /\ values'[x] = r
        /\ \A u \in DOMAIN values : values'[u] = values[u]
    BY <1>5 DEF With
  <2>2. \A u \in DOMAIN values : S[u] = values[u]
    BY <1>1
  <2> QED
    BY <1>1, <1>2, <2>1, <2>2
<1>6. ASSUME NEW x \in DOMAIN values, NEW r \in Records, values' = [values EXCEPT ![x] = r]
      PROVE  x \in DOMAIN S /\ S' = [S EXCEPT ![x] = r]
  <2>1. /\ DOMAIN values' = DOMAIN values /\ values'[x] = r
        /\ \A u \in DOMAIN values \ {x} : values'[u] = values[u]
    BY <1>6
  <2>2. \A u \in DOMAIN values : S[u] = values[u]
    BY <1>1
  <2> QED
    BY <1>1, <1>2, <2>1, <2>2
<1>7. \/ S' = S
      \/ \E x \in DOMAIN S : S' = [u \in DOMAIN S \ {x} |-> S[u]]
      \/ \E x \in TIDs \ DOMAIN S, r \in Records :
            S' = [u \in DOMAIN S \cup {x} |-> IF u = x THEN r ELSE S[u]]
      \/ \E x \in DOMAIN S, r \in Records : S' = [S EXCEPT ![x] = r]
  <2>1. CASE UNCHANGED vars
    BY <1>3, <2>1 DEF vars
  <2>2. CASE Next
    <3>1. CASE values' = values
      BY <1>3, <3>1
    <3>2. CASE \E x \in DOMAIN values : values' = [u \in DOMAIN values \ {x} |-> values[u]]
      <4>1. \E x \in DOMAIN S : S' = [u \in DOMAIN S \ {x} |-> S[u]]
        BY <1>4, <3>2, Zenon
      <4> QED
        BY <4>1
    <3>3. CASE \E x \in TIDs \ DOMAIN values, r \in Records : values' = With(values, x, r)
      <4>1. \E x \in TIDs \ DOMAIN S, r \in Records :
               S' = [u \in DOMAIN S \cup {x} |-> IF u = x THEN r ELSE S[u]]
        BY <1>5, <3>3, Zenon
      <4> QED
        BY <4>1
    <3>4. CASE \E x \in DOMAIN values, r \in Records : values' = [values EXCEPT ![x] = r]
      <4>1. \E x \in DOMAIN S, r \in Records : S' = [S EXCEPT ![x] = r]
        BY <1>6, <3>4, Zenon
      <4> QED
        BY <4>1
    <3> QED
      BY <2>2, <3>1, <3>2, <3>3, <3>4, StoredChanges
  <2> QED
    BY <2>1, <2>2
<1> QED
  BY <1>7 DEF S, RecordStore!Next, RecordStore!Insert, RecordStore!Remove, RecordStore!Update

(***************************************************************************)
(* The segment implements the store of records: every step of every call   *)
(* changes the record of one TID, the client's, or none.                   *)
(***************************************************************************)
THEOREM SegmentStoresRecords ==
  ASSUME OneWriter
  PROVE  Spec => ImplementsRecordStore
<1>1. Inv => StoredRecords = ClientRecords
  BY StoredIs
<1>2. Init /\ StoredRecords = ClientRecords => RecordStore!Init
  <2> SUFFICES ASSUME Init, StoredRecords = ClientRecords PROVE StoredRecords = << >>
    BY DEF RecordStore!Init
  <2>1. DOMAIN values = {}
    BY DEF Init
  <2>2. ClientRecords = << >>
    BY <2>1 DEF ClientRecords
  <2> QED
    BY <2>2
<1>3. Inv /\ [Next]_vars /\ StoredRecords = ClientRecords /\ (StoredRecords = ClientRecords)' =>
         [RecordStore!Next]_StoredRecords
  BY StoreStep
<1> QED
  BY <1>1, <1>2, <1>3, SegmentInvariant, PTL DEF Spec, ImplementsRecordStore, RecordStore!Spec

-----------------------------------------------------------------------------
\* A scan that has come to its end has nothing ahead of it.
LEMMA NothingDue ==
  ASSUME Inv, NEW t \in Threads, call[t].pc = "next", AtEnd(call[t].scan)
  PROVE  call[t].due = {}
<1>1. /\ ScansOK(View(pages), call, values, size) /\ call[t] \in Call /\ OpOK(call[t])
  BY InvFacts
<1>2. call[t].op = "tablescan" /\ call[t].scan \in Scans /\ call[t].due \subseteq TIDs
  BY <1>1 DEF OpOK, Call
<1>3. ASSUME NEW z \in call[t].due PROVE FALSE
  <2>1. Ahead(call[t].scan, z)
    BY <1>1, <1>2 DEF ScansOK, DueOK
  <2>2. z.pageID \in Nat
    BY <1>2, TidParts, PageRange
  <2> QED
    BY <1>2, <2>1, <2>2 DEF Ahead, AtEnd, NoFrame, Scans
<1> QED
  BY <1>3

(***************************************************************************)
(* A table scan returns every record that was there when it was opened and *)
(* that nobody has touched, and returns it as it is.                       *)
(***************************************************************************)
THEOREM ScanIsComplete ==
  ASSUME OneWriter
  PROVE  Spec => ScanSeesUntouched
<1>1. ASSUME Inv, [Next]_vars, NEW t \in Threads, call'[t].pc = "scanned",
             call'[t].scan # call[t].scan, NEW x \in DOMAIN values,
             Home(x) \in call[t].due \ call'[t].due
      PROVE  call'[t].answer = values[x]
  <2>1. call' # call
    BY <1>1
  <2>2. PICK u \in Threads : Calling(u) \/ Step(u)
    BY <1>1, <2>1, NextCases DEF vars
  <2>3. ~Calling(u)
    <3>1. CASE u = t
      BY <1>1, <3>1, CallingFacts
    <3>2. CASE u # t
      BY <1>1, <3>2, CallingFacts
    <3> QED
      BY <3>1, <3>2
  <2>4. u = t
    BY <1>1, <2>2, <2>3, OthersStay
  <2>5. NextStep(t)
    BY <1>1, <2>2, <2>3, <2>4, ScanMoves
  <2> QED
    BY <1>1, <2>5, NextStepStep
<1>2. Inv /\ [Next]_vars =>
         [\A t \in Threads :
             /\ At(t, "next") /\ AtEnd(call[t].scan) /\ call'[t] = Idle => call[t].due = {}
             /\ call'[t].pc = "scanned" /\ call'[t].scan # call[t].scan => \A tid \in DOMAIN values :
                  Home(tid) \in call[t].due \ call'[t].due => call'[t].answer = values[tid]]_vars
  BY <1>1, NothingDue DEF At
<1> QED
  BY <1>2, SegmentInvariant, PTL DEF Spec, ScanSeesUntouched
=============================================================================
