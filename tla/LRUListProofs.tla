--------------------------- MODULE LRUListProofs ----------------------------
(***************************************************************************)
(* The doubly linked list implements the replacement queue, for any finite *)
(* set of frames.  The pointers represent a sequence (Represents), which   *)
(* is unique, and each operation on the pointers turns it into the         *)
(* sequence the operation of LRUQueue asks for.                            *)
(***************************************************************************)
EXTENDS LRUList, DataLemmas, TLAPS

Ordered(s) == s \in Seq(Pages) /\ IsInjective(s) /\ Range(s) = Unfixed

\* Only frames in the map have users.
UsersInMap == \A p \in Pages : users[p] > 0 => p \in frames

IInv == TypeOK /\ WellLinked /\ UsersInMap

-----------------------------------------------------------------------------
\* The orders TLC goes through are the sequences that hold each unfixed
\* frame once.
LEMMA OrdersAreOrdered ==
  ASSUME frames \subseteq Pages, NEW s
  PROVE  s \in Orders <=> Ordered(s)
<1> DEFINE n == Cardinality(Unfixed)
<1>1. Unfixed \subseteq Pages /\ IsFiniteSet(Unfixed) /\ n \in Nat
  BY PagesAssumption, FS_Subset, FS_CardinalityType DEF Unfixed
<1>2. IsFiniteSet(1..n) /\ Cardinality(1..n) = n
  BY <1>1, FS_Interval
<1>3. ASSUME s \in Orders PROVE Ordered(s)
  <2>1. s \in [1..n -> Unfixed] /\ IsInjective(s)
    BY <1>3 DEF Orders, SetToSeqs, IsInjective
  <2>2. s \in Injection(1..n, Unfixed)
    BY <2>1 DEF Injection
  <2>3. s \in Surjection(1..n, Unfixed)
    BY <1>1, <1>2, <2>2, FS_Injection
  <2>4. Range(s) = Unfixed
    BY <2>1, <2>3 DEF Surjection, Range
  <2>5. s \in Seq(Pages)
    BY <1>1, <2>1, IsASeq, SeqDef
  <2> QED
    BY <2>1, <2>4, <2>5 DEF Ordered
<1>4. ASSUME Ordered(s) PROVE s \in Orders
  <2>1. /\ Len(s) \in Nat /\ DOMAIN s = 1..Len(s)
        /\ IsInjective(s) /\ Range(s) = Unfixed
        /\ s \in [1..Len(s) -> Unfixed]
    BY <1>4, LenProperties, RangeOfSeq DEF Ordered, Range
  <2>2. s \in Bijection(1..Len(s), Unfixed)
    BY <2>1 DEF Bijection, Injection, Surjection, Range
  <2>3. ExistsBijection(1..Len(s), Unfixed)
    BY <2>2 DEF ExistsBijection
  <2>4. IsFiniteSet(1..Len(s)) /\ Cardinality(1..Len(s)) = Len(s)
    BY <2>1, FS_Interval
  <2>5. n = Len(s)
    BY <2>3, <2>4, FS_Bijection
  <2> QED
    BY <2>1, <2>5 DEF Orders, SetToSeqs, IsInjective
<1> QED
  BY <1>3, <1>4

LEMMA LengthOfOrder ==
  ASSUME frames \subseteq Pages, NEW s, Ordered(s)
  PROVE  Len(s) = Cardinality(Unfixed) /\ Len(s) \in Nat /\ DOMAIN s = 1..Len(s)
<1>1. Len(s) \in Nat /\ DOMAIN s = 1..Len(s)
  BY LenProperties DEF Ordered
<1>2. s \in [1..Cardinality(Unfixed) -> Unfixed]
  BY OrdersAreOrdered DEF Orders, SetToSeqs
<1>3. 1..Len(s) = 1..Cardinality(Unfixed)
  BY <1>1, <1>2
<1>4. Cardinality(Unfixed) \in Nat
  BY PagesAssumption, FS_Subset, FS_CardinalityType DEF Unfixed
<1> QED
  BY <1>1, <1>3, <1>4

(***************************************************************************)
(* The pointers represent at most one order: two that agree up to some     *)
(* member have the same successor, the one its next pointer names.         *)
(***************************************************************************)
LEMMA RepresentedOnce ==
  ASSUME frames \subseteq Pages, NEW s, NEW u, Ordered(s), Ordered(u),
         Represents(s), Represents(u)
  PROVE  s = u
<1>1. /\ Len(s) = Len(u) /\ Len(s) \in Nat
      /\ DOMAIN s = 1..Len(s) /\ DOMAIN u = 1..Len(s)
      /\ s \in Seq(Pages) /\ u \in Seq(Pages)
  BY LengthOfOrder DEF Ordered
<1> DEFINE D == {i \in 1..Len(s) : s[i] # u[i]}
<1>2. ASSUME D # {} PROVE FALSE
  <2>1. PICK i \in D : \A j \in D : i <= j
    BY <1>1, <1>2, LeastIndex
  <2>2. i \in 1..Len(s) /\ s[i] # u[i]
    BY <2>1
  <2>3. s # << >> /\ u # << >>
    BY <1>1, <2>2
  <2>4. CASE i = 1
    BY <2>2, <2>3, <2>4 DEF Represents
  <2>5. CASE i > 1
    <3> DEFINE j == i - 1
    <3>1. j \in 1..Len(s) /\ j # Len(s) /\ j + 1 = i /\ j < i
      BY <1>1, <2>2, <2>5
    <3> HIDE DEF j
    <3>2. ASSUME j \in D PROVE FALSE
      <4> HIDE DEF D
      <4>1. i <= j
        BY <2>1, <3>2
      <4>2. Len(s) \in Nat
        BY <1>1
      <4>3. i \in Nat
        BY <2>2, <4>2
      <4>4. j \in Nat
        BY <3>1, <4>2
      <4> QED
        BY <3>1, <4>1, <4>3, <4>4
    <3>4. s[j] = u[j]
      BY <3>1, <3>2
    <3>3. next[s[j]] = s[j + 1] /\ next[u[j]] = u[j + 1]
      BY <1>1, <3>1 DEF Represents
    <3> QED
      BY <2>2, <3>1, <3>3, <3>4
  <2> QED
    BY <1>1, <2>2, <2>4, <2>5
<1>3. \A i \in 1..Len(s) : s[i] = u[i]
  BY <1>2
<1> QED
  BY <1>1, <1>3, SeqEqual

(***************************************************************************)
(* Queue is the order the pointers represent, in this state and (as a law  *)
(* of every state) in the next.                                            *)
(***************************************************************************)
QueueLaw == frames \subseteq Pages =>
              \A s : Ordered(s) /\ Represents(s) => s \in Orders /\ Queue = s

LEMMA QueueIs == QueueLaw
<1> SUFFICES ASSUME frames \subseteq Pages, NEW s, Ordered(s), Represents(s)
             PROVE  s \in Orders /\ Queue = s
  BY DEF QueueLaw
<1>1. s \in Orders /\ Queue \in Orders /\ Represents(Queue)
  BY OrdersAreOrdered DEF Queue
<1> QED
  BY <1>1, OrdersAreOrdered, RepresentedOnce

LEMMA QueueIsNext == QueueLaw'
  BY QueueIs, PTL

LEMMA QueueExists ==
  ASSUME IInv
  PROVE  \E s : Ordered(s) /\ Represents(s) /\ Queue = s
<1>1. PICK s \in Orders : Represents(s)
  BY DEF IInv, WellLinked
<1>2. Ordered(s)
  BY OrdersAreOrdered DEF IInv, TypeOK
<1> QED
  BY <1>1, <1>2, QueueIs DEF QueueLaw, IInv, TypeOK

\* What is left to show of a step once its new order is known.
FreeOfLinks == \A p \in frames : users[p] > 0 => prev[p] = NULL /\ next[p] = NULL

LEMMA NewOrder ==
  ASSUME TypeOK', UsersInMap', FreeOfLinks', NEW s, Ordered(s)', Represents(s)'
  PROVE  IInv' /\ Queue' = s
<1>1. (frames \subseteq Pages)'
  BY DEF TypeOK
<1>2. s \in Orders' /\ Queue' = s
  BY <1>1, QueueIsNext DEF QueueLaw
<1> QED
  BY <1>2 DEF IInv, WellLinked, FreeOfLinks

-----------------------------------------------------------------------------
LEMMA TypeStep ==
  ASSUME TypeOK, [Next]_vars
  PROVE  TypeOK'
<1> USE PagesAssumption, MaxUsersAssumption
<1>1. ASSUME NEW p \in Pages, Adopt(p) PROVE TypeOK'
  BY <1>1 DEF TypeOK, Adopt, Pointers
<1>2. ASSUME NEW p \in Pages, PutShared(p) PROVE TypeOK'
  BY <1>2 DEF TypeOK, PutShared, Pointers
<1>3. ASSUME NEW p \in Pages, PutLast(p) PROVE TypeOK'
  BY <1>3 DEF TypeOK, PutLast, Pointers
<1>4. ASSUME NEW p \in Pages, TakeShared(p) PROVE TypeOK'
  BY <1>4 DEF TypeOK, TakeShared, Pointers
<1>5. ASSUME NEW p \in Pages, TakeFirst(p) PROVE TypeOK'
  BY <1>5 DEF TypeOK, TakeFirst, Pointers
<1>6. ASSUME Pop PROVE TypeOK'
  BY <1>6 DEF TypeOK, Pop, Pointers
<1>7. ASSUME UNCHANGED vars PROVE TypeOK'
  BY <1>7 DEF TypeOK, vars
<1> QED
  BY <1>1, <1>2, <1>3, <1>4, <1>5, <1>6, <1>7 DEF Next

\* Adopt, PutShared and TakeShared leave the list alone.
LEMMA ListKept ==
  ASSUME IInv, [Next]_vars, UsersInMap', FreeOfLinks', Unfixed' = Unfixed,
         UNCHANGED <<lru, mru>>,
         \A p \in Unfixed : prev'[p] = prev[p] /\ next'[p] = next[p]
  PROVE  IInv' /\ Queue' = Queue
<1>1. PICK s : Ordered(s) /\ Represents(s) /\ Queue = s
  BY QueueExists
<1>2. TypeOK'
  BY TypeStep DEF IInv
<1>3. Ordered(s)'
  BY <1>1 DEF Ordered
<1>4. \A i \in 1..Len(s) : s[i] \in Unfixed
  BY <1>1 DEF Ordered, Range
<1>5. Represents(s)'
  BY <1>1, <1>4 DEF Represents
<1> QED
  BY <1>1, <1>2, <1>3, <1>5, NewOrder

LEMMA AdoptStep ==
  ASSUME IInv, NEW p \in Pages, Adopt(p)
  PROVE  IInv' /\ LRUQueue!LRUNext
<1>1. PICK s : Ordered(s) /\ Queue = s
  BY QueueExists
<1>2. users[p] = 0 /\ p \notin Unfixed
  BY DEF IInv, TypeOK, UsersInMap, Adopt, Unfixed
<1>3. /\ users' = [users EXCEPT ![p] = @ + 1]
      /\ users'[p] = 1
      /\ \A q \in Pages : q # p => users'[q] = users[q]
  BY <1>2 DEF IInv, TypeOK, Adopt
<1>4. UsersInMap' /\ FreeOfLinks' /\ Unfixed' = Unfixed
  BY <1>3 DEF IInv, TypeOK, WellLinked, UsersInMap, FreeOfLinks, Unfixed, Adopt
<1>5. \A q \in Unfixed : prev'[q] = prev[q] /\ next'[q] = next[q]
  BY <1>2 DEF IInv, TypeOK, Unfixed, Adopt
<1>6. IInv' /\ Queue' = Queue
  BY <1>4, <1>5, ListKept DEF Next, Adopt
<1>7. ~LRUQueue!Exists(p)
  BY <1>1, <1>2 DEF LRUQueue!Exists, LRUQueue!Queued, LRUQueue!Range, Ordered, Range
<1> QED
  BY <1>3, <1>6, <1>7 DEF LRUQueue!LRUNext, LRUQueue!Adopt

LEMMA PutSharedStep ==
  ASSUME IInv, NEW p \in Pages, PutShared(p)
  PROVE  IInv' /\ LRUQueue!LRUNext
<1>1. /\ users' = [users EXCEPT ![p] = @ - 1]
      /\ users[p] > 1 /\ users[p] # 1 /\ users'[p] > 0
      /\ \A q \in Pages : q # p => users'[q] = users[q]
  BY DEF IInv, TypeOK, PutShared
<1>2. UsersInMap' /\ FreeOfLinks' /\ Unfixed' = Unfixed
  BY <1>1 DEF IInv, TypeOK, WellLinked, UsersInMap, FreeOfLinks, Unfixed, PutShared
<1>3. IInv' /\ Queue' = Queue
  BY <1>2, ListKept DEF Next, PutShared
<1>4. users[p] > 0
  BY <1>1 DEF IInv, TypeOK
<1> QED
  BY <1>1, <1>3, <1>4 DEF LRUQueue!LRUNext, LRUQueue!Put

LEMMA TakeSharedStep ==
  ASSUME IInv, NEW p \in Pages, TakeShared(p)
  PROVE  IInv' /\ LRUQueue!LRUNext
<1>1. /\ users' = [users EXCEPT ![p] = @ + 1]
      /\ users[p] > 0 /\ users[p] # 0 /\ users[p] < MaxUsers /\ users'[p] > 0
      /\ \A q \in Pages : q # p => users'[q] = users[q]
  BY DEF IInv, TypeOK, TakeShared
<1>2. UsersInMap' /\ FreeOfLinks' /\ Unfixed' = Unfixed
  BY <1>1 DEF IInv, TypeOK, WellLinked, UsersInMap, FreeOfLinks, Unfixed, TakeShared
<1>3. IInv' /\ Queue' = Queue
  BY <1>2, ListKept DEF Next, TakeShared
<1> QED
  BY <1>1, <1>3 DEF LRUQueue!LRUNext, LRUQueue!Take, LRUQueue!Exists

(***************************************************************************)
(* The list spells out the sequence s of length n: Represents without the  *)
(* operators on sequences, together with what Ordered says of the members. *)
(***************************************************************************)
Spells(s, n) ==
    /\ \A i \in 1..n : s[i] \in Unfixed /\ s[i] \in Pages /\ s[i] # NULL
    /\ \A i, j \in 1..n : s[i] = s[j] => i = j
    /\ n = 0 => lru = NULL /\ mru = NULL
    /\ n > 0 => lru = s[1] /\ mru = s[n]
    /\ \A i \in 1..n : next[s[i]] = IF i = n THEN NULL ELSE s[i + 1]
    /\ \A i \in 1..n : prev[s[i]] = IF i = 1 THEN NULL ELSE s[i - 1]

LEMMA ListIs ==
  ASSUME IInv
  PROVE  \E s, n : /\ s \in Seq(Pages) /\ Ordered(s) /\ Queue = s
                   /\ n \in Nat /\ Len(s) = n /\ DOMAIN s = 1..n
                   /\ Spells(s, n)
<1>1. PICK s : Ordered(s) /\ Represents(s) /\ Queue = s
  BY QueueExists
<1>2. s \in Seq(Pages) /\ Len(s) \in Nat /\ DOMAIN s = 1..Len(s)
  BY <1>1, LengthOfOrder DEF IInv, TypeOK, Ordered
<1>3. \A i \in 1..Len(s) : s[i] \in Unfixed /\ s[i] \in Pages /\ s[i] # NULL
  BY <1>1, <1>2, PagesAssumption DEF Ordered, Range, Unfixed, IInv, TypeOK
<1>4. \A i, j \in 1..Len(s) : s[i] = s[j] => i = j
  BY <1>1, <1>2 DEF Ordered, IsInjective
<1>5. (Len(s) = 0 => s = << >>) /\ (Len(s) > 0 => s # << >>)
  BY <1>2, EmptySeq
<1>6. Spells(s, Len(s))
  BY <1>1, <1>3, <1>4, <1>5 DEF Represents, Spells
<1> QED
  BY <1>1, <1>2, <1>6

LEMMA PutLastStep ==
  ASSUME IInv, NEW p \in Pages, PutLast(p)
  PROVE  IInv' /\ LRUQueue!LRUNext
<1>1. PICK s, n : /\ s \in Seq(Pages) /\ Ordered(s) /\ Queue = s
                  /\ n \in Nat /\ Len(s) = n /\ DOMAIN s = 1..n
                  /\ Spells(s, n)
  BY ListIs
<1>n. n \in Nat /\ Spells(s, n)
  BY <1>1
<1>2. /\ users' = [users EXCEPT ![p] = @ - 1]
      /\ users[p] = 1 /\ users[p] > 0 /\ users'[p] = 0
      /\ \A q \in Pages : q # p => users'[q] = users[q]
  BY DEF IInv, TypeOK, PutLast
<1>3. p \in frames /\ frames' = frames /\ prev[p] = NULL /\ next[p] = NULL
  BY <1>2 DEF IInv, WellLinked, UsersInMap, PutLast
<1>4. p \notin Unfixed /\ Unfixed' = Unfixed \cup {p}
  BY <1>2, <1>3 DEF Unfixed, IInv, TypeOK
<1> DEFINE a == Append(s, p)
<1>5. a \in Seq(Pages) /\ IsInjective(a) /\ Range(a) = Unfixed \cup {p}
  <2>1. s \in Seq(Pages) /\ IsInjective(s) /\ Range(s) = Unfixed
    BY <1>1 DEF Ordered
  <2> QED
    BY <1>4, <2>1, AppendMembers
<1>6. /\ Len(a) = n + 1 /\ a[n + 1] = p /\ a # << >>
      /\ \A i \in 1..n : a[i] = s[i]
  <2>1. s \in Seq(Pages) /\ Len(s) = n
    BY <1>1
  <2> QED
    BY <2>1, AppendProperties
<1> HIDE DEF a
<1>7. Ordered(a)'
  BY <1>4, <1>5 DEF Ordered
<1>8. Represents(a)'
  <2>1. CASE n = 0
    <3>1. lru' = p /\ mru' = p /\ next' = next /\ prev' = prev
      BY <1>n, <2>1 DEF PutLast, Spells
    <3> QED
      BY <1>3, <1>6, <2>1, <3>1 DEF Represents
  <2>2. CASE n > 0
    <3>1. \A i \in 1..n : s[i] # p /\ s[i] \in Pages /\ (i # n => s[i] # s[n])
      BY <1>n, <1>4, <2>2 DEF Spells
    <3>2. /\ lru' = s[1] /\ mru' = p
          /\ prev' = [prev EXCEPT ![p] = s[n]]
          /\ next' = [next EXCEPT ![s[n]] = p]
      BY <1>n, <2>2 DEF PutLast, Spells
    <3>3. ASSUME NEW i \in 1..n
          PROVE  /\ next'[s[i]] = IF i = n THEN p ELSE s[i + 1]
                 /\ prev'[s[i]] = IF i = 1 THEN NULL ELSE s[i - 1]
      BY <1>n, <3>1, <3>2 DEF IInv, TypeOK, Spells
    <3>4. next'[p] = NULL /\ prev'[p] = s[n]
      BY <1>n, <1>3, <2>2, <3>1, <3>2 DEF IInv, TypeOK
    <3>5. ASSUME NEW i \in 1..(n + 1)
          PROVE  /\ next'[a[i]] = IF i = n + 1 THEN NULL ELSE a[i + 1]
                 /\ prev'[a[i]] = IF i = 1 THEN NULL ELSE a[i - 1]
      <4>1. n \in Nat /\ a[n + 1] = p /\ \A j \in 1..n : a[j] = s[j]
        BY <1>n, <1>6
      <4> QED
        BY <2>2, <3>3, <3>4, <4>1
    <3>6. a[1] = s[1]
      BY <1>n, <1>6, <2>2
    <3> QED
      BY <1>6, <3>2, <3>5, <3>6 DEF Represents
  <2> QED
    BY <1>n, <2>1, <2>2
<1>9. UsersInMap' /\ FreeOfLinks'
  <2>1. UsersInMap'
    BY <1>2, <1>3 DEF UsersInMap, IInv
  <2>2. ASSUME NEW q \in frames', users'[q] > 0
        PROVE  prev'[q] = NULL /\ next'[q] = NULL
    <3>1. q \in Pages /\ q \in frames /\ q # p /\ users[q] > 0 /\ q \notin Unfixed
      BY <1>2, <1>3, <2>2 DEF IInv, TypeOK, Unfixed
    <3>2. prev[q] = NULL /\ next[q] = NULL
      BY <3>1 DEF IInv, WellLinked
    <3>3. mru # NULL => mru # q
      <4>1. mru # NULL => mru \in Unfixed
        BY <1>n DEF Spells
      <4> QED
        BY <3>1, <4>1
    <3> QED
      BY <3>1, <3>2, <3>3, PagesAssumption DEF PutLast, IInv, TypeOK
  <2> QED
    BY <2>1, <2>2 DEF FreeOfLinks
<1>10. IInv' /\ Queue' = a
  <2>1. TypeOK'
    BY TypeStep DEF IInv, Next
  <2> QED
    BY <1>7, <1>8, <1>9, <2>1, NewOrder
<1> QED
  BY <1>1, <1>2, <1>10 DEF LRUQueue!LRUNext, LRUQueue!Put, a

LEMMA TakeFirstStep ==
  ASSUME IInv, NEW p \in Pages, TakeFirst(p)
  PROVE  IInv' /\ LRUQueue!LRUNext
<1>1. PICK s, n : /\ s \in Seq(Pages) /\ Ordered(s) /\ Queue = s
                  /\ n \in Nat /\ Len(s) = n /\ DOMAIN s = 1..n
                  /\ Spells(s, n)
  BY ListIs
<1>n. n \in Nat /\ Spells(s, n)
  BY <1>1
<1>2. /\ users' = [users EXCEPT ![p] = @ + 1]
      /\ users[p] = 0 /\ users'[p] = 1 /\ users[p] < MaxUsers
      /\ \A q \in Pages : q # p => users'[q] = users[q]
  BY MaxUsersAssumption DEF IInv, TypeOK, TakeFirst
<1>3. p \in frames /\ frames' = frames /\ p \in Unfixed /\ Unfixed' = Unfixed \ {p}
  BY <1>2 DEF TakeFirst, Unfixed, IInv, TypeOK
<1>4. Range(s) = Unfixed /\ IsInjective(s)
  BY <1>1 DEF Ordered
<1>5. PICK k \in 1..n : s[k] = p /\ k = LRUQueue!Position(p)
  <2>1. \E i \in 1..n : s[i] = p
    BY <1>1, <1>3, <1>4 DEF Range
  <2> QED
    BY <1>1, <2>1 DEF LRUQueue!Position
<1> DEFINE r == RemoveAt(s, k)
<1>6. r \in Seq(Pages) /\ IsInjective(r) /\ Range(r) = Unfixed \ {p}
  <2>1. s \in Seq(Pages) /\ k \in 1..Len(s)
    BY <1>1, <1>5
  <2> QED
    BY <1>4, <1>5, <2>1, RemoveAtMembers
<1>7. /\ Len(r) = n - 1
      /\ \A i \in 1..(n - 1) : r[i] = IF i < k THEN s[i] ELSE s[i + 1]
  <2>1. s \in Seq(Pages) /\ k \in 1..Len(s) /\ Len(s) = n
    BY <1>1, <1>5
  <2> QED
    BY <2>1, RemoveAtIndex
<1> HIDE DEF r
<1>8. Ordered(r)'
  BY <1>3, <1>6 DEF Ordered
<1>9. Represents(r)'
  <2>1. /\ next[p] = IF k = n THEN NULL ELSE s[k + 1]
        /\ prev[p] = IF k = 1 THEN NULL ELSE s[k - 1]
    BY <1>n, <1>5 DEF Spells
  <2>2. ASSUME NEW i \in 1..n, i # k
        PROVE  /\ next'[s[i]] = IF i + 1 = k THEN next[p] ELSE next[s[i]]
               /\ prev'[s[i]] = IF i = k + 1 THEN prev[p] ELSE prev[s[i]]
    <3>1. s[i] \in Pages /\ s[i] # p /\ s[i] # NULL
      BY <1>n, <1>5, <2>2 DEF Spells
    <3>2. /\ next'[s[i]] = IF s[i] = prev[p] THEN next[p] ELSE next[s[i]]
          /\ prev'[s[i]] = IF s[i] = next[p] THEN prev[p] ELSE prev[s[i]]
      BY <3>1 DEF TakeFirst
    <3>3. s[i] = prev[p] <=> i + 1 = k
      <4>1. k # 1 => k - 1 \in 1..n
        BY <1>n, <1>5
      <4> QED
        BY <1>n, <1>5, <2>1, <3>1, <4>1 DEF Spells
    <3>4. s[i] = next[p] <=> i = k + 1
      <4>1. k # n => k + 1 \in 1..n
        BY <1>n, <1>5
      <4> QED
        BY <1>n, <1>5, <2>1, <3>1, <4>1 DEF Spells
    <3> QED
      BY <3>2, <3>3, <3>4
  <2>3. ASSUME NEW i \in 1..(n - 1)
        PROVE  /\ next'[r[i]] = IF i = n - 1 THEN NULL ELSE r[i + 1]
               /\ prev'[r[i]] = IF i = 1 THEN NULL ELSE r[i - 1]
    <3>1. /\ \A j \in 1..n : next[s[j]] = IF j = n THEN NULL ELSE s[j + 1]
          /\ \A j \in 1..n : prev[s[j]] = IF j = 1 THEN NULL ELSE s[j - 1]
      BY <1>n DEF Spells
    <3>2. CASE i < k
      <4>1. i \in 1..n /\ i # k /\ i # k + 1 /\ i # n /\ r[i] = s[i]
        BY <1>n, <1>5, <1>7, <3>2
      <4>2. /\ next'[r[i]] = IF i + 1 = k THEN next[p] ELSE s[i + 1]
            /\ prev'[r[i]] = IF i = 1 THEN NULL ELSE s[i - 1]
        BY <2>2, <3>1, <4>1
      <4>3. i # 1 => r[i - 1] = s[i - 1]
        <5>1. i # 1 => i - 1 \in 1..(n - 1) /\ i - 1 < k
          BY <1>n, <1>5, <3>2
        <5> QED
          BY <1>7, <5>1
      <4>4. i # n - 1 => r[i + 1] = IF i + 1 = k THEN s[k + 1] ELSE s[i + 1]
        <5>1. i # n - 1 => i + 1 \in 1..(n - 1) /\ (i + 1 < k \/ i + 1 = k)
          BY <1>n, <1>5, <3>2
        <5>2. ~(k < k)
          BY <1>n, <1>5
        <5> QED
          BY <1>7, <5>1, <5>2
      <4>5. i = n - 1 => i + 1 = k /\ k = n
        BY <1>n, <1>5, <3>2
      <4>6. i + 1 = k /\ i # n - 1 => k # n
        BY <1>n, <1>5, <3>2
      <4> QED
        BY <2>1, <4>2, <4>3, <4>4, <4>5, <4>6
    <3>3. CASE ~(i < k)
      <4>1. /\ i + 1 \in 1..n /\ i + 1 # k /\ (i + 1) + 1 # k /\ r[i] = s[i + 1]
            /\ i + 1 # 1 /\ (i + 1) - 1 = i
        BY <1>n, <1>5, <1>7, <3>3
      <4>2. /\ next'[r[i]] = IF i + 1 = n THEN NULL ELSE s[(i + 1) + 1]
            /\ prev'[r[i]] = IF i + 1 = k + 1 THEN prev[p] ELSE s[i]
        BY <2>2, <3>1, <4>1
      <4>3. i # n - 1 => r[i + 1] = s[(i + 1) + 1]
        <5>1. i # n - 1 => i + 1 \in 1..(n - 1) /\ ~(i + 1 < k)
          BY <1>n, <1>5, <3>3
        <5> QED
          BY <1>7, <5>1
      <4>4. i # 1 => r[i - 1] = IF i = k THEN s[k - 1] ELSE s[i]
        <5>1. i # 1 => /\ i - 1 \in 1..(n - 1) /\ (i - 1) + 1 = i
                       /\ (i - 1 < k <=> i = k)
          BY <1>n, <1>5, <3>3
        <5> QED
          BY <1>7, <5>1
      <4>5. /\ i + 1 = n <=> i = n - 1
            /\ i + 1 = k + 1 <=> i = k
            /\ i = 1 => k = 1
        BY <1>n, <1>5, <3>3
      <4> QED
        BY <2>1, <4>2, <4>3, <4>4, <4>5
    <3> QED
      BY <3>2, <3>3
  <2>4. CASE n = 1
    <3>1. k = 1 /\ lru = p /\ mru = p /\ next[p] = NULL /\ prev[p] = NULL
      BY <1>n, <1>5, <2>1, <2>4 DEF Spells
    <3>2. r = << >>
      BY <1>6, <1>7, <2>4, EmptySeq
    <3>3. Len(r) = 0
      BY <1>7, <2>4
    <3> QED
      BY <3>1, <3>2, <3>3 DEF TakeFirst, Represents
  <2>5. CASE n > 1
    <3>1. r # << >> /\ 1 \in 1..(n - 1) /\ n - 1 \in 1..(n - 1)
      <4>1. Len(r) # 0
        BY <1>n, <1>7, <2>5
      <4> QED
        BY <1>n, <2>5, <4>1
    <3>2. lru' = r[1]
      <4>1. lru = s[1] /\ lru' = IF lru = p THEN next[p] ELSE lru
        BY <1>n, <2>5 DEF Spells, TakeFirst
      <4>2. CASE k = 1
        <5>1. k # n /\ ~(1 < k) /\ k + 1 = 1 + 1
          BY <1>n, <2>5, <4>2
        <5> QED
          BY <1>5, <1>7, <2>1, <3>1, <4>1, <4>2, <5>1
      <4>3. CASE k # 1
        <5>1. 1 < k /\ 1 \in 1..n
          BY <1>n, <1>5, <4>3
        <5>2. s[1] # p
          BY <1>n, <1>5, <4>3, <5>1 DEF Spells
        <5> QED
          BY <1>7, <3>1, <4>1, <5>1, <5>2
      <4> QED
        BY <4>2, <4>3
    <3>3. mru' = r[n - 1]
      <4>1. mru = s[n] /\ mru' = IF mru = p THEN prev[p] ELSE mru
        BY <1>n, <2>5 DEF Spells, TakeFirst
      <4>2. CASE k = n
        <5>1. k # 1 /\ n - 1 < k /\ k - 1 = n - 1
          BY <1>n, <2>5, <4>2
        <5> QED
          BY <1>5, <1>7, <2>1, <3>1, <4>1, <4>2, <5>1
      <4>3. CASE k # n
        <5>1. ~(n - 1 < k) /\ n \in 1..n /\ (n - 1) + 1 = n
          BY <1>n, <1>5, <4>3
        <5>2. s[n] # p
          BY <1>n, <1>5, <4>3, <5>1 DEF Spells
        <5> QED
          BY <1>7, <3>1, <4>1, <5>1, <5>2
      <4> QED
        BY <4>2, <4>3
    <3> QED
      BY <1>7, <2>3, <3>1, <3>2, <3>3 DEF Represents
  <2> QED
    BY <1>n, <1>5, <2>4, <2>5
<1>10. UsersInMap' /\ FreeOfLinks'
  <2>1. UsersInMap'
    BY <1>2, <1>3 DEF UsersInMap, IInv
  <2>2. ASSUME NEW q \in frames', users'[q] > 0, q # p
        PROVE  prev'[q] = NULL /\ next'[q] = NULL
    <3>1. q \in Pages /\ q \in frames /\ users[q] > 0 /\ q \notin Unfixed
      BY <1>2, <1>3, <2>2 DEF IInv, TypeOK, Unfixed
    <3>2. prev[q] = NULL /\ next[q] = NULL
      BY <3>1 DEF IInv, WellLinked
    <3>3. q # NULL
      BY <3>1, PagesAssumption
    <3>4. q # prev[p] /\ q # next[p]
      <4>1. k # 1 => k - 1 \in 1..n
        BY <1>n, <1>5
      <4>2. k # n => k + 1 \in 1..n
        BY <1>n, <1>5
      <4> QED
        BY <1>n, <1>5, <3>1, <3>3, <4>1, <4>2 DEF Spells
    <3> QED
      BY <2>2, <3>1, <3>2, <3>4 DEF TakeFirst
  <2>3. prev'[p] = NULL /\ next'[p] = NULL
    BY DEF TakeFirst
  <2> QED
    BY <2>1, <2>2, <2>3 DEF FreeOfLinks
<1>11. IInv' /\ Queue' = r
  <2>1. TypeOK'
    BY TypeStep DEF IInv, Next
  <2> QED
    BY <1>8, <1>9, <1>10, <2>1, NewOrder
<1>12. LRUQueue!Exists(p)
  <2>1. p \in Range(s)
    BY <1>3, <1>4
  <2> QED
    BY <1>1, <2>1 DEF LRUQueue!Exists, LRUQueue!Queued, LRUQueue!Range, Range
<1>13. LRUQueue!Take(p)
  BY <1>1, <1>2, <1>5, <1>11 DEF LRUQueue!Take, LRUQueue!RemoveAt, RemoveAt, r
<1> QED
  BY <1>2, <1>11, <1>12, <1>13 DEF LRUQueue!LRUNext

LEMMA PopStep ==
  ASSUME IInv, Pop
  PROVE  IInv' /\ LRUQueue!LRUNext
<1>1. PICK s, n : /\ s \in Seq(Pages) /\ Ordered(s) /\ Queue = s
                  /\ n \in Nat /\ Len(s) = n /\ DOMAIN s = 1..n
                  /\ Spells(s, n)
  BY ListIs
<1>2. n \in Nat /\ n > 0 /\ Spells(s, n)
  BY <1>1 DEF Pop, Spells
<1>3. s # << >> /\ Range(s) = Unfixed /\ IsInjective(s)
  BY <1>1, <1>2 DEF Ordered
<1>4. lru = s[1] /\ s[1] \in Unfixed /\ s[1] \in Pages
  BY <1>2 DEF Spells
<1>5. frames' = frames \ {s[1]} /\ users' = users /\ users[s[1]] = 0
  BY <1>4 DEF Pop, Unfixed
<1>6. Unfixed' = Unfixed \ {s[1]}
  BY <1>5 DEF Unfixed
<1> DEFINE r == Tail(s)
<1>7. /\ r \in Seq(Pages) /\ IsInjective(r) /\ Range(r) = Unfixed \ {s[1]}
      /\ Len(r) = n - 1
      /\ \A i \in 1..(n - 1) : r[i] = s[i + 1]
  <2>1. Head(s) = s[1] /\ s \in Seq(Pages) /\ Len(s) = n
    BY <1>1, <1>3
  <2>2. Len(r) = n - 1 /\ \A i \in 1..Len(r) : r[i] = s[i + 1]
    BY <1>3, <2>1, HeadTailProperties
  <2>3. \A i \in 1..(n - 1) : r[i] = s[i + 1]
    BY <2>2
  <2>4. r \in Seq(Pages) /\ IsInjective(r) /\ Range(r) = Unfixed \ {s[1]}
    BY <1>3, <2>1, TailMembers
  <2> QED
    BY <2>2, <2>3, <2>4
<1> HIDE DEF r
<1>8. Ordered(r)'
  BY <1>6, <1>7 DEF Ordered
<1>9. Represents(r)'
  <2>1. CASE n = 1
    <3>1. next[lru] = NULL
      BY <1>2, <1>4, <2>1 DEF Spells
    <3>2. r = << >> /\ Len(r) = 0
      BY <1>7, <2>1, EmptySeq
    <3> QED
      BY <3>1, <3>2 DEF Pop, Represents
  <2>2. CASE n > 1
    <3>1. /\ 1 \in 1..n /\ n \in 1..n /\ 2 \in 1..n /\ 1 # 2
          /\ 1 \in 1..(n - 1) /\ n - 1 \in 1..(n - 1) /\ n # 1
      BY <1>2, <2>2
    <3>2. next[lru] = s[2] /\ s[2] # NULL /\ mru = s[n]
      BY <1>2, <1>4, <2>2, <3>1 DEF Spells
    <3>3. /\ lru' = s[2] /\ mru' = s[n]
          /\ next' = [next EXCEPT ![s[1]] = NULL]
          /\ prev' = [prev EXCEPT ![s[2]] = NULL]
      BY <1>4, <3>2 DEF Pop
    <3>4. r[1] = s[2] /\ r[n - 1] = s[n] /\ r # << >>
      <4>1. (n - 1) + 1 = n /\ Len(r) # 0
        BY <1>2, <1>7, <2>2
      <4> QED
        BY <1>7, <3>1, <4>1
    <3>5. ASSUME NEW i \in 1..(n - 1)
          PROVE  /\ next'[r[i]] = IF i = n - 1 THEN NULL ELSE r[i + 1]
                 /\ prev'[r[i]] = IF i = 1 THEN NULL ELSE r[i - 1]
      <4>1. i + 1 \in 1..n /\ i + 1 # 1 /\ (i + 1) - 1 = i
        BY <1>2
      <4>2. r[i] = s[i + 1] /\ s[i + 1] # s[1] /\ s[i + 1] \in Pages
        BY <1>2, <1>7, <3>1, <4>1 DEF Spells
      <4>3. next'[r[i]] = IF i + 1 = n THEN NULL ELSE s[(i + 1) + 1]
        BY <1>2, <3>3, <4>1, <4>2 DEF IInv, TypeOK, Spells
      <4>4. prev'[r[i]] = IF i = 1 THEN NULL ELSE s[i]
        <5>1. s[i + 1] = s[2] <=> i = 1
          BY <1>2, <3>1, <4>1 DEF Spells
        <5> QED
          BY <1>2, <3>3, <4>1, <4>2, <5>1 DEF IInv, TypeOK, Spells
      <4>5. i # n - 1 => i + 1 \in 1..(n - 1)
        BY <1>2
      <4>6. i # 1 => i - 1 \in 1..(n - 1) /\ (i - 1) + 1 = i
        BY <1>2
      <4>7. i + 1 = n <=> i = n - 1
        BY <1>2
      <4> QED
        BY <1>7, <4>3, <4>4, <4>5, <4>6, <4>7
    <3> QED
      BY <1>7, <3>3, <3>4, <3>5 DEF Represents
  <2> QED
    BY <1>2, <2>1, <2>2
<1>10. UsersInMap' /\ FreeOfLinks'
  <2>1. UsersInMap'
    BY <1>4, <1>5 DEF UsersInMap, IInv, TypeOK
  <2>2. ASSUME NEW q \in frames', users'[q] > 0
        PROVE  prev'[q] = NULL /\ next'[q] = NULL
    <3>1. q \in Pages /\ q \in frames /\ users[q] > 0 /\ q # lru
      BY <1>4, <1>5, <2>2 DEF IInv, TypeOK
    <3>2. prev[q] = NULL /\ next[q] = NULL
      BY <3>1 DEF IInv, WellLinked
    <3> QED
      BY <3>1, <3>2 DEF Pop, IInv, TypeOK
  <2> QED
    BY <2>1, <2>2 DEF FreeOfLinks
<1>11. IInv' /\ Queue' = r
  <2>1. TypeOK'
    BY TypeStep DEF IInv, Next
  <2> QED
    BY <1>8, <1>9, <1>10, <2>1, NewOrder
<1> QED
  BY <1>1, <1>3, <1>5, <1>11 DEF LRUQueue!LRUNext, LRUQueue!Pop, r

-----------------------------------------------------------------------------
LEMMA InitialList ==
  ASSUME Init
  PROVE  IInv /\ LRUQueue!LRUInit
<1>1. Unfixed = {}
  BY DEF Init, Unfixed
<1>2. Ordered(<< >>)
  BY <1>1 DEF Ordered, IsInjective, Range
<1>3. Represents(<< >>)
  BY DEF Init, Represents
<1>4. frames \subseteq Pages
  BY DEF Init
<1>5. << >> \in Orders /\ Queue = << >>
  BY <1>2, <1>3, <1>4, QueueIs DEF QueueLaw
<1>6. TypeOK /\ UsersInMap
  BY MaxUsersAssumption DEF Init, TypeOK, UsersInMap, Pointers
<1>7. WellLinked
  BY <1>3, <1>5 DEF Init, WellLinked
<1> QED
  BY <1>5, <1>6, <1>7 DEF IInv, Init, LRUQueue!LRUInit

\* Every step keeps the invariant and is a step of the queue.
LEMMA ListStep ==
  ASSUME IInv, [Next]_vars
  PROVE  IInv' /\ [LRUQueue!LRUNext]_<<Queue, users>>
<1>1. ASSUME Next PROVE IInv' /\ LRUQueue!LRUNext
  BY <1>1, AdoptStep, PutSharedStep, PutLastStep, TakeSharedStep, TakeFirstStep,
     PopStep DEF Next
<1>2. ASSUME UNCHANGED vars PROVE IInv' /\ UNCHANGED <<Queue, users>>
  <2>1. Unfixed' = Unfixed /\ UsersInMap' /\ FreeOfLinks'
    BY <1>2 DEF vars, Unfixed, UsersInMap, FreeOfLinks, IInv, WellLinked
  <2>2. IInv' /\ Queue' = Queue
    BY <1>2, <2>1, ListKept DEF vars
  <2> QED
    BY <1>2, <2>2 DEF vars
<1> QED
  BY <1>1, <1>2

(***************************************************************************)
(* Every field keeps its type.                                             *)
(***************************************************************************)
THEOREM ListTypeCorrect == Spec => []TypeOK
<1>1. Init => TypeOK
  BY InitialList DEF IInv
<1>2. TypeOK /\ [Next]_vars => TypeOK'
  BY TypeStep
<1> QED
  BY <1>1, <1>2, PTL DEF Spec

(***************************************************************************)
(* The pointers of putLRU, removeLRU and popLRU always spell out a list    *)
(* that holds each unfixed frame once, the same in both directions.        *)
(***************************************************************************)
THEOREM ListStaysLinked == Spec => []WellLinked
<1>1. Init => IInv
  BY InitialList
<1>2. IInv /\ [Next]_vars => IInv'
  BY ListStep
<1>3. IInv => WellLinked
  BY DEF IInv
<1> QED
  BY <1>1, <1>2, <1>3, PTL DEF Spec

(***************************************************************************)
(* The list implements the replacement queue: popLRU returns the frame     *)
(* whose last user left it longest ago.                                    *)
(***************************************************************************)
THEOREM ListImplementsQueue == Spec => ImplementsLRUQueue
<1>1. Init => IInv /\ LRUQueue!LRUInit
  BY InitialList
<1>2. IInv /\ [Next]_vars => IInv' /\ [LRUQueue!LRUNext]_<<Queue, users>>
  BY ListStep
<1> QED
  BY <1>1, <1>2, PTL DEF Spec, ImplementsLRUQueue, LRUQueue!LRUSpec
=============================================================================
