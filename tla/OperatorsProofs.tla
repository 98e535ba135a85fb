-------------------------- MODULE OperatorsProofs ---------------------------
(***************************************************************************)
(* Proofs about Operators: whatever the plan, the segments and the         *)
(* registers are, no table scan leaves a page fixed, nothing goes wrong    *)
(* without a cause in the plan, and a pass prints the answer.              *)
(***************************************************************************)
EXTENDS Operators, DataLemmas, FunctionTheorems

\* The first scan has a page fixed only while the hash table is built, or
\* when that has gone wrong; and no scan has one at the end.
FixInv == /\ pc \in {"closed", "open", "next", "got", "end"} => scan1.bf = NoFrame
          /\ pc \in {"closed", "end"} => scan2.bf = NoFrame

LEMMA NextFixInv ==
  ASSUME FixInv, [Next]_vars
  PROVE  FixInv'
<1>1. CASE Open
  BY <1>1 DEF Open, Opened, NewScan, FixInv
<1>2. CASE PageEnd \/ Outside \/ Record
  <2>1. CASE Reading = 1
    <3>1. pc = "build" /\ pc' \notin {"closed", "open", "next", "got", "end"}
      BY <1>2, <2>1 DEF PageEnd, Outside, Record, Reading, Loading
    <3> QED
      BY <3>1 DEF FixInv
  <2>2. CASE Reading # 1
    <3>1. /\ pc = "next" /\ pc' \notin {"closed", "end"}
          /\ scan1' = scan1
      BY <1>2, <2>2
         DEF PageEnd, Outside, Record, Reading, SetScan, tables, Loading
    <3> QED
      BY <3>1 DEF FixInv
  <2> QED
    BY <2>1, <2>2
<1>3. CASE ScanEnd
  BY <1>3 DEF ScanEnd, Reading, Scan, tables, AtEnd, FixInv
<1>4. CASE CallNext \/ NoMoreMatches \/ GetOutput
  BY <1>4 DEF CallNext, NoMoreMatches, GetOutput, tables, FixInv
<1>5. ASSUME NEW j \in range, Match(j) PROVE FixInv'
  BY <1>5 DEF Match, Selected, tables, FixInv
<1>6. CASE Close
  BY <1>6 DEF Close, Closed, Unfixed, FixInv
<1>7. CASE Finished \/ UNCHANGED vars
  BY <1>7 DEF Finished, vars, FixInv
<1> QED
  BY <1>1, <1>2, <1>3, <1>4, <1>5, <1>6, <1>7 DEF Next

(***************************************************************************)
(* No page stays fixed when the operators are closed, at whatever time and *)
(* after whatever has gone wrong, nor when next has returned false.        *)
(***************************************************************************)
THEOREM ScansLetGo == Spec => []NothingLeftFixed
<1>1. Init => FixInv
  BY DEF Init, FixInv, NewScan
<1>2. FixInv /\ [Next]_vars => FixInv'
  BY NextFixInv
<1>3. FixInv => NothingLeftFixed
  BY DEF FixInv, NothingLeftFixed
<1> QED
  BY <1>1, <1>2, <1>3, PTL DEF Spec

-----------------------------------------------------------------------------
(***************************************************************************)
(* Where an open scan of a segment stands: on one of its pages, or between *)
(* two of them.                                                            *)
(***************************************************************************)
ScanOK(seg, scan) ==
    /\ scan \in Scans /\ scan.lastID = LastPage(seg)
    /\ First(seg) <= scan.pageID
    /\ scan.bf # NoFrame => /\ HasPage(seg, scan.bf) /\ scan.pageID = scan.bf + 1
                            /\ scan.slotCount = Len(PageAt(seg, scan.bf))

\* A tuple of n registers.
Tuple(regsOf, n) == regsOf \in Seq(Nat) /\ Len(regsOf) = n

IsOpen == pc \in {"build", "open", "next", "got", "end"}

(***************************************************************************)
(* What the operators hold while they are open.  A range left from an      *)
(* earlier pass stays until the hash table has been built again.           *)
(***************************************************************************)
OpenInv ==
    /\ IsOpen => ScanOK(plan.seg1, scan1) /\ ScanOK(plan.seg2, scan2)
    /\ \E S : heap \in Seq(S)
    /\ \E S : map \in Seq(S)
    /\ \A j \in DOMAIN map : Tuple(map[j].regs, Len(plan.types1))
    /\ pc \in {"open", "next", "got", "end"} /\ hasRange =>
          range \subseteq DOMAIN map /\ Tuple(regs2, Len(plan.types2))
    /\ pc = "got" => Tuple(regs, Len(plan.types1) + Len(plan.types2))

CauseInv == plan \in Plans /\ OpenInv /\ GoesWrongOnlyIf

LEMMA PlanFacts ==
  ASSUME NEW p \in Plans
  PROVE  /\ p.seg1 \in Segments /\ p.seg2 \in Segments
         /\ p.types1 \in Seq(Tags) /\ p.types2 \in Seq(Tags)
         /\ p.id1 \in Nat /\ p.id2 \in Nat /\ p.regID \in Nat /\ p.ids \in Seq(Nat)
BY PlansAssumption DEF Plan

\* The bounds of a scan are those of its segment, unless they wrap round.
LEMMA Bounds ==
  ASSUME NEW seg \in Segments
  PROVE  /\ First(seg) \in Nat /\ Len(seg.pages) \in Nat /\ LastPage(seg) \in Nat
         /\ ~Empty0(seg) => LastPage(seg) = First(seg) + Len(seg.pages) - 1
<1> DEFINE l == Len(seg.pages)
<1>1. seg.id \in 0..3 /\ seg.pages \in Seq(Seq(Slots)) /\ l <= Span
  BY DEF Segments
<1>2. l \in Nat /\ (l = 0 => seg.pages = << >>) /\ Span \in Nat \ {0}
  BY <1>1, EmptySeq, PlansAssumption
<1> HIDE DEF l
<1>3. First(seg) \in {0, Span, 2 * Span, 3 * Span}
  BY <1>1, <1>2 DEF First
<1>4. First(seg) = 0 => seg.id = 0
  BY <1>1, <1>2 DEF First
<1>5. First(seg) \in Nat
  BY <1>2, <1>3
<1>6. ASSUME NEW n \in Nat, n < 4 * Span PROVE n % (4 * Span) = n
  BY <1>2, <1>6
<1>7. ASSUME ~Empty0(seg)
      PROVE  First(seg) + l - 1 \in Nat /\ First(seg) + l - 1 < 4 * Span
  <2>1. First(seg) # 0 \/ l # 0
    BY <1>2, <1>4, <1>7 DEF Empty0
  <2> QED
    BY <1>1, <1>2, <1>3, <2>1 DEF l
<1>8. LastPage(seg) \in Nat
  <2>1. 4 * Span \in Nat \ {0} /\ First(seg) + l - 1 \in Int
    BY <1>2, <1>5
  <2> QED
    BY <2>1 DEF LastPage, l
<1>9. ~Empty0(seg) => LastPage(seg) = First(seg) + l - 1
  <2> SUFFICES ASSUME ~Empty0(seg) PROVE LastPage(seg) = First(seg) + l - 1
    OBVIOUS
  <2>1. (First(seg) + l - 1) % (4 * Span) = First(seg) + l - 1
    BY <1>6, <1>7
  <2> QED
    BY <2>1 DEF LastPage, l
<1> QED
  BY <1>2, <1>5, <1>8, <1>9 DEF l

\* A scan that goes on is on a page of its segment.
LEMMA ScanInside ==
  ASSUME NEW seg \in Segments, ~Empty0(seg), NEW scan, ScanOK(seg, scan), ~AtEnd(scan)
  PROVE  HasPage(seg, PageOf(scan))
<1>1. /\ First(seg) \in Nat /\ Len(seg.pages) \in Nat
      /\ LastPage(seg) = First(seg) + Len(seg.pages) - 1
  BY Bounds
<1>2. CASE scan.bf = NoFrame
  <2>1. /\ scan.pageID \in Int /\ First(seg) <= scan.pageID /\ PageOf(scan) = scan.pageID
        /\ scan.pageID <= LastPage(seg)
    BY <1>1, <1>2 DEF ScanOK, AtEnd, PageOf, Scans
  <2> QED
    BY <1>1, <2>1 DEF HasPage
<1>3. CASE scan.bf # NoFrame
  BY <1>3 DEF ScanOK, PageOf
<1> QED
  BY <1>2, <1>3

\* TableScan::next keeps the scan inside its segment.
LEMMA ScanMoves ==
  ASSUME NEW seg \in Segments, NEW scan, ScanOK(seg, scan), HasPage(seg, PageOf(scan)),
         NEW n \in Nat, n = Len(PageAt(seg, PageOf(scan)))
  PROVE  /\ ScanOK(seg, Loaded(scan, n)) /\ Loaded(scan, n).bf = PageOf(scan)
         /\ ScanOK(seg, Unfixed(Loaded(scan, n)))
         /\ \A i \in Nat : ScanOK(seg, Past(Loaded(scan, n), i))
<1> DEFINE next == Loaded(scan, n)
<1>1. First(seg) \in Nat
  BY Bounds
<1>2. ScanOK(seg, next) /\ next.bf = PageOf(scan)
  <2>1. CASE scan.bf = NoFrame
    <3>1. /\ next \in Scans /\ next.bf = scan.pageID /\ next.pageID = scan.pageID + 1
          /\ next.slotCount = n /\ next.lastID = scan.lastID /\ scan.pageID \in Int
      <4>1. scan \in Scans /\ scan.pageID \in Int /\ scan.pageID + 1 \in Int
        BY DEF ScanOK, Scans
      <4>2. next = [scan EXCEPT !.bf = scan.pageID, !.slotCount = n, !.slotID = 0,
                                !.pageID = scan.pageID + 1]
        BY <2>1 DEF Loaded
      <4> HIDE DEF next
      <4> QED
        BY <4>1, <4>2 DEF Scans
    <3> HIDE DEF next
    <3>2. HasPage(seg, next.bf) /\ next.bf = PageOf(scan)
      BY <2>1, <3>1 DEF PageOf
    <3> QED
      BY <1>1, <3>1, <3>2 DEF ScanOK
  <2>2. CASE scan.bf # NoFrame
    BY <2>2 DEF Loaded, PageOf
  <2> QED
    BY <2>1, <2>2
<1> HIDE DEF next
<1>3. /\ Unfixed(next) \in Scans /\ Unfixed(next).bf = NoFrame
      /\ Unfixed(next).pageID = next.pageID /\ Unfixed(next).lastID = next.lastID
  BY <1>2 DEF ScanOK, Scans, Unfixed, NoFrame
<1>4. ASSUME NEW i \in Nat
      PROVE  /\ Past(next, i) \in Scans /\ Past(next, i).bf = next.bf
             /\ Past(next, i).slotCount = next.slotCount
             /\ Past(next, i).pageID = next.pageID /\ Past(next, i).lastID = next.lastID
  BY <1>2 DEF ScanOK, Scans, Past
<1>5. ScanOK(seg, Unfixed(next))
  BY <1>2, <1>3 DEF ScanOK
<1>6. ASSUME NEW i \in Nat PROVE ScanOK(seg, Past(next, i))
  BY <1>2, <1>4 DEF ScanOK
<1> QED
  BY <1>2, <1>5, <1>6 DEF next

LEMMA LoadedIs ==
  ASSUME NEW scan \in Scans, NEW n \in Nat
  PROVE  Loaded(scan, n) \in Scans
<1>1. scan.pageID \in Int /\ scan.pageID + 1 \in Int
  BY DEF Scans
<1>2. [scan EXCEPT !.bf = scan.pageID, !.slotCount = n, !.slotID = 0,
                   !.pageID = scan.pageID + 1] \in Scans
  BY <1>1 DEF Scans
<1> QED
  BY <1>2 DEF Loaded

LEMMA ScanOpens ==
  ASSUME NEW seg \in Segments
  PROVE  ScanOK(seg, Opened(First(seg), LastPage(seg)))
<1>1. First(seg) \in Nat /\ LastPage(seg) \in Nat
  BY Bounds
<1>2. NewScan \in Scans /\ NewScan.bf = NoFrame
  BY DEF NewScan, Scans, NoFrame
<1>3. /\ Opened(First(seg), LastPage(seg)) \in Scans
      /\ Opened(First(seg), LastPage(seg)).bf = NoFrame
      /\ Opened(First(seg), LastPage(seg)).pageID = First(seg)
      /\ Opened(First(seg), LastPage(seg)).lastID = LastPage(seg)
  <2> DEFINE s == NewScan
             a == First(seg)
             b == LastPage(seg)
  <2>1. s \in Scans /\ s.bf = NoFrame /\ a \in Int /\ b \in Int
    BY <1>1, <1>2
  <2>2. Opened(a, b) = [s EXCEPT !.pageID = a, !.lastID = b]
    BY DEF Opened
  <2> HIDE DEF s, a, b
  <2>3. /\ Opened(a, b) \in Scans /\ Opened(a, b).bf = NoFrame
        /\ Opened(a, b).pageID = a /\ Opened(a, b).lastID = b
    BY <2>1, <2>2 DEF Scans
  <2> QED
    BY <2>3 DEF a, b
<1> QED
  BY <1>1, <1>3 DEF ScanOK

\* The next record is the first of those asked for.
LEMMA NextIs ==
  ASSUME NEW scan \in Scans, NEW records
  PROVE  LET n == NextRecord(scan, records) IN
         /\ n \in 0..scan.slotCount
         /\ n < scan.slotCount => n \in records /\ scan.slotID <= n
         /\ \A i \in scan.slotID..(scan.slotCount - 1) : i \in records => n <= i
<1> DEFINE S == {i \in scan.slotID..(scan.slotCount - 1) : i \in records} \cup {scan.slotCount}
<1>1. scan.slotCount \in Nat /\ scan.slotID \in Nat
  BY DEF Scans
<1>2. S \in SUBSET (0..scan.slotCount) /\ scan.slotCount \in S
  BY <1>1
<1>3. Min(S) \in S /\ \A i \in S : Min(S) <= i
  <2> HIDE DEF S
  <2> QED
    BY <1>1, <1>2, MinIs
<1>4. NextRecord(scan, records) = Min(S)
  BY DEF NextRecord
<1> QED
  BY <1>1, <1>2, <1>3, <1>4

(***************************************************************************)
(* The records a scan has returned: those on the pages before the one it   *)
(* is at, and those before its slot.                                       *)
(***************************************************************************)
PlacesOf(seg) == {q \in UNION {{p} \X DOMAIN seg.pages[p] : p \in DOMAIN seg.pages} :
                     IsRecord(seg.pages[q[1]][q[2]])}

Before(seg, scan, q) ==
    LET p == First(seg) + q[1] - 1
    IN  IF scan.bf = NoFrame THEN p < scan.pageID
        ELSE p < scan.bf \/ (p = scan.bf /\ q[2] - 1 < scan.slotID)

Returned(seg, scan) == {q \in PlacesOf(seg) : Before(seg, scan, q)}

LEMMA BeforeIs ==
  ASSUME NEW seg, NEW scan, NEW q
  PROVE  /\ scan.bf = NoFrame =>
               (Before(seg, scan, q) <=> First(seg) + q[1] - 1 < scan.pageID)
         /\ scan.bf # NoFrame =>
               (Before(seg, scan, q) <=>
                   \/ First(seg) + q[1] - 1 < scan.bf
                   \/ First(seg) + q[1] - 1 = scan.bf /\ q[2] - 1 < scan.slotID)
BY DEF Before

LEMMA PlaceIs ==
  ASSUME NEW seg \in Segments
  PROVE  /\ \A q \in PlacesOf(seg) :
               /\ q = <<q[1], q[2]>> /\ q[1] \in 1..Len(seg.pages)
               /\ q[2] \in 1..Len(seg.pages[q[1]])
               /\ IsRecord(seg.pages[q[1]][q[2]])
         /\ \A p \in 1..Len(seg.pages) : \A i \in 1..Len(seg.pages[p]) :
               IsRecord(seg.pages[p][i]) => <<p, i>> \in PlacesOf(seg)
         /\ \A p \in 1..Len(seg.pages) : Len(seg.pages[p]) \in Nat
<1>1. seg.pages \in Seq(Seq(Slots))
  BY DEF Segments
<1>2. \A p \in DOMAIN seg.pages : /\ DOMAIN seg.pages[p] = 1..Len(seg.pages[p])
                                  /\ Len(seg.pages[p]) \in Nat
  BY <1>1
<1>3. DOMAIN seg.pages = 1..Len(seg.pages)
  BY <1>1
<1>4. ASSUME NEW q \in PlacesOf(seg)
      PROVE  \E p \in DOMAIN seg.pages : \E i \in DOMAIN seg.pages[p] :
                q = <<p, i>> /\ IsRecord(seg.pages[p][i])
  BY DEF PlacesOf
<1>5. ASSUME NEW p \in DOMAIN seg.pages, NEW i \in DOMAIN seg.pages[p], IsRecord(seg.pages[p][i])
      PROVE  <<p, i>> \in PlacesOf(seg)
  BY <1>5 DEF PlacesOf
<1> QED
  BY <1>2, <1>3, <1>4, <1>5

LEMMA ReturnedNone ==
  ASSUME NEW seg \in Segments
  PROVE  Returned(seg, Opened(First(seg), LastPage(seg))) = {}
<1>1. First(seg) \in Nat
  BY Bounds
<1>2. /\ Opened(First(seg), LastPage(seg)).bf = NoFrame
      /\ Opened(First(seg), LastPage(seg)).pageID = First(seg)
  BY DEF Opened, NewScan
<1>3. ASSUME NEW q \in PlacesOf(seg) PROVE ~(First(seg) + q[1] - 1 < First(seg))
  BY <1>1, PlaceIs
<1> QED
  BY <1>2, <1>3 DEF Returned, Before

LEMMA ReturnedAll ==
  ASSUME NEW seg \in Segments, NEW scan, ScanOK(seg, scan), AtEnd(scan)
  PROVE  Returned(seg, scan) = PlacesOf(seg)
<1>1. /\ First(seg) \in Nat /\ Len(seg.pages) \in Nat /\ LastPage(seg) \in Nat
      /\ ~Empty0(seg) => LastPage(seg) = First(seg) + Len(seg.pages) - 1
  BY Bounds
<1>2. scan.bf = NoFrame /\ scan.pageID > LastPage(seg) /\ scan.pageID \in Int
  BY DEF ScanOK, AtEnd, Scans
<1>3. ASSUME NEW q \in PlacesOf(seg) PROVE First(seg) + q[1] - 1 < scan.pageID
  <2>1. q[1] \in 1..Len(seg.pages)
    BY PlaceIs
  <2>2. ~Empty0(seg)
    <3>1. seg.pages # << >>
      BY <1>1, <2>1
    <3> QED
      BY <3>1 DEF Empty0
  <2> QED
    BY <1>1, <1>2, <2>1, <2>2
<1> QED
  BY <1>2, <1>3 DEF Returned, Before

\* What has been returned, told from the page the scan has just fixed.
LEMMA ReturnedOn ==
  ASSUME NEW seg \in Segments, NEW scan, ScanOK(seg, scan), HasPage(seg, PageOf(scan)),
         NEW n \in Nat, n = Len(PageAt(seg, PageOf(scan)))
  PROVE  Returned(seg, Loaded(scan, n)) = Returned(seg, scan)
<1> DEFINE next == Loaded(scan, n)
<1>1. First(seg) \in Nat /\ scan \in Scans
  BY Bounds DEF ScanOK
<1>2. CASE scan.bf # NoFrame
  BY <1>2 DEF Loaded
<1>3. CASE scan.bf = NoFrame
  <2>1. next.bf = scan.pageID /\ next.slotID = 0 /\ scan.pageID \in Int
    BY <1>1, <1>3 DEF Loaded, Scans
  <2>2. next.bf # NoFrame
    BY <1>1, <1>3, <2>1 DEF PageOf, HasPage, NoFrame
  <2> HIDE DEF next
  <2>3. ASSUME NEW q \in PlacesOf(seg)
        PROVE  Before(seg, next, q) <=> Before(seg, scan, q)
    <3>1. q[1] \in Nat /\ q[2] \in Nat \ {0}
      <4>1. /\ q[1] \in 1..Len(seg.pages) /\ q[2] \in 1..Len(seg.pages[q[1]])
            /\ Len(seg.pages[q[1]]) \in Nat /\ Len(seg.pages) \in Nat
        BY PlaceIs, Bounds
      <4> QED
        BY <4>1
    <3> QED
      BY <1>1, <1>3, <2>1, <2>2, <3>1 DEF Before
  <2> QED
    BY <2>3 DEF Returned, next
<1> QED
  BY <1>2, <1>3

\* A record of the page a scan is on, by slot.
LEMMA OnPage ==
  ASSUME NEW seg \in Segments, NEW scan, ScanOK(seg, scan), scan.bf # NoFrame
  PROVE  /\ \A q \in PlacesOf(seg) : First(seg) + q[1] - 1 = scan.bf =>
               q[2] - 1 \in 0..(scan.slotCount - 1) /\ q[2] - 1 \in Records(PageAt(seg, scan.bf))
         /\ \A i \in Records(PageAt(seg, scan.bf)) :
               /\ <<scan.bf - First(seg) + 1, i + 1>> \in PlacesOf(seg)
               /\ i \in Nat
         /\ scan.bf \in Int /\ scan.slotCount \in Nat /\ scan.slotID \in Nat
<1>1. First(seg) \in Nat /\ scan \in Scans /\ Len(seg.pages) \in Nat
  BY Bounds DEF ScanOK
<1>2. scan.bf \in Int /\ scan.slotCount \in Nat /\ scan.slotID \in Nat
  BY <1>1 DEF Scans
<1> DEFINE p == scan.bf - First(seg) + 1
<1>3. p \in 1..Len(seg.pages) /\ PageAt(seg, scan.bf) = seg.pages[p]
  BY <1>1, <1>2 DEF ScanOK, HasPage, PageAt
<1>4. scan.slotCount = Len(seg.pages[p]) /\ DOMAIN seg.pages[p] = 1..Len(seg.pages[p])
  BY <1>1, <1>3 DEF ScanOK, Segments
<1>5. Records(seg.pages[p]) = {k - 1 : k \in {j \in 1..Len(seg.pages[p]) : IsRecord(seg.pages[p][j])}}
  BY <1>4 DEF Records
<1>6. ASSUME NEW q \in PlacesOf(seg), First(seg) + q[1] - 1 = scan.bf
      PROVE  q[2] - 1 \in 0..(scan.slotCount - 1) /\ q[2] - 1 \in Records(seg.pages[p])
  <2>1. q[1] = p
    <3>1. q[1] \in 1..Len(seg.pages)
      BY PlaceIs
    <3> QED
      BY <1>1, <1>2, <1>6, <3>1
  <2>2. q[2] \in 1..Len(seg.pages[p]) /\ IsRecord(seg.pages[p][q[2]])
    BY <2>1, PlaceIs
  <2> QED
    BY <1>2, <1>4, <1>5, <2>2
<1>7. ASSUME NEW i \in Records(seg.pages[p]) PROVE <<p, i + 1>> \in PlacesOf(seg) /\ i \in Nat
  <2>1. PICK k \in 1..Len(seg.pages[p]) : i = k - 1 /\ IsRecord(seg.pages[p][k])
    BY <1>5
  <2>2. i + 1 = k /\ i \in Nat
    BY <1>2, <1>4, <2>1
  <2> QED
    BY <1>3, <2>1, <2>2, PlaceIs
<1> QED
  BY <1>2, <1>3, <1>6, <1>7

(***************************************************************************)
(* TableScan::next returns the first record that has not been returned; at *)
(* the end of a page none has been left out.                               *)
(***************************************************************************)
LEMMA ReturnedMoves ==
  ASSUME NEW seg \in Segments, NEW scan, ScanOK(seg, scan), scan.bf # NoFrame
  PROVE  LET i == NextRecord(scan, Records(PageAt(seg, scan.bf)))
             q == <<scan.bf - First(seg) + 1, i + 1>>
         IN  /\ i = scan.slotCount => Returned(seg, Unfixed(scan)) = Returned(seg, scan)
             /\ i < scan.slotCount =>
                   /\ q \in PlacesOf(seg) \ Returned(seg, scan)
                   /\ Returned(seg, Past(scan, i)) = Returned(seg, scan) \cup {q}
<1> DEFINE i == NextRecord(scan, Records(PageAt(seg, scan.bf)))
           q == <<scan.bf - First(seg) + 1, i + 1>>
<1>1. /\ First(seg) \in Nat /\ Len(seg.pages) \in Nat /\ scan \in Scans
      /\ scan.pageID = scan.bf + 1
      /\ scan.bf \in Int /\ scan.slotCount \in Nat /\ scan.slotID \in Nat
  BY Bounds, OnPage DEF ScanOK
<1>2. /\ i \in 0..scan.slotCount
      /\ i < scan.slotCount => i \in Records(PageAt(seg, scan.bf)) /\ scan.slotID <= i
      /\ \A k \in scan.slotID..(scan.slotCount - 1) : k \in Records(PageAt(seg, scan.bf)) => i <= k
  BY <1>1, NextIs
<1> HIDE DEF i
<1>3. ASSUME NEW r \in PlacesOf(seg)
      PROVE  /\ r[1] \in Nat /\ r[2] \in Nat /\ r = <<r[1], r[2]>>
             /\ First(seg) + r[1] - 1 = scan.bf =>
                   r[2] - 1 < scan.slotCount /\ (r[2] - 1 < scan.slotID \/ i <= r[2] - 1)
  <2>1. /\ r[1] \in 1..Len(seg.pages) /\ r[2] \in 1..Len(seg.pages[r[1]])
        /\ Len(seg.pages[r[1]]) \in Nat /\ r = <<r[1], r[2]>>
    BY PlaceIs
  <2>2. r[1] \in Nat /\ r[2] \in Nat
    BY <1>1, <2>1
  <2>3. ASSUME First(seg) + r[1] - 1 = scan.bf
        PROVE  r[2] - 1 < scan.slotCount /\ (r[2] - 1 < scan.slotID \/ i <= r[2] - 1)
    <3>1. r[2] - 1 \in 0..(scan.slotCount - 1) /\ r[2] - 1 \in Records(PageAt(seg, scan.bf))
      BY <2>3, OnPage
    <3> QED
      BY <1>1, <1>2, <3>1
  <2> QED
    BY <2>1, <2>2, <2>3
<1>4. ASSUME NEW r \in PlacesOf(seg)
      PROVE  Before(seg, scan, r) <=>
                \/ First(seg) + r[1] - 1 < scan.bf
                \/ First(seg) + r[1] - 1 = scan.bf /\ r[2] - 1 < scan.slotID
  BY BeforeIs
<1>5. ASSUME i = scan.slotCount PROVE Returned(seg, Unfixed(scan)) = Returned(seg, scan)
  <2> DEFINE u == Unfixed(scan)
  <2>1. u.bf = NoFrame /\ u.pageID = scan.bf + 1
    BY <1>1 DEF Unfixed, Scans
  <2> HIDE DEF u
  <2>2. ASSUME NEW r \in PlacesOf(seg)
        PROVE  Before(seg, u, r) <=> Before(seg, scan, r)
    <3>1. Before(seg, u, r) <=> First(seg) + r[1] - 1 < scan.bf + 1
      BY <2>1, BeforeIs
    <3> QED
      BY <1>1, <1>3, <1>4, <1>5, <3>1
  <2>3. Returned(seg, u) = Returned(seg, scan)
    BY <2>2 DEF Returned
  <2> QED
    BY <2>3 DEF u
<1>6. ASSUME i < scan.slotCount
      PROVE  /\ q \in PlacesOf(seg) \ Returned(seg, scan)
             /\ Returned(seg, Past(scan, i)) = Returned(seg, scan) \cup {q}
  <2> DEFINE u == Past(scan, i)
  <2>1. u.bf = scan.bf /\ u.slotID = i + 1
    BY <1>1 DEF Past, Scans
  <2> HIDE DEF u
  <2>2. q \in PlacesOf(seg) /\ q[1] = scan.bf - First(seg) + 1 /\ q[2] = i + 1 /\ i \in Nat
    BY <1>2, <1>6, OnPage
  <2> HIDE DEF q
  <2>3. ASSUME NEW r \in PlacesOf(seg)
        PROVE  Before(seg, u, r) <=> \/ First(seg) + r[1] - 1 < scan.bf
                                     \/ First(seg) + r[1] - 1 = scan.bf /\ r[2] - 1 < i + 1
    <3>1. u.bf # NoFrame
      BY <2>1
    <3>2. Before(seg, u, r) <=> \/ First(seg) + r[1] - 1 < u.bf
                                \/ First(seg) + r[1] - 1 = u.bf /\ r[2] - 1 < u.slotID
      BY <3>1, BeforeIs
    <3> QED
      BY <2>1, <3>2
  <2>4. ~Before(seg, scan, q)
    BY <1>1, <1>2, <1>4, <1>6, <2>2
  <2>5. ASSUME NEW r \in PlacesOf(seg)
        PROVE  Before(seg, u, r) <=> (Before(seg, scan, r) \/ r = q)
    <3>1. r = q <=> r[1] = q[1] /\ r[2] = q[2]
      <4>1. r = <<r[1], r[2]>> /\ q = <<q[1], q[2]>>
        BY <1>3, <2>2
      <4> QED
        BY <4>1
    <3>2. r = q <=> First(seg) + r[1] - 1 = scan.bf /\ r[2] - 1 = i
      BY <1>1, <1>3, <2>2, <3>1
    <3>3. CASE First(seg) + r[1] - 1 = scan.bf
      <4>1. /\ r[2] - 1 < scan.slotID \/ i <= r[2] - 1
            /\ scan.slotID <= i /\ r[2] \in Nat
        BY <1>2, <1>3, <1>6, <3>3
      <4>2. r[2] - 1 < i + 1 <=> (r[2] - 1 < scan.slotID \/ r[2] - 1 = i)
        BY <1>1, <2>2, <4>1
      <4> QED
        BY <1>1, <1>4, <2>3, <3>2, <3>3, <4>2
    <3>4. CASE First(seg) + r[1] - 1 # scan.bf
      BY <1>4, <2>3, <3>2, <3>4
    <3> QED
      BY <3>3, <3>4
  <2>6. Returned(seg, u) = Returned(seg, scan) \cup {q}
    BY <2>2, <2>5 DEF Returned
  <2> QED
    BY <2>2, <2>4, <2>6 DEF Returned, u, q
<1> QED
  BY <1>5, <1>6 DEF i

\* The same from where the scan stood when next was called.
LEMMA ReadMoves ==
  ASSUME NEW seg \in Segments, NEW scan, ScanOK(seg, scan), HasPage(seg, PageOf(scan)),
         NEW n \in Nat, n = Len(PageAt(seg, PageOf(scan)))
  PROVE  LET next == Loaded(scan, n)
             i == NextRecord(next, Records(PageAt(seg, PageOf(scan))))
             q == <<PageOf(scan) - First(seg) + 1, i + 1>>
         IN  /\ i = next.slotCount => Returned(seg, Unfixed(next)) = Returned(seg, scan)
             /\ i < next.slotCount =>
                   /\ q \in PlacesOf(seg) \ Returned(seg, scan)
                   /\ Returned(seg, Past(next, i)) = Returned(seg, scan) \cup {q}
<1> DEFINE next == Loaded(scan, n)
           page == PageOf(scan)
<1>1. ScanOK(seg, next) /\ next.bf = page
  BY ScanMoves
<1>2. Returned(seg, next) = Returned(seg, scan)
  BY ReturnedOn
<1>3. next.bf # NoFrame
  <2>1. First(seg) \in Nat /\ Len(seg.pages) \in Nat /\ page \in Int
    BY Bounds DEF ScanOK, Scans, PageOf
  <2> QED
    BY <1>1, <2>1 DEF HasPage, NoFrame
<1> HIDE DEF next, page
<1>4. LET i == NextRecord(next, Records(PageAt(seg, next.bf)))
          q == <<next.bf - First(seg) + 1, i + 1>>
      IN  /\ i = next.slotCount => Returned(seg, Unfixed(next)) = Returned(seg, next)
          /\ i < next.slotCount =>
                /\ q \in PlacesOf(seg) \ Returned(seg, next)
                /\ Returned(seg, Past(next, i)) = Returned(seg, next) \cup {q}
  BY <1>1, <1>3, ReturnedMoves
<1> QED
  BY <1>1, <1>2, <1>4 DEF next, page

-----------------------------------------------------------------------------
(***************************************************************************)
(* A step keeps the invariant; there is a lemma per action.                *)
(***************************************************************************)
LEMMA OpenKeeps ==
  ASSUME CauseInv, Open
  PROVE  CauseInv'
<1>1. /\ plan' = plan /\ heap' = heap /\ map' = map /\ pc' = "build"
      /\ ScanOK(plan.seg1, scan1)' /\ ScanOK(plan.seg2, scan2)'
  <2>1. plan.seg1 \in Segments /\ plan.seg2 \in Segments
    BY PlanFacts DEF CauseInv
  <2>2. /\ plan' = plan /\ scan1' = Opened(First(plan.seg1), LastPage(plan.seg1))
        /\ scan2' = Opened(First(plan.seg2), LastPage(plan.seg2))
    BY DEF Open
  <2>3. ScanOK(plan.seg1, scan1') /\ ScanOK(plan.seg2, scan2')
    BY <2>1, <2>2, ScanOpens
  <2> QED
    BY <2>2, <2>3 DEF Open, joinVars
<1> QED
  BY <1>1 DEF CauseInv, OpenInv, GoesWrongOnlyIf

LEMMA ReadingIs ==
  /\ Reading = 1 => pc = "build" /\ Seg = plan.seg1 /\ Scan = scan1 /\ Types = plan.types1
  /\ Reading = 2 => /\ pc = "next" /\ ~hasRange
                    /\ Seg = plan.seg2 /\ Scan = scan2 /\ Types = plan.types2
  /\ Reading \in {0, 1, 2}
BY DEF Reading, Seg, Scan, Types, tables

\* Of the scans only the one that is read moves.
LEMMA ScanSet ==
  ASSUME CauseInv, Reading # 0, NEW s, SetScan(s), ScanOK(Seg, s), plan' = plan
  PROVE  ScanOK(plan.seg1, scan1)' /\ ScanOK(plan.seg2, scan2)'
<1>1. ScanOK(plan.seg1, scan1) /\ ScanOK(plan.seg2, scan2)
  BY ReadingIs DEF CauseInv, OpenInv, IsOpen
<1>2. CASE Reading = 1
  <2>1. scan1' = s /\ scan2' = scan2 /\ Seg = plan.seg1
    BY <1>2, ReadingIs DEF SetScan
  <2>2. ScanOK(plan.seg1, scan1') /\ ScanOK(plan.seg2, scan2')
    BY <1>1, <2>1
  <2> QED
    BY <2>2
<1>3. CASE Reading = 2
  <2>1. scan2' = s /\ scan1' = scan1 /\ Seg = plan.seg2
    BY <1>3, ReadingIs DEF SetScan
  <2>2. ScanOK(plan.seg1, scan1') /\ ScanOK(plan.seg2, scan2')
    BY <1>1, <2>1
  <2> QED
    BY <2>2
<1> QED
  BY <1>2, <1>3, ReadingIs

LEMMA ReadScan ==
  ASSUME CauseInv, Reading # 0
  PROVE  /\ Seg \in Segments /\ ScanOK(Seg, Scan) /\ Scan \in Scans
         /\ Seg = plan.seg1 \/ Seg = plan.seg2
<1>1. ScanOK(plan.seg1, scan1) /\ ScanOK(plan.seg2, scan2)
  BY ReadingIs DEF CauseInv, OpenInv, IsOpen
<1>2. plan.seg1 \in Segments /\ plan.seg2 \in Segments
  BY PlanFacts DEF CauseInv
<1>3. Seg \in Segments /\ ScanOK(Seg, Scan) /\ (Seg = plan.seg1 \/ Seg = plan.seg2)
  BY <1>1, <1>2, ReadingIs
<1> QED
  BY <1>3 DEF ScanOK

\* The slots of a page.
LEMMA PageIs ==
  ASSUME NEW seg \in Segments, NEW p \in Int, HasPage(seg, p)
  PROVE  /\ PageAt(seg, p) \in Seq(Slots) /\ Len(PageAt(seg, p)) \in Nat
         /\ p - First(seg) + 1 \in DOMAIN seg.pages
<1>1. seg.pages \in Seq(Seq(Slots)) /\ First(seg) \in Nat /\ Len(seg.pages) \in Nat
  BY Bounds DEF Segments
<1>2. p - First(seg) + 1 \in 1..Len(seg.pages)
  BY <1>1 DEF HasPage
<1>3. PageAt(seg, p) \in Seq(Slots) /\ p - First(seg) + 1 \in DOMAIN seg.pages
  BY <1>1, <1>2 DEF PageAt
<1> QED
  BY <1>3

LEMMA PageEndKeeps ==
  ASSUME CauseInv, PageEnd
  PROVE  CauseInv'
<1> DEFINE n == Len(PageAt(Seg, PageOf(Scan)))
<1>1. /\ Reading # 0 /\ HasPage(Seg, PageOf(Scan)) /\ plan' = plan
      /\ SetScan(Unfixed(Loaded(Scan, n)))
      /\ heap' = heap /\ map' = map /\ regs2' = regs2 /\ range' = range
      /\ hasRange' = hasRange /\ regs' = regs /\ pc' = pc
  BY DEF PageEnd, joinVars
<1>2. Seg \in Segments /\ ScanOK(Seg, Scan) /\ Scan \in Scans
  BY <1>1, ReadScan
<1>3. n \in Nat /\ n = Len(PageAt(Seg, PageOf(Scan)))
  <2>1. PageOf(Scan) \in Int
    BY <1>2 DEF PageOf, Scans
  <2> QED
    BY <1>1, <1>2, <2>1, PageIs
<1> HIDE DEF n
<1>4. ScanOK(Seg, Unfixed(Loaded(Scan, n)))
  BY <1>1, <1>2, <1>3, ScanMoves
<1>5. ScanOK(plan.seg1, scan1)' /\ ScanOK(plan.seg2, scan2)'
  BY <1>1, <1>4, ScanSet
<1>6. OpenInv'
  BY <1>1, <1>5 DEF OpenInv, IsOpen, Tuple, CauseInv
<1>7. GoesWrongOnlyIf'
  BY <1>1 DEF CauseInv, GoesWrongOnlyIf, Loads
<1> QED
  BY <1>1, <1>6, <1>7 DEF CauseInv

LEMMA OutsideKeeps ==
  ASSUME CauseInv, Outside
  PROVE  CauseInv'
<1>1. /\ Reading # 0 /\ ~AtEnd(Scan) /\ ~HasPage(Seg, PageOf(Scan)) /\ pc' = "undefined"
      /\ plan' = plan /\ heap' = heap /\ map' = map
  BY DEF Outside, joinVars
<1>2. Seg \in Segments /\ ScanOK(Seg, Scan) /\ (Seg = plan.seg1 \/ Seg = plan.seg2)
  BY <1>1, ReadScan
<1>3. Empty0(plan.seg1) \/ Empty0(plan.seg2)
  BY <1>1, <1>2, ScanInside
<1>4. OpenInv'
  BY <1>1 DEF OpenInv, IsOpen, Tuple, CauseInv
<1>5. GoesWrongOnlyIf'
  BY <1>1, <1>3 DEF GoesWrongOnlyIf
<1> QED
  BY <1>1, <1>4, <1>5 DEF CauseInv

LEMMA ScanEndKeeps ==
  ASSUME CauseInv, ScanEnd
  PROVE  CauseInv'
<1>1. /\ Reading # 0 /\ pc' \in {"open", "end"} /\ hasRange' = FALSE /\ pc \in {"build", "next"}
      /\ plan' = plan /\ heap' = heap /\ map' = map /\ scan1' = scan1 /\ scan2' = scan2
  BY ReadingIs DEF ScanEnd, tables
<1>2. OpenInv'
  BY <1>1 DEF OpenInv, IsOpen, Tuple, CauseInv
<1>3. GoesWrongOnlyIf'
  BY <1>1 DEF GoesWrongOnlyIf
<1> QED
  BY <1>1, <1>2, <1>3 DEF CauseInv

LEMMA CallNextKeeps ==
  ASSUME CauseInv, CallNext
  PROVE  CauseInv'
<1>1. /\ pc \in {"open", "end"} /\ pc' = "next" /\ plan' = plan /\ heap' = heap /\ map' = map
      /\ scan1' = scan1 /\ scan2' = scan2 /\ hasRange' = hasRange /\ range' = range
      /\ regs2' = regs2
  BY DEF CallNext, tables, joinVars
<1>2. OpenInv'
  BY <1>1 DEF OpenInv, IsOpen, Tuple, CauseInv
<1>3. GoesWrongOnlyIf'
  BY <1>1 DEF GoesWrongOnlyIf
<1> QED
  BY <1>1, <1>2, <1>3 DEF CauseInv

LEMMA NoMoreMatchesKeeps ==
  ASSUME CauseInv, NoMoreMatches
  PROVE  CauseInv'
<1>1. /\ pc = "next" /\ pc' = "next" /\ plan' = plan /\ heap' = heap /\ map' = map
      /\ scan1' = scan1 /\ scan2' = scan2 /\ hasRange' = FALSE
  BY DEF NoMoreMatches, tables
<1>2. OpenInv'
  BY <1>1 DEF OpenInv, IsOpen, Tuple, CauseInv
<1>3. GoesWrongOnlyIf'
  BY <1>1 DEF GoesWrongOnlyIf
<1> QED
  BY <1>1, <1>2, <1>3 DEF CauseInv

LEMMA CloseKeeps ==
  ASSUME CauseInv, Close
  PROVE  CauseInv'
<1>1. pc' = "closed" /\ plan' = plan /\ heap' = heap /\ map' = map
  BY DEF Close, joinVars
<1>2. OpenInv'
  BY <1>1 DEF OpenInv, IsOpen, Tuple, CauseInv
<1>3. GoesWrongOnlyIf'
  BY <1>1 DEF GoesWrongOnlyIf
<1> QED
  BY <1>1, <1>2, <1>3 DEF CauseInv

\* A match joins a tuple of the one side and one of the other.
LEMMA MatchKeeps ==
  ASSUME CauseInv, NEW j \in range, Match(j)
  PROVE  CauseInv'
<1> DEFINE n1 == Len(plan.types1)
           n2 == Len(plan.types2)
<1>1. /\ pc = "next" /\ hasRange /\ regs' = map[j].regs \o regs2 /\ pc' = Selected(regs')
      /\ range' = range \ {j}
      /\ plan' = plan /\ heap' = heap /\ map' = map /\ scan1' = scan1 /\ scan2' = scan2
      /\ regs2' = regs2 /\ hasRange' = hasRange
  BY DEF Match, tables
<1>2. n1 \in Nat /\ n2 \in Nat /\ plan.regID \in Nat
  BY PlanFacts DEF CauseInv
<1> HIDE DEF n1, n2
<1>3. range \subseteq DOMAIN map /\ Tuple(regs2, n2) /\ Tuple(map[j].regs, n1)
  BY <1>1 DEF CauseInv, OpenInv, n1, n2
<1>4. Tuple(regs', n1 + n2)
  <2> DEFINE a == map[j].regs
  <2>1. /\ a \in Seq(Nat) /\ Len(a) = n1 /\ regs2 \in Seq(Nat) /\ Len(regs2) = n2
    BY <1>3 DEF Tuple
  <2>2. regs' = a \o regs2
    BY <1>1
  <2> HIDE DEF a
  <2>3. a \o regs2 \in Seq(Nat) /\ Len(a \o regs2) = n1 + n2
    BY <2>1, ConcatProperties
  <2> QED
    BY <2>2, <2>3 DEF Tuple
<1>5. /\ pc' \in {"thrown", "got", "next"}
      /\ pc' = "thrown" => plan.regID >= n1 + n2
  BY <1>1, <1>4 DEF Selected, Tuple
<1>6. OpenInv'
  <2>1. \A i \in DOMAIN map' : Tuple(map'[i].regs, Len(plan'.types1))
    BY <1>1 DEF CauseInv, OpenInv
  <2>2. (\E S : heap' \in Seq(S)) /\ (\E S : map' \in Seq(S))
    BY <1>1 DEF CauseInv, OpenInv
  <2>3. ScanOK(plan'.seg1, scan1') /\ ScanOK(plan'.seg2, scan2')
    BY <1>1 DEF CauseInv, OpenInv, IsOpen
  <2>4. range' \subseteq DOMAIN map' /\ Tuple(regs2', Len(plan'.types2))
    BY <1>1, <1>3 DEF n2
  <2>5. Tuple(regs', Len(plan'.types1) + Len(plan'.types2))
    BY <1>1, <1>4 DEF n1, n2
  <2> QED
    BY <2>1, <2>2, <2>3, <2>4, <2>5 DEF OpenInv
<1>7. GoesWrongOnlyIf'
  BY <1>1, <1>5 DEF GoesWrongOnlyIf, n1, n2
<1> QED
  BY <1>1, <1>6, <1>7 DEF CauseInv

LEMMA GetOutputKeeps ==
  ASSUME CauseInv, GetOutput
  PROVE  CauseInv'
<1>1. /\ pc = "got" /\ pc' \in {"thrown", "open"}
      /\ pc' = "thrown" => \E k \in DOMAIN plan.ids : plan.ids[k] >= Len(regs)
      /\ plan' = plan /\ heap' = heap /\ map' = map /\ scan1' = scan1 /\ scan2' = scan2
      /\ hasRange' = hasRange /\ range' = range /\ regs2' = regs2
  BY DEF GetOutput, tables, joinVars
<1>2. Len(regs) = Len(plan.types1) + Len(plan.types2)
  BY <1>1 DEF CauseInv, OpenInv, Tuple
<1>3. OpenInv'
  BY <1>1 DEF OpenInv, IsOpen, Tuple, CauseInv
<1>4. GoesWrongOnlyIf'
  <2>1. pc' = "thrown" => \E id \in Range(plan.ids) : id >= Len(regs)
    BY <1>1 DEF Range
  <2> QED
    BY <1>1, <1>2, <2>1 DEF GoesWrongOnlyIf
<1> QED
  BY <1>1, <1>3, <1>4 DEF CauseInv

(***************************************************************************)
(* What becomes of a record that is read: it cannot be loaded, the join    *)
(* column is not there, or there is a tuple more for the hash table or one *)
(* to find matches for.                                                    *)
(***************************************************************************)
RegistersOf(values) == [k \in DOMAIN Types |-> Load(Types[k], values, k)]
JoinID == IF Reading = 1 THEN plan.id1 ELSE plan.id2

Refused(values) ==
    /\ Loading(Types, values) # "loaded"
    /\ pc' = Loading(Types, values)
    /\ UNCHANGED <<heap, joinVars>>

Stored(values) == LET r == RegistersOf(values) IN
    /\ Loading(Types, values) = "loaded"
    /\ Store(r) /\ UNCHANGED regs
    /\ \/ JoinID >= Len(r) /\ pc' = "undefined" /\ UNCHANGED <<map, range, hasRange>>
       \/ /\ Reading = 1
          /\ map' = Append(map, [key |-> r[JoinID + 1], regs |-> regs2'])
          /\ UNCHANGED <<range, hasRange, pc>>
       \/ /\ Reading = 2
          /\ range' = {j \in DOMAIN map : Equal(map[j].key, r[JoinID + 1])}
          /\ hasRange' = (range' # {})
          /\ UNCHANGED <<map, pc>>

ValuesAt(seg, q) == seg.pages[q[1]][q[2]].values

LEMMA RecordRead ==
  ASSUME CauseInv, Record
  PROVE  /\ Reading # 0 /\ plan' = plan
         /\ \E q \in PlacesOf(Seg) \ Returned(Seg, Scan) :
               /\ Refused(ValuesAt(Seg, q)) \/ Stored(ValuesAt(Seg, q))
               /\ \E s : SetScan(s) /\ Returned(Seg, s) = Returned(Seg, Scan) \cup {q}
         /\ ScanOK(plan.seg1, scan1)' /\ ScanOK(plan.seg2, scan2)'
         /\ rows' = rows /\ opens' = opens
<1> DEFINE p == PageOf(Scan)
           page == PageAt(Seg, p)
           scan == Loaded(Scan, Len(page))
           n == NextRecord(scan, Records(page))
           q == <<p - First(Seg) + 1, n + 1>>
<1>1. /\ Reading # 0 /\ HasPage(Seg, p) /\ plan' = plan
      /\ SetScan(Past(scan, n)) /\ n < scan.slotCount
      /\ rows' = rows /\ opens' = opens
  BY DEF Record
<1>2. Seg \in Segments /\ ScanOK(Seg, Scan) /\ Scan \in Scans
  BY <1>1, ReadScan
<1>3. /\ page \in Seq(Slots) /\ Len(page) \in Nat /\ p - First(Seg) + 1 \in DOMAIN Seg.pages
      /\ page = Seg.pages[p - First(Seg) + 1]
  <2>1. p \in Int
    BY <1>2 DEF PageOf, Scans
  <2> QED
    BY <1>1, <1>2, <2>1, PageIs DEF PageAt
<1>4. scan \in Scans
  BY <1>2, <1>3, LoadedIs
<1>5. n \in Nat
  <2> HIDE DEF scan, page
  <2> QED
    BY <1>1, <1>4, NextIs
<1>6. /\ q \in PlacesOf(Seg) \ Returned(Seg, Scan)
      /\ Returned(Seg, Past(scan, n)) = Returned(Seg, Scan) \cup {q}
  BY <1>1, <1>2, <1>3, ReadMoves
<1>7. ScanOK(Seg, Past(scan, n))
  BY <1>1, <1>2, <1>3, <1>5, ScanMoves
<1>8. ScanOK(plan.seg1, scan1)' /\ ScanOK(plan.seg2, scan2)'
  <2> HIDE DEF scan, n
  <2> QED
    BY <1>1, <1>7, ScanSet
<1>9. Refused(page[n + 1].values) \/ Stored(page[n + 1].values)
  BY <1>1, ReadingIs DEF Record, Refused, Stored, RegistersOf, JoinID
<1>10. ValuesAt(Seg, q) = page[n + 1].values
  BY <1>3 DEF ValuesAt
<1>11. Refused(ValuesAt(Seg, q)) \/ Stored(ValuesAt(Seg, q))
  <2> HIDE DEF n, page, q
  <2> QED
    BY <1>9, <1>10
<1> HIDE DEF n, page, q, scan
<1> QED
  BY <1>1, <1>6, <1>8, <1>11

LEMMA RecordKeeps ==
  ASSUME CauseInv, Record
  PROVE  CauseInv'
<1>1. /\ Reading # 0 /\ plan' = plan
      /\ ScanOK(plan.seg1, scan1)' /\ ScanOK(plan.seg2, scan2)'
  BY RecordRead
<1>2. PICK q \in PlacesOf(Seg) : Refused(ValuesAt(Seg, q)) \/ Stored(ValuesAt(Seg, q))
  BY RecordRead
<1>3. /\ q[1] \in DOMAIN Seg.pages /\ q[2] \in DOMAIN Seg.pages[q[1]]
      /\ IsRecord(Seg.pages[q[1]][q[2]])
  BY DEF PlacesOf
<1> DEFINE values == ValuesAt(Seg, q)
           outcome == Loading(Types, values)
           r == RegistersOf(values)
<1>4. Meets(Seg, Types, outcome)
  BY <1>3 DEF Meets, ValuesAt
<1>5. Loads(outcome)
  <2> HIDE DEF outcome
  <2> QED
    BY <1>1, <1>4, ReadingIs DEF Loads
<1>6. outcome \in {"thrown", "aborted", "undefined", "loaded"}
  BY DEF Loading
<1>7. Types \in Seq(Tags) /\ (Types = plan.types1 \/ Types = plan.types2)
  BY <1>1, ReadingIs, PlanFacts DEF CauseInv
<1>8. CASE Refused(values)
  <2>1. /\ pc' = outcome /\ outcome # "loaded" /\ heap' = heap /\ map' = map
    BY <1>8 DEF Refused, joinVars
  <2> HIDE DEF outcome
  <2>2. OpenInv'
    BY <1>1, <1>6, <2>1 DEF OpenInv, IsOpen, Tuple, CauseInv
  <2>3. GoesWrongOnlyIf'
    <3>1. PICK o \in {"thrown", "aborted", "undefined"} : o = outcome
      BY <1>6, <2>1
    <3>2. Loads(o)' /\ pc' = o
      BY <1>1, <1>5, <2>1, <3>1 DEF Loads
    <3> QED
      BY <3>2 DEF GoesWrongOnlyIf
  <2> QED
    BY <1>1, <2>2, <2>3 DEF CauseInv
<1>9. CASE Stored(values)
  <2> DEFINE n == Len(Types)
  <2>1. n \in Nat /\ DOMAIN r = 1..n /\ Len(r) = n /\ r \in Seq({r[k] : k \in 1..n})
    BY <1>7 DEF RegistersOf
  <2>2. Store(r) /\ regs' = regs
    BY <1>9 DEF Stored
  <2>3. PICK S : heap \in Seq(S)
    BY DEF CauseInv, OpenInv
  <2> HIDE DEF r, n
  <2>4. Tuple(regs2', n)
    <3>1. regs2' = [k \in 1..n |-> Len(heap) + k] /\ Len(heap) \in Nat
      BY <2>1, <2>2, <2>3 DEF Store
    <3> QED
      BY <2>1, <3>1 DEF Tuple
  <2>5. \E T : heap' \in Seq(T)
    <3> DEFINE R == {r[k] : k \in 1..n}
    <3>1. heap \in Seq(S \cup R) /\ r \in Seq(S \cup R)
      BY <2>1, <2>3
    <3>2. heap' = heap \o r
      BY <2>2 DEF Store
    <3> HIDE DEF R
    <3>3. heap' \in Seq(S \cup R)
      BY <3>1, <3>2, ConcatProperties
    <3> QED
      BY <3>3
  <2>6. CASE JoinID >= n /\ pc' = "undefined" /\ map' = map
    <3>1. OpenInv'
      BY <1>1, <2>5, <2>6 DEF OpenInv, IsOpen, Tuple, CauseInv
    <3>2. plan.id1 >= Len(plan.types1) \/ plan.id2 >= Len(plan.types2)
      BY <1>1, <2>6, ReadingIs DEF JoinID, n
    <3>3. GoesWrongOnlyIf'
      BY <1>1, <2>6, <3>2 DEF GoesWrongOnlyIf
    <3> QED
      BY <1>1, <3>1, <3>3 DEF CauseInv
  <2>7. CASE /\ Reading = 1 /\ map' = Append(map, [key |-> r[JoinID + 1], regs |-> regs2'])
             /\ pc' = pc
    <3> DEFINE e == [key |-> r[JoinID + 1], regs |-> regs2']
    <3>1. PICK T : map \in Seq(T)
      BY DEF CauseInv, OpenInv
    <3>2. map' = Append(map, e) /\ e.regs = regs2' /\ n = Len(plan.types1) /\ pc = "build"
      BY <2>7, ReadingIs DEF n
    <3> HIDE DEF e
    <3>3. /\ map' \in Seq(T \cup {e})
          /\ \A j \in DOMAIN map' : map'[j] = e \/ (j \in DOMAIN map /\ map'[j] = map[j])
      BY <3>1, <3>2
    <3>4. \A j \in DOMAIN map' : Tuple(map'[j].regs, Len(plan.types1))
      BY <2>4, <3>2, <3>3 DEF CauseInv, OpenInv
    <3>5. OpenInv'
      BY <1>1, <2>5, <2>7, <3>2, <3>3, <3>4 DEF OpenInv, IsOpen
    <3>6. GoesWrongOnlyIf'
      BY <2>7, <3>2 DEF GoesWrongOnlyIf
    <3> QED
      BY <1>1, <3>5, <3>6 DEF CauseInv
  <2>8. CASE /\ Reading = 2 /\ range' \subseteq DOMAIN map /\ map' = map /\ pc' = pc
    <3>1. pc = "next" /\ n = Len(plan.types2)
      BY <2>8, ReadingIs DEF n
    <3>2. \A j \in DOMAIN map' : Tuple(map'[j].regs, Len(plan'.types1))
      BY <1>1, <2>8 DEF CauseInv, OpenInv
    <3>3. \E T : map' \in Seq(T)
      BY <2>8 DEF CauseInv, OpenInv
    <3>4. OpenInv'
      BY <1>1, <2>4, <2>5, <2>8, <3>1, <3>2, <3>3 DEF OpenInv, IsOpen
    <3>5. GoesWrongOnlyIf'
      BY <2>8, <3>1 DEF GoesWrongOnlyIf
    <3> QED
      BY <1>1, <3>4, <3>5 DEF CauseInv
  <2> QED
    BY <1>9, <2>1, <2>6, <2>7, <2>8 DEF Stored, r
<1> QED
  BY <1>2, <1>8, <1>9

LEMMA NextCauseInv ==
  ASSUME CauseInv, [Next]_vars
  PROVE  CauseInv'
<1>1. CASE Finished \/ UNCHANGED vars
  <2>1. UNCHANGED vars
    BY <1>1 DEF Finished
  <2> QED
    BY <2>1 DEF vars, CauseInv, OpenInv, IsOpen, Tuple, GoesWrongOnlyIf, Loads
<1>2. CASE Open
  BY <1>2, OpenKeeps
<1>3. CASE PageEnd
  BY <1>3, PageEndKeeps
<1>4. CASE Outside
  BY <1>4, OutsideKeeps
<1>5. CASE Record
  BY <1>5, RecordKeeps
<1>6. CASE ScanEnd
  BY <1>6, ScanEndKeeps
<1>7. CASE CallNext
  BY <1>7, CallNextKeeps
<1>8. CASE NoMoreMatches
  BY <1>8, NoMoreMatchesKeeps
<1>9. CASE GetOutput
  BY <1>9, GetOutputKeeps
<1>10. CASE Close
  BY <1>10, CloseKeeps
<1>11. ASSUME NEW j \in range, Match(j) PROVE CauseInv'
  BY <1>11, MatchKeeps
<1> QED
  BY <1>1, <1>2, <1>3, <1>4, <1>5, <1>6, <1>7, <1>8, <1>9, <1>10, <1>11 DEF Next

(***************************************************************************)
(* Whatever is joined, selected and projected, and whenever the client     *)
(* calls next and close: an exception, a failed assertion and an access    *)
(* outside a segment or a vector each have their cause in the plan.        *)
(***************************************************************************)
THEOREM FailuresHaveCauses == Spec => []GoesWrongOnlyIf
<1>1. Init => CauseInv
  <2> SUFFICES ASSUME Init PROVE CauseInv
    OBVIOUS
  <2>1. /\ plan \in Plans /\ heap = << >> /\ map = << >> /\ pc = "closed"
    BY DEF Init
  <2>2. heap \in Seq({}) /\ map \in Seq({}) /\ DOMAIN map = {}
    BY <2>1
  <2> QED
    BY <2>1, <2>2 DEF CauseInv, OpenInv, IsOpen, GoesWrongOnlyIf
<1>2. CauseInv /\ [Next]_vars => CauseInv'
  BY NextCauseInv
<1>3. CauseInv => GoesWrongOnlyIf
  BY DEF CauseInv
<1> QED
  BY <1>1, <1>2, <1>3, PTL DEF Spec

-----------------------------------------------------------------------------
(***************************************************************************)
(* A pass, from open to the end.  The hash table holds a tuple for each    *)
(* record of the first segment and each open; a token is such a pair, told *)
(* from the other tuples of the same record by the number of the open.     *)
(***************************************************************************)
Left(p, q)  == [k \in DOMAIN p.types1 |-> Load(p.types1[k], ValuesAt(p.seg1, q), k)]
Right(p, c) == [k \in DOMAIN p.types2 |-> Load(p.types2[k], ValuesAt(p.seg2, c), k)]

Joins(p, q, c)   == Equal(Left(p, q)[p.id1 + 1], Right(p, c)[p.id2 + 1])
Selects(p, q, c) == Equal((Left(p, q) \o Right(p, c))[p.regID + 1], p.constant)
RowAt(p, q, c)   == [k \in DOMAIN p.ids |-> (Left(p, q) \o Right(p, c))[p.ids[k] + 1]]

\* The registers at some places hold a tuple.
Holds(h, places, tuple) ==
    /\ DOMAIN places = DOMAIN tuple
    /\ \A k \in DOMAIN places : places[k] \in DOMAIN h /\ h[places[k]] = tuple[k]

\* The entry of a hash table m for a record, with the heap h.
Entry(p, h, e, q) == Holds(h, e.regs, Left(p, q)) /\ e.key = Left(p, q)[p.id1 + 1]

\* o tells for which token each entry is, f for which of the hits each row.
IsMap(p, T, h, m, o) == /\ o \in Bijection(DOMAIN m, T)
                        /\ \A j \in DOMAIN m : Entry(p, h, m[j], o[j][1])

Hits(p, T, R) == {x \in T \X R : Joins(p, x[1][1], x[2]) /\ Selects(p, x[1][1], x[2])}

IsRows(p, H, printed, f) ==
    /\ f \in Bijection(DOMAIN printed, H)
    /\ \A n \in DOMAIN printed : printed[n] = RowAt(p, f[n][1][1], f[n][2])

LEMMA HoldsOn ==
  ASSUME NEW h, NEW g, NEW places, NEW tuple, Holds(h, places, tuple),
         \A k \in DOMAIN h : k \in DOMAIN g /\ g[k] = h[k]
  PROVE  Holds(g, places, tuple)
BY DEF Holds

\* Store gives new registers to a tuple; those there are stay as they are.
LEMMA HeapGrows ==
  ASSUME NEW S, NEW h \in Seq(S), NEW r \in Seq(S)
  PROVE  /\ \A k \in DOMAIN h : k \in DOMAIN (h \o r) /\ (h \o r)[k] = h[k]
         /\ Holds(h \o r, [k \in DOMAIN r |-> Len(h) + k], r)
<1>1. /\ Len(h \o r) = Len(h) + Len(r) /\ Len(h) \in Nat /\ Len(r) \in Nat
      /\ \A k \in 1..(Len(h) + Len(r)) :
            (h \o r)[k] = IF k <= Len(h) THEN h[k] ELSE r[k - Len(h)]
      /\ h \o r \in Seq(S)
  BY ConcatProperties
<1>2. /\ DOMAIN h = 1..Len(h) /\ DOMAIN r = 1..Len(r)
      /\ DOMAIN (h \o r) = 1..(Len(h) + Len(r))
  BY <1>1
<1> DEFINE g == h \o r
<1> HIDE DEF g
<1>3. \A k \in 1..Len(h) : k \in 1..(Len(h) + Len(r)) /\ g[k] = h[k]
  BY <1>1 DEF g
<1>4. \A k \in 1..Len(r) : /\ Len(h) + k \in 1..(Len(h) + Len(r))
                           /\ g[Len(h) + k] = r[k]
  BY <1>1 DEF g
<1>5. DOMAIN g = 1..(Len(h) + Len(r))
  BY <1>2 DEF g
<1>6. Holds(g, [k \in DOMAIN r |-> Len(h) + k], r)
  BY <1>2, <1>4, <1>5 DEF Holds
<1> QED
  BY <1>2, <1>3, <1>5, <1>6 DEF g

\* A match is the tuple of the one side followed by that of the other.
LEMMA HoldsBoth ==
  ASSUME NEW h, NEW a \in Seq(Nat), NEW b \in Seq(Nat),
         NEW S, NEW u \in Seq(S), NEW v \in Seq(S), Holds(h, a, u), Holds(h, b, v)
  PROVE  Holds(h, a \o b, u \o v)
<1>1. /\ Len(a) \in Nat /\ Len(b) \in Nat /\ Len(u) \in Nat /\ Len(v) \in Nat
      /\ DOMAIN a = 1..Len(a) /\ DOMAIN b = 1..Len(b)
      /\ DOMAIN u = 1..Len(u) /\ DOMAIN v = 1..Len(v)
  OBVIOUS
<1>2. Len(a) = Len(u) /\ Len(b) = Len(v)
  <2>1. \A m, n \in Nat : 1..m = 1..n => m = n
    <3>1. ASSUME NEW m \in Nat, NEW n \in Nat, 1..m = 1..n PROVE m <= n
      <4>1. m # 0 => m \in 1..m
        OBVIOUS
      <4>2. m # 0 => m \in 1..n
        BY <3>1, <4>1
      <4> QED
        BY <4>2
    <3>2. ASSUME NEW m \in Nat, NEW n \in Nat, 1..m = 1..n PROVE m = n
      <4>1. m <= n /\ n <= m
        BY <3>1, <3>2
      <4> QED
        BY <4>1
    <3> QED
      BY <3>2
  <2>2. 1..Len(a) = 1..Len(u) /\ 1..Len(b) = 1..Len(v)
    BY <1>1 DEF Holds
  <2> QED
    BY <1>1, <2>1, <2>2
<1>3. /\ DOMAIN (a \o b) = 1..(Len(a) + Len(b))
      /\ \A k \in 1..(Len(a) + Len(b)) :
            (a \o b)[k] = IF k <= Len(a) THEN a[k] ELSE b[k - Len(a)]
  BY <1>1, ConcatProperties
<1>4. /\ DOMAIN (u \o v) = 1..(Len(u) + Len(v))
      /\ \A k \in 1..(Len(u) + Len(v)) :
            (u \o v)[k] = IF k <= Len(u) THEN u[k] ELSE v[k - Len(u)]
  BY <1>1, ConcatProperties
<1> DEFINE c == a \o b
           w == u \o v
<1> HIDE DEF c, w
<1>5. ASSUME NEW k \in 1..(Len(a) + Len(b)) PROVE c[k] \in DOMAIN h /\ h[c[k]] = w[k]
  <2>1. CASE k <= Len(a)
    <3>1. c[k] = a[k] /\ w[k] = u[k] /\ k \in 1..Len(a)
      BY <1>1, <1>2, <1>3, <1>4, <2>1 DEF c, w
    <3> QED
      BY <1>1, <3>1 DEF Holds
  <2>2. CASE ~(k <= Len(a))
    <3>1. c[k] = b[k - Len(a)] /\ w[k] = v[k - Len(a)] /\ k - Len(a) \in 1..Len(b)
      BY <1>1, <1>2, <1>3, <1>4, <2>2 DEF c, w
    <3> QED
      BY <1>1, <3>1 DEF Holds
  <2> QED
    BY <2>1, <2>2
<1>6. Holds(h, c, w)
  BY <1>2, <1>3, <1>4, <1>5 DEF Holds, c, w
<1> QED
  BY <1>6 DEF c, w

\* One more on both sides of a bijection from the positions of a sequence.
Extends(g, f, n, T, x) ==
    /\ g \in Bijection(1..(n + 1), T \cup {x})
    /\ \A k \in 1..n : g[k] = f[k]
    /\ g[n + 1] = x

LEMMA BijectionGrows ==
  ASSUME NEW n \in Nat, NEW T, NEW f \in Bijection(1..n, T), NEW x, x \notin T
  PROVE  \E g : Extends(g, f, n, T, x)
<1> DEFINE g == [k \in 1..(n + 1) |-> IF k = n + 1 THEN x ELSE f[k]]
<1>1. /\ f \in [1..n -> T] /\ \A i, j \in 1..n : f[i] = f[j] => i = j
      /\ \A t \in T : \E k \in 1..n : f[k] = t
  BY Fun_BijectionProperties
<1>2. g[n + 1] = x /\ \A k \in 1..n : g[k] = f[k]
  OBVIOUS
<1>3. g \in [1..(n + 1) -> T \cup {x}]
  BY <1>1
<1> HIDE DEF g
<1>4. ASSUME NEW i \in 1..(n + 1), NEW j \in 1..(n + 1), g[i] = g[j] PROVE i = j
  <2>1. (i \in 1..n \/ i = n + 1) /\ (j \in 1..n \/ j = n + 1)
    OBVIOUS
  <2> QED
    BY <1>1, <1>2, <1>4, <2>1
<1>5. ASSUME NEW t \in T \cup {x} PROVE \E k \in 1..(n + 1) : g[k] = t
  <2>1. n + 1 \in 1..(n + 1) /\ 1..n \subseteq 1..(n + 1)
    OBVIOUS
  <2> QED
    BY <1>1, <1>2, <2>1
<1>6. g \in Bijection(1..(n + 1), T \cup {x})
  BY <1>3, <1>4, <1>5, Fun_IsBij
<1>7. Extends(g, f, n, T, x)
  BY <1>2, <1>6 DEF Extends
<1> QED
  BY <1>7

LEMMA AppendIs ==
  ASSUME NEW S, NEW s \in Seq(S), NEW e
  PROVE  /\ Len(s) \in Nat /\ DOMAIN s = 1..Len(s)
         /\ DOMAIN Append(s, e) = 1..(Len(s) + 1)
         /\ \A k \in 1..Len(s) : Append(s, e)[k] = s[k]
         /\ Append(s, e)[Len(s) + 1] = e
<1>1. s \in Seq(S \cup {e}) /\ e \in S \cup {e}
  OBVIOUS
<1> QED
  BY <1>1, AppendProperties, LenProperties

LEMMA MapGrows ==
  ASSUME NEW p, NEW T, NEW h, NEW S, NEW m \in Seq(S), NEW o, IsMap(p, T, h, m, o),
         NEW g, \A k \in DOMAIN h : k \in DOMAIN g /\ g[k] = h[k],
         NEW t, t \notin T, NEW e, Entry(p, g, e, t[1])
  PROVE  \E u : IsMap(p, T \cup {t}, g, Append(m, e), u)
<1> DEFINE a == Append(m, e)
<1>1. /\ Len(m) \in Nat /\ DOMAIN m = 1..Len(m)
      /\ DOMAIN a = 1..(Len(m) + 1) /\ a[Len(m) + 1] = e
      /\ \A k \in 1..Len(m) : a[k] = m[k]
  BY AppendIs
<1>2. o \in Bijection(1..Len(m), T)
  BY <1>1 DEF IsMap
<1>3. PICK u : Extends(u, o, Len(m), T, t)
  BY <1>1, <1>2, BijectionGrows
<1> HIDE DEF a
<1>4. ASSUME NEW j \in DOMAIN a PROVE Entry(p, g, a[j], u[j][1])
  <2>1. CASE j = Len(m) + 1
    BY <1>1, <1>3, <2>1 DEF Extends
  <2>2. CASE j # Len(m) + 1
    <3>1. j \in 1..Len(m)
      BY <1>1, <2>2
    <3>2. Entry(p, h, m[j], o[j][1])
      BY <1>1, <3>1 DEF IsMap
    <3>3. Entry(p, g, m[j], o[j][1])
      BY <3>2, HoldsOn DEF Entry
    <3> QED
      BY <1>1, <1>3, <3>1, <3>3 DEF Extends
  <2> QED
    BY <2>1, <2>2
<1>5. IsMap(p, T \cup {t}, g, a, u)
  BY <1>1, <1>3, <1>4 DEF IsMap, Extends
<1> QED
  BY <1>5 DEF a

LEMMA RowsGrow ==
  ASSUME NEW p, NEW H, NEW S, NEW printed \in Seq(S), NEW o, IsRows(p, H, printed, o),
         NEW y, y \notin H
  PROVE  \E u : IsRows(p, H \cup {y}, Append(printed, RowAt(p, y[1][1], y[2])), u)
<1>0. PICK e : e = RowAt(p, y[1][1], y[2])
  OBVIOUS
<1> DEFINE a == Append(printed, e)
<1>1. /\ Len(printed) \in Nat /\ DOMAIN printed = 1..Len(printed)
      /\ DOMAIN a = 1..(Len(printed) + 1) /\ a[Len(printed) + 1] = e
      /\ \A k \in 1..Len(printed) : a[k] = printed[k]
  BY AppendIs
<1>2. o \in Bijection(1..Len(printed), H)
  BY <1>1 DEF IsRows
<1>3. PICK u : Extends(u, o, Len(printed), H, y)
  BY <1>1, <1>2, BijectionGrows
<1> HIDE DEF a
<1>4. ASSUME NEW j \in DOMAIN a PROVE a[j] = RowAt(p, u[j][1][1], u[j][2])
  <2>1. CASE j = Len(printed) + 1
    BY <1>0, <1>1, <1>3, <2>1 DEF Extends
  <2>2. CASE j # Len(printed) + 1
    <3>1. j \in 1..Len(printed)
      BY <1>1, <2>2
    <3> QED
      BY <1>1, <1>3, <3>1 DEF IsRows, Extends
  <2> QED
    BY <2>1, <2>2
<1>5. IsRows(p, H \cup {y}, a, u)
  BY <1>1, <1>3, <1>4 DEF IsRows, Extends
<1> QED
  BY <1>0, <1>5 DEF a

(***************************************************************************)
(* The records a scan has returned and, of those of the first segment,     *)
(* whether they can be loaded at all.                                      *)
(***************************************************************************)
Passing == {"open", "next", "got", "end"}

Returned1 == Returned(plan.seg1, scan1)
Returned2 == Returned(plan.seg2, scan2)

Hopeless == /\ PlacesOf(plan.seg1) # {}
            /\ \E k \in DOMAIN plan.types1 : ~CanLoad(plan.types1[k])

ReadInv ==
    /\ opens \in Nat /\ (IsOpen => opens # 0)
    /\ pc = "build" => rows = << >> /\ Returned2 = {}
    /\ pc = "end" => ~hasRange /\ Returned2 = PlacesOf(plan.seg2)
    /\ Hopeless => pc \notin Passing /\ (pc = "build" => Returned1 = {})

(***************************************************************************)
(* The tokens in the hash table, all of the last open only once it is      *)
(* built.  Of the hits so far (with the second scan's records up to the    *)
(* one at c) all have been printed but those of the matches left and, when *)
(* next has just returned it, that of the entry g.                         *)
(***************************************************************************)
Tokens == {t \in PlacesOf(plan.seg1) \X (1..opens) :
              pc = "build" /\ t[2] = opens => t[1] \in Returned1}

Pending(o, g, c) ==
    {<<o[j], c>> : j \in {i \in DOMAIN map : \/ hasRange /\ i \in range
                                             \/ pc = "got" /\ i = g}}

MatchInv(o, g, c) ==
    /\ hasRange => /\ c \in Returned2 /\ Holds(heap, regs2, Right(plan, c))
                   /\ \A j \in range : Joins(plan, o[j][1], c)
    /\ pc = "got" => /\ hasRange /\ g \in DOMAIN map \ range
                     /\ Joins(plan, o[g][1], c) /\ Selects(plan, o[g][1], c)
                     /\ Holds(heap, regs, Left(plan, o[g][1]) \o Right(plan, c))

RowsInv(o, f, g, c) ==
    /\ MatchInv(o, g, c)
    /\ IsRows(plan, Hits(plan, Tokens, Returned2) \ Pending(o, g, c), rows, f)

TablesInv ==
    pc \notin {"aborted", "undefined"} /\ ~Hopeless =>
        \E o : /\ IsMap(plan, Tokens, heap, map, o)
               /\ pc \in Passing => \E f, g, c : RowsInv(o, f, g, c)

PassInv == CauseInv /\ (\E S : rows \in Seq(S)) /\ ReadInv /\ TablesInv

LEMMA TokensStay ==
  ASSUME plan' = plan, opens' = opens,
         \/ pc # "build" /\ pc' # "build"
         \/ pc = "build" /\ pc' = "build" /\ Returned1' = Returned1
  PROVE  Tokens' = Tokens
BY DEF Tokens

\* A step that is not for the hash table, and with no row to account for.
LEMMA MapStays ==
  ASSUME TablesInv, plan' = plan, heap' = heap, map' = map, Tokens' = Tokens,
         pc \notin {"aborted", "undefined"}, pc' \notin Passing
  PROVE  TablesInv'
<1>1. Hopeless' = Hopeless
  BY DEF Hopeless
<1>2. CASE Hopeless
  BY <1>1, <1>2 DEF TablesInv
<1>3. CASE ~Hopeless
  <2>1. PICK o : IsMap(plan, Tokens, heap, map, o)
    BY <1>3 DEF TablesInv
  <2>2. IsMap(plan', Tokens', heap', map', o)
    BY <2>1
  <2> QED
    BY <2>2 DEF TablesInv
<1> QED
  BY <1>2, <1>3

\* A step within a pass that is not for the tables.
LEMMA RowsStay ==
  ASSUME TablesInv, plan' = plan, heap' = heap, map' = map, opens' = opens, rows' = rows,
         pc \in Passing \ {"got"}, pc' \in Passing \ {"got"}, Returned2' = Returned2,
         regs2' = regs2, \/ hasRange' = hasRange /\ range' = range
                         \/ ~hasRange' /\ (hasRange => range = {})
  PROVE  TablesInv'
<1>1. Hopeless' = Hopeless
  BY DEF Hopeless
<1>2. CASE Hopeless
  BY <1>1, <1>2 DEF TablesInv
<1>3. CASE ~Hopeless
  <2>1. PICK o : /\ IsMap(plan, Tokens, heap, map, o)
                 /\ pc \in Passing => \E f, g, c : RowsInv(o, f, g, c)
    BY <1>3 DEF TablesInv, Passing
  <2>2. PICK f, g, c : RowsInv(o, f, g, c)
    BY <2>1
  <2>3. Tokens' = Tokens
    BY TokensStay DEF Passing
  <2>4. Pending(o, g, c)' = Pending(o, g, c)
    BY DEF Pending
  <2>5. MatchInv(o, g, c)'
    BY <2>2 DEF RowsInv, MatchInv
  <2>6. IsRows(plan, Hits(plan, Tokens, Returned2) \ Pending(o, g, c), rows, f)'
    BY <2>2, <2>3, <2>4 DEF RowsInv
  <2>7. RowsInv(o, f, g, c)'
    BY <2>5, <2>6 DEF RowsInv
  <2>8. IsMap(plan, Tokens, heap, map, o)'
    BY <2>1, <2>3
  <2> QED
    BY <2>7, <2>8 DEF TablesInv
<1> QED
  BY <1>2, <1>3

LEMMA OpenPasses ==
  ASSUME PassInv, Open
  PROVE  PassInv'
<1>1. /\ plan' = plan /\ heap' = heap /\ map' = map /\ pc = "closed" /\ pc' = "build"
      /\ rows' = << >> /\ opens' = opens + 1 /\ opens \in Nat
      /\ scan1' = Opened(First(plan.seg1), LastPage(plan.seg1))
      /\ scan2' = Opened(First(plan.seg2), LastPage(plan.seg2))
  BY DEF Open, joinVars, PassInv, ReadInv
<1>2. Returned1' = {} /\ Returned2' = {}
  <2>1. plan.seg1 \in Segments /\ plan.seg2 \in Segments
    BY PlanFacts DEF PassInv, CauseInv
  <2>2. Returned(plan.seg1, scan1') = {} /\ Returned(plan.seg2, scan2') = {}
    BY <1>1, <2>1, ReturnedNone
  <2> QED
    BY <1>1, <2>2 DEF Returned1, Returned2
<1>3. Tokens' = Tokens
  <2>1. ASSUME NEW t \in PlacesOf(plan.seg1) \X (1..(opens + 1)), t[2] = opens + 1 => FALSE
        PROVE  t \in PlacesOf(plan.seg1) \X (1..opens)
    BY <1>1, <2>1
  <2>2. ASSUME NEW t \in PlacesOf(plan.seg1) \X (1..opens)
        PROVE  t \in PlacesOf(plan.seg1) \X (1..(opens + 1)) /\ t[2] # opens + 1
    BY <1>1
  <2> QED
    BY <1>1, <1>2, <2>1, <2>2 DEF Tokens
<1>4. TablesInv'
  BY <1>1, <1>3, MapStays DEF PassInv, Passing
<1>5. ReadInv'
  BY <1>1, <1>2 DEF ReadInv, Passing
<1>6. rows' \in Seq({})
  BY <1>1
<1> QED
  BY <1>4, <1>5, <1>6, OpenKeeps DEF PassInv

\* A scan that goes to the next page has returned no record more.
LEMMA PageEndReads ==
  ASSUME CauseInv, PageEnd
  PROVE  Returned1' = Returned1 /\ Returned2' = Returned2
<1> DEFINE p == PageOf(Scan)
           n == Len(PageAt(Seg, p))
           s == Unfixed(Loaded(Scan, n))
<1>1. Reading # 0 /\ HasPage(Seg, p) /\ plan' = plan /\ SetScan(s)
  BY DEF PageEnd
<1>2. NextRecord(Loaded(Scan, n), Records(PageAt(Seg, p))) = Loaded(Scan, n).slotCount
  BY DEF PageEnd
<1>3. Seg \in Segments /\ ScanOK(Seg, Scan) /\ Scan \in Scans
  BY <1>1, ReadScan
<1>4. n \in Nat
  <2>1. p \in Int
    BY <1>3 DEF PageOf, Scans
  <2> QED
    BY <1>1, <1>3, <2>1, PageIs
<1>5. Returned(Seg, s) = Returned(Seg, Scan)
  BY <1>1, <1>2, <1>3, <1>4, ReadMoves
<1> HIDE DEF s
<1> QED
  BY <1>1, <1>5, ReadingIs DEF SetScan, Returned1, Returned2

LEMMA PageEndPasses ==
  ASSUME PassInv, PageEnd
  PROVE  PassInv'
<1>1. /\ plan' = plan /\ heap' = heap /\ map' = map /\ pc' = pc /\ rows' = rows
      /\ opens' = opens /\ hasRange' = hasRange /\ range' = range /\ regs2' = regs2
      /\ Reading # 0
  BY DEF PageEnd, joinVars
<1>2. Returned1' = Returned1 /\ Returned2' = Returned2
  BY PageEndReads DEF PassInv
<1>3. ReadInv'
  BY <1>1, <1>2 DEF PassInv, ReadInv, Hopeless, IsOpen
<1>4. TablesInv'
  <2>1. CASE pc = "build"
    <3>1. Tokens' = Tokens
      BY <1>1, <1>2, <2>1, TokensStay
    <3> QED
      BY <1>1, <2>1, <3>1, MapStays DEF PassInv, Passing
  <2>2. CASE pc = "next"
    BY <1>1, <1>2, <2>2, RowsStay DEF PassInv, Passing
  <2> QED
    BY <1>1, <2>1, <2>2, ReadingIs
<1>5. \E S : rows' \in Seq(S)
  BY <1>1 DEF PassInv
<1> QED
  BY <1>3, <1>4, <1>5, PageEndKeeps DEF PassInv

LEMMA OutsidePasses ==
  ASSUME PassInv, Outside
  PROVE  PassInv'
<1>1. pc' = "undefined" /\ rows' = rows /\ opens' = opens
  BY DEF Outside
<1>2. ReadInv' /\ TablesInv'
  BY <1>1 DEF PassInv, ReadInv, TablesInv, IsOpen, Passing
<1>3. \E S : rows' \in Seq(S)
  BY <1>1 DEF PassInv
<1> QED
  BY <1>2, <1>3, OutsideKeeps DEF PassInv

LEMMA CallNextPasses ==
  ASSUME PassInv, CallNext
  PROVE  PassInv'
<1>1. /\ plan' = plan /\ heap' = heap /\ map' = map /\ pc \in {"open", "end"}
      /\ pc' = "next" /\ rows' = rows /\ opens' = opens /\ hasRange' = hasRange
      /\ range' = range /\ regs2' = regs2 /\ scan1' = scan1 /\ scan2' = scan2
  BY DEF CallNext, joinVars, tables
<1>2. Returned1' = Returned1 /\ Returned2' = Returned2 /\ Hopeless' = Hopeless
  BY <1>1 DEF Returned1, Returned2, Hopeless
<1>3. ReadInv'
  BY <1>1, <1>2 DEF PassInv, ReadInv, IsOpen, Passing
<1>4. TablesInv'
  BY <1>1, <1>2, RowsStay DEF PassInv, Passing
<1>5. \E S : rows' \in Seq(S)
  BY <1>1 DEF PassInv
<1> QED
  BY <1>3, <1>4, <1>5, CallNextKeeps DEF PassInv

LEMMA NoMoreMatchesPasses ==
  ASSUME PassInv, NoMoreMatches
  PROVE  PassInv'
<1>1. /\ plan' = plan /\ heap' = heap /\ map' = map /\ pc = "next" /\ range = {}
      /\ pc' = "next" /\ rows' = rows /\ opens' = opens /\ ~hasRange'
      /\ regs2' = regs2 /\ scan1' = scan1 /\ scan2' = scan2
  BY DEF NoMoreMatches, tables
<1>2. Returned1' = Returned1 /\ Returned2' = Returned2 /\ Hopeless' = Hopeless
  BY <1>1 DEF Returned1, Returned2, Hopeless
<1>3. ReadInv'
  BY <1>1, <1>2 DEF PassInv, ReadInv, IsOpen, Passing
<1>4. TablesInv'
  BY <1>1, <1>2, RowsStay DEF PassInv, Passing
<1>5. \E S : rows' \in Seq(S)
  BY <1>1 DEF PassInv
<1> QED
  BY <1>3, <1>4, <1>5, NoMoreMatchesKeeps DEF PassInv

LEMMA ClosePasses ==
  ASSUME PassInv, Close
  PROVE  PassInv'
<1>1. /\ plan' = plan /\ heap' = heap /\ map' = map
      /\ pc \in {"open", "got", "end", "thrown"}
      /\ pc' = "closed" /\ rows' = rows /\ opens' = opens
  BY DEF Close, joinVars
<1>2. Tokens' = Tokens
  BY <1>1, TokensStay
<1>3. ReadInv'
  BY <1>1 DEF PassInv, ReadInv, IsOpen, Passing
<1>4. TablesInv'
  BY <1>1, <1>2, MapStays DEF PassInv, Passing
<1>5. \E S : rows' \in Seq(S)
  BY <1>1 DEF PassInv
<1> QED
  BY <1>3, <1>4, <1>5, CloseKeeps DEF PassInv

LEMMA ScanEndPasses ==
  ASSUME PassInv, ScanEnd
  PROVE  PassInv'
<1>1. /\ plan' = plan /\ heap' = heap /\ map' = map /\ rows' = rows /\ opens' = opens
      /\ ~hasRange' /\ regs2' = regs2 /\ range' = range
      /\ scan1' = scan1 /\ scan2' = scan2 /\ Reading # 0
      /\ pc' = IF Reading = 1 THEN "open" ELSE "end"
  BY DEF ScanEnd, tables
<1>2. Returned1' = Returned1 /\ Returned2' = Returned2 /\ Hopeless' = Hopeless
  BY <1>1 DEF Returned1, Returned2, Hopeless
<1>3. Returned(Seg, Scan) = PlacesOf(Seg)
  <2>1. AtEnd(Scan)
    BY DEF ScanEnd
  <2> QED
    BY <1>1, <2>1, ReadScan, ReturnedAll DEF PassInv
<1>4. CASE Reading = 1
  <2>1. pc = "build" /\ pc' = "open" /\ Returned1 = PlacesOf(plan.seg1)
    BY <1>1, <1>3, <1>4, ReadingIs DEF Returned1
  <2>2. ~Hopeless /\ rows = << >> /\ Returned2 = {}
    BY <2>1 DEF PassInv, ReadInv, Hopeless
  <2>3. Tokens' = Tokens
    <3>1. Tokens' = PlacesOf(plan.seg1) \X (1..opens)
      BY <1>1, <2>1 DEF Tokens
    <3>2. Tokens = PlacesOf(plan.seg1) \X (1..opens)
      BY <2>1 DEF Tokens
    <3> QED
      BY <3>1, <3>2
  <2>4. PICK o : IsMap(plan, Tokens, heap, map, o)
    BY <2>1, <2>2 DEF PassInv, TablesInv
  <2>5. IsMap(plan, Tokens, heap, map, o)'
    BY <1>1, <2>3, <2>4
  <2>6. \A g, c : RowsInv(o, << >>, g, c)'
    <3> SUFFICES ASSUME NEW g, NEW c PROVE RowsInv(o, << >>, g, c)'
      OBVIOUS
    <3>1. MatchInv(o, g, c)'
      BY <1>1, <2>1 DEF MatchInv
    <3>2. Hits(plan', Tokens', Returned2') = {}
      BY <1>2, <2>2 DEF Hits
    <3>3. << >> \in Bijection(DOMAIN << >>, {})
      <4>1. DOMAIN << >> = {} /\ << >> \in [{} -> {}]
        OBVIOUS
      <4> QED
        BY <4>1, Fun_IsBij
    <3>4. IsRows(plan', {}, rows', << >>)
      BY <1>1, <2>2, <3>3 DEF IsRows
    <3>5. Hits(plan', Tokens', Returned2') \ Pending(o, g, c)' = {}
      BY <3>2
    <3> QED
      BY <3>1, <3>4, <3>5 DEF RowsInv
  <2>7. TablesInv'
    BY <2>5, <2>6 DEF TablesInv
  <2>8. ReadInv'
    BY <1>1, <1>2, <2>1, <2>2 DEF PassInv, ReadInv, IsOpen, Passing
  <2> QED
    BY <1>1, <2>7, <2>8, ScanEndKeeps DEF PassInv
<1>5. CASE Reading = 2
  <2>1. pc = "next" /\ ~hasRange /\ pc' = "end" /\ Returned2 = PlacesOf(plan.seg2)
    BY <1>1, <1>3, <1>5, ReadingIs DEF Returned2
  <2>2. TablesInv'
    BY <1>1, <1>2, <2>1, RowsStay DEF PassInv, Passing
  <2>3. ReadInv'
    BY <1>1, <1>2, <2>1 DEF PassInv, ReadInv, IsOpen, Passing
  <2> QED
    BY <1>1, <2>2, <2>3, ScanEndKeeps DEF PassInv
<1> QED
  BY <1>1, <1>4, <1>5, ReadingIs

\* The registers of a record, as a sequence.
LEMMA TuplesAre ==
  ASSUME NEW p \in Plans, NEW q
  PROVE  /\ Left(p, q) \in Seq({Left(p, q)[k] : k \in 1..Len(p.types1)})
         /\ Right(p, q) \in Seq({Right(p, q)[k] : k \in 1..Len(p.types2)})
<1>1. p.types1 \in Seq(Tags) /\ p.types2 \in Seq(Tags)
  BY PlanFacts
<1>2. /\ DOMAIN p.types1 = 1..Len(p.types1) /\ Len(p.types1) \in Nat
      /\ DOMAIN p.types2 = 1..Len(p.types2) /\ Len(p.types2) \in Nat
  BY <1>1
<1>3. ASSUME NEW n \in Nat, NEW f, f = [k \in 1..n |-> f[k]] PROVE f \in Seq({f[k] : k \in 1..n})
  <2>1. f \in [1..n -> {f[k] : k \in 1..n}]
    BY <1>3
  <2> QED
    BY <2>1
<1>4. Left(p, q) = [k \in 1..Len(p.types1) |-> Left(p, q)[k]]
  BY <1>2 DEF Left
<1>5. Right(p, q) = [k \in 1..Len(p.types2) |-> Right(p, q)[k]]
  BY <1>2 DEF Right
<1> QED
  BY <1>2, <1>3, <1>4, <1>5

LEMMA MatchPasses ==
  ASSUME PassInv, NEW j \in range, Match(j)
  PROVE  PassInv'
<1>1. /\ plan' = plan /\ heap' = heap /\ map' = map /\ rows' = rows /\ opens' = opens
      /\ pc = "next" /\ hasRange /\ hasRange' = hasRange /\ regs2' = regs2
      /\ range' = range \ {j} /\ scan1' = scan1 /\ scan2' = scan2
      /\ regs' = map[j].regs \o regs2 /\ pc' = Selected(regs')
  BY DEF Match, tables
<1>2. Returned1' = Returned1 /\ Returned2' = Returned2 /\ Hopeless' = Hopeless
  BY <1>1 DEF Returned1, Returned2, Hopeless
<1>3. pc' \in {"thrown", "got", "next"}
  BY <1>1 DEF Selected
<1>4. ReadInv'
  BY <1>1, <1>2, <1>3 DEF PassInv, ReadInv, IsOpen, Passing
<1>5. Tokens' = Tokens
  BY <1>1, <1>3, TokensStay
<1>6. CASE pc' = "thrown"
  <2>1. TablesInv'
    BY <1>1, <1>5, <1>6, MapStays DEF PassInv, Passing
  <2> QED
    BY <1>1, <1>4, <2>1, MatchKeeps DEF PassInv
<1>7. CASE pc' \in {"got", "next"} /\ Hopeless
  <2>1. TablesInv'
    BY <1>2, <1>7 DEF TablesInv
  <2> QED
    BY <1>1, <1>4, <2>1, MatchKeeps DEF PassInv
<1>8. CASE pc' \in {"got", "next"} /\ ~Hopeless
  <2>1. PICK o : /\ IsMap(plan, Tokens, heap, map, o)
                 /\ \E f, g, c : RowsInv(o, f, g, c)
    BY <1>1, <1>8 DEF PassInv, TablesInv, Passing
  <2>2. PICK f, g, c : RowsInv(o, f, g, c)
    BY <2>1
  <2> DEFINE q == o[j][1]
             u == Left(plan, q)
             v == Right(plan, c)
  <2>3. /\ range \subseteq DOMAIN map /\ j \in DOMAIN map
        /\ map[j].regs \in Seq(Nat) /\ regs2 \in Seq(Nat) /\ plan \in Plans
    BY <1>1 DEF PassInv, CauseInv, OpenInv, Tuple
  <2>4. /\ Holds(heap, map[j].regs, u) /\ Holds(heap, regs2, v)
        /\ \A i \in range : Joins(plan, o[i][1], c)
        /\ c \in Returned2
    BY <1>1, <2>1, <2>2, <2>3 DEF IsMap, Entry, RowsInv, MatchInv
  <2>5. Holds(heap, regs', u \o v)
    <3> DEFINE U == {u[k] : k \in 1..Len(plan.types1)}
               V == {v[k] : k \in 1..Len(plan.types2)}
    <3>1. u \in Seq(U) /\ v \in Seq(V)
      BY <2>3, TuplesAre
    <3> HIDE DEF u, v, U, V
    <3>2. u \in Seq(U \cup V) /\ v \in Seq(U \cup V)
      BY <3>1
    <3>3. Holds(heap, map[j].regs \o regs2, u \o v)
      BY <2>3, <2>4, <3>2, HoldsBoth
    <3> QED
      BY <1>1, <3>3
  <2>6. pc' = "got" <=> Selects(plan, q, c)
    <3>1. plan.regID \in Nat /\ regs' \in Seq(Nat)
      <4>1. map[j].regs \o regs2 \in Seq(Nat)
        BY <2>3, ConcatProperties
      <4> QED
        BY <1>1, <2>3, <4>1, PlanFacts
    <3>2. ~(plan.regID >= Len(regs'))
      BY <1>1, <1>8 DEF Selected
    <3>3. plan.regID + 1 \in DOMAIN regs'
      BY <3>1, <3>2
    <3>4. heap[regs'[plan.regID + 1]] = (u \o v)[plan.regID + 1]
      BY <2>5, <3>3 DEF Holds
    <3>5. pc' = "got" <=> Equal(heap[regs'[plan.regID + 1]], plan.constant)
      BY <1>1, <3>2 DEF Selected
    <3> QED
      BY <3>4, <3>5 DEF Selects
  <2>7. Joins(plan, q, c)
    BY <2>4
  <2> HIDE DEF q, u, v
  <2>8. MatchInv(o, j, c)'
    BY <1>1, <1>2, <2>3, <2>4, <2>5, <2>6, <2>7 DEF MatchInv, q, u, v
  <2>9. Hits(plan, Tokens, Returned2) \ Pending(o, j, c)'
          = Hits(plan, Tokens, Returned2) \ Pending(o, g, c)
    <3> DEFINE x == <<o[j], c>>
               H == Hits(plan, Tokens, Returned2)
    <3>1. Pending(o, g, c) = {<<o[i], c>> : i \in range}
      BY <1>1, <2>3 DEF Pending
    <3>2. CASE pc' = "got"
      <4>1. Pending(o, j, c)' = {<<o[i], c>> : i \in range}
        BY <1>1, <2>3, <3>2 DEF Pending
      <4> QED
        BY <3>1, <4>1
    <3>3. CASE pc' = "next"
      <4>1. Pending(o, j, c)' = {<<o[i], c>> : i \in range \ {j}}
        BY <1>1, <2>3, <3>3 DEF Pending
      <4>2. ~Selects(plan, o[j][1], c)
        BY <2>6, <3>3 DEF q
      <4>3. x \notin H
        BY <4>2 DEF Hits
      <4>4. Pending(o, g, c) = Pending(o, j, c)' \cup {x}
        BY <3>1, <4>1
      <4> HIDE DEF x, H
      <4>5. H \ Pending(o, j, c)' = H \ Pending(o, g, c)
        BY <4>3, <4>4
      <4> QED
        BY <4>5 DEF H
    <3> QED
      BY <1>8, <3>2, <3>3
  <2>10. IsRows(plan, Hits(plan, Tokens, Returned2) \ Pending(o, j, c), rows, f)'
    BY <1>1, <1>2, <1>5, <2>2, <2>9 DEF RowsInv
  <2>11. RowsInv(o, f, j, c)'
    BY <2>8, <2>10 DEF RowsInv
  <2>12. IsMap(plan, Tokens, heap, map, o)'
    BY <1>1, <1>5, <2>1
  <2>13. TablesInv'
    BY <2>11, <2>12 DEF TablesInv
  <2> QED
    BY <1>1, <1>4, <2>13, MatchKeeps DEF PassInv
<1> QED
  BY <1>3, <1>6, <1>7, <1>8

LEMMA GetOutputPasses ==
  ASSUME PassInv, GetOutput
  PROVE  PassInv'
<1>1. /\ plan' = plan /\ heap' = heap /\ map' = map /\ opens' = opens
      /\ pc = "got" /\ pc' \in {"thrown", "open"} /\ hasRange' = hasRange /\ regs2' = regs2
      /\ range' = range /\ scan1' = scan1 /\ scan2' = scan2
  BY DEF GetOutput, tables, joinVars
<1>2. Returned1' = Returned1 /\ Returned2' = Returned2 /\ Hopeless' = Hopeless
  BY <1>1 DEF Returned1, Returned2, Hopeless
<1>3. ReadInv'
  BY <1>1, <1>2 DEF PassInv, ReadInv, IsOpen, Passing
<1>4. Tokens' = Tokens
  BY <1>1, TokensStay
<1>5. CASE pc' = "thrown"
  <2>1. rows' = rows
    BY <1>5 DEF GetOutput
  <2>2. TablesInv'
    BY <1>1, <1>4, <1>5, MapStays DEF PassInv, Passing
  <2> QED
    BY <1>3, <2>1, <2>2, GetOutputKeeps DEF PassInv
<1>6. CASE pc' = "open"
  <2>1. ~Hopeless
    BY <1>1 DEF PassInv, ReadInv, Passing
  <2>2. PICK o : /\ IsMap(plan, Tokens, heap, map, o)
                 /\ \E f, g, c : RowsInv(o, f, g, c)
    BY <1>1, <2>1 DEF PassInv, TablesInv, Passing
  <2>3. PICK f, g, c : RowsInv(o, f, g, c)
    BY <2>2
  <2> DEFINE x == <<o[g], c>>
             row == RowAt(plan, o[g][1], c)
             H == Hits(plan, Tokens, Returned2)
  <2>4. /\ hasRange /\ g \in DOMAIN map \ range /\ range \subseteq DOMAIN map
        /\ c \in Returned2 /\ Joins(plan, o[g][1], c) /\ Selects(plan, o[g][1], c)
        /\ Holds(heap, regs, Left(plan, o[g][1]) \o Right(plan, c))
    BY <1>1, <2>3 DEF RowsInv, MatchInv, PassInv, CauseInv, OpenInv
  <2>5. o \in [DOMAIN map -> Tokens] /\ \A i, j \in DOMAIN map : o[i] = o[j] => i = j
    BY <2>2, Fun_BijectionProperties DEF IsMap
  <2>6. rows' = Append(rows, row)
    <3> DEFINE out == [k \in DOMAIN plan.ids |-> regs[plan.ids[k] + 1]]
    <3>1. /\ \A k \in DOMAIN plan.ids : ~(plan.ids[k] >= Len(regs))
          /\ rows' = Append(rows, Printed(out))
      BY <1>6 DEF GetOutput
    <3>2. regs \in Seq(Nat) /\ plan.ids \in Seq(Nat)
      BY <1>1, PlanFacts DEF PassInv, CauseInv, OpenInv, Tuple
    <3>3. ASSUME NEW k \in DOMAIN plan.ids
          PROVE  heap[regs[plan.ids[k] + 1]]
                   = (Left(plan, o[g][1]) \o Right(plan, c))[plan.ids[k] + 1]
      <4>1. plan.ids[k] \in Nat /\ ~(plan.ids[k] >= Len(regs))
        BY <3>1, <3>2
      <4>2. plan.ids[k] + 1 \in DOMAIN regs
        BY <3>2, <4>1
      <4> QED
        BY <2>4, <4>2 DEF Holds
    <3>4. Printed(out) = row
      BY <3>3 DEF Printed, RowAt
    <3> QED
      BY <3>1, <3>4
  <2>7. x \in H
    BY <2>4, <2>5 DEF Hits
  <2>8. /\ Pending(o, g, c) = {<<o[i], c>> : i \in range \cup {g}}
        /\ Pending(o, g, c)' = {<<o[i], c>> : i \in range}
    BY <1>1, <1>6, <2>4 DEF Pending
  <2>9. x \in Pending(o, g, c) /\ x \notin Pending(o, g, c)'
    BY <2>4, <2>5, <2>8
  <2>10. Pending(o, g, c) = Pending(o, g, c)' \cup {x}
    BY <2>8
  <2>11. IsRows(plan, H \ Pending(o, g, c), rows, f)
    BY <2>3 DEF RowsInv
  <2>12. H \ Pending(o, g, c)' = (H \ Pending(o, g, c)) \cup {x}
    <3> HIDE DEF x, H
    <3> QED
      BY <2>7, <2>9, <2>10
  <2>13. PICK S : rows \in Seq(S)
    BY DEF PassInv
  <2>14. \E u : IsRows(plan, (H \ Pending(o, g, c)) \cup {x}, Append(rows, row), u)
    <3>1. x[1] = o[g] /\ x[2] = c
      OBVIOUS
    <3>2. PICK G : G = H \ Pending(o, g, c)
      OBVIOUS
    <3>3. IsRows(plan, G, rows, f) /\ x \notin G
      BY <2>9, <2>11, <3>2
    <3> HIDE DEF x
    <3>4. \E u : IsRows(plan, G \cup {x}, Append(rows, RowAt(plan, x[1][1], x[2])), u)
      BY <2>13, <3>3, RowsGrow
    <3> QED
      BY <3>1, <3>2, <3>4
  <2>15. PICK u : IsRows(plan, (H \ Pending(o, g, c)) \cup {x}, Append(rows, row), u)
    BY <2>14
  <2>16. IsRows(plan, Hits(plan, Tokens, Returned2) \ Pending(o, g, c), rows, u)'
    BY <1>1, <1>2, <1>4, <2>6, <2>12, <2>15
  <2>17. MatchInv(o, g, c)'
    <3>1. \A i \in range : Joins(plan, o[i][1], c)
      BY <2>3, <2>4 DEF RowsInv, MatchInv
    <3>2. Holds(heap, regs2, Right(plan, c))
      BY <2>3, <2>4 DEF RowsInv, MatchInv
    <3> QED
      BY <1>1, <1>2, <1>6, <2>4, <3>1, <3>2 DEF MatchInv
  <2>18. RowsInv(o, u, g, c)'
    BY <2>16, <2>17 DEF RowsInv
  <2>19. IsMap(plan, Tokens, heap, map, o)'
    BY <1>1, <1>4, <2>2
  <2>20. TablesInv'
    BY <2>18, <2>19 DEF TablesInv
  <2>21. rows' \in Seq(S \cup {row})
    <3> HIDE DEF row
    <3>1. rows \in Seq(S \cup {row}) /\ row \in S \cup {row}
      BY <2>13
    <3> QED
      BY <2>6, <3>1
  <2> QED
    BY <1>3, <2>20, <2>21, GetOutputKeeps DEF PassInv
<1> QED
  BY <1>1, <1>5, <1>6

\* A record of either segment that is read; the other scan does not move.
LEMMA RecordReturned ==
  ASSUME CauseInv, Reading # 0, plan' = plan, NEW q, NEW s, SetScan(s),
         Returned(Seg, s) = Returned(Seg, Scan) \cup {q}
  PROVE  /\ Reading = 1 => Returned1' = Returned1 \cup {q} /\ Returned2' = Returned2
         /\ Reading = 2 => Returned2' = Returned2 \cup {q} /\ Returned1' = Returned1
BY ReadingIs DEF SetScan, Returned1, Returned2

\* A record that cannot be loaded ends the call.
LEMMA RefusedPasses ==
  ASSUME PassInv, CauseInv', Reading # 0, plan' = plan, rows' = rows, opens' = opens,
         NEW q \in PlacesOf(Seg), Refused(ValuesAt(Seg, q))
  PROVE  PassInv'
<1> DEFINE values == ValuesAt(Seg, q)
<1>1. /\ heap' = heap /\ map' = map /\ pc' = Loading(Types, values)
      /\ pc' \in {"thrown", "aborted", "undefined"}
      /\ pc' = "thrown" => \E k \in DOMAIN Types : ~CanLoad(Types[k])
  BY DEF Refused, joinVars, Loading
<1> HIDE DEF values
<1>2. ReadInv'
  BY <1>1 DEF PassInv, ReadInv, IsOpen, Passing
<1>3. TablesInv'
  <2>1. CASE pc' # "thrown"
    BY <1>1, <2>1 DEF TablesInv
  <2>2. CASE pc' = "thrown" /\ Reading = 1
    <3>1. Hopeless
      BY <1>1, <2>2, ReadingIs DEF Hopeless
    <3> QED
      BY <3>1 DEF TablesInv, Hopeless
  <2>3. CASE pc' = "thrown" /\ Reading = 2
    <3>1. pc = "next"
      BY <2>3, ReadingIs
    <3>2. Tokens' = Tokens
      BY <2>3, <3>1, TokensStay
    <3> QED
      BY <1>1, <2>3, <3>1, <3>2, MapStays DEF PassInv, Passing
  <2> QED
    BY <1>1, <2>1, <2>2, <2>3, ReadingIs
<1> QED
  BY <1>2, <1>3 DEF PassInv

\* What Store does to the heap.
LEMMA StoredIs ==
  ASSUME CauseInv, Reading # 0, NEW values, Stored(values)
  PROVE  /\ \A k \in DOMAIN heap : k \in DOMAIN heap' /\ heap'[k] = heap[k]
         /\ Holds(heap', regs2', RegistersOf(values))
         /\ \A k \in DOMAIN Types : CanLoad(Types[k])
         /\ regs' = regs
<1> DEFINE r == RegistersOf(values)
           n == Len(Types)
<1>1. Types \in Seq(Tags)
  BY ReadingIs, PlanFacts DEF CauseInv
<1>2. r \in Seq({r[k] : k \in 1..n}) /\ DOMAIN r = 1..n
  <2>1. n \in Nat /\ DOMAIN Types = 1..n
    BY <1>1
  <2>2. r = [k \in 1..n |-> r[k]] /\ DOMAIN r = 1..n
    BY <2>1 DEF RegistersOf
  <2> HIDE DEF r, n
  <2>3. r \in [1..n -> {r[k] : k \in 1..n}]
    BY <2>2
  <2> QED
    BY <2>1, <2>2, <2>3
<1>3. Store(r) /\ regs' = regs /\ Loading(Types, values) = "loaded"
  BY DEF Stored
<1>4. PICK S : heap \in Seq(S)
  BY DEF CauseInv, OpenInv
<1> DEFINE R == {r[k] : k \in 1..n}
<1>5. heap' = heap \o r /\ regs2' = [k \in DOMAIN r |-> Len(heap) + k]
  BY <1>3 DEF Store
<1>6. \A k \in DOMAIN Types : CanLoad(Types[k])
  BY <1>3 DEF Loading
<1> HIDE DEF r, R
<1>7. heap \in Seq(S \cup R) /\ r \in Seq(S \cup R)
  BY <1>2, <1>4 DEF R
<1>8. /\ \A k \in DOMAIN heap : k \in DOMAIN (heap \o r) /\ (heap \o r)[k] = heap[k]
      /\ Holds(heap \o r, [k \in DOMAIN r |-> Len(heap) + k], r)
  BY <1>7, HeapGrows
<1> QED
  BY <1>3, <1>5, <1>6, <1>8 DEF r

\* A record of the first segment: a token more.
LEMMA BuiltPasses ==
  ASSUME PassInv, CauseInv', Reading = 1, plan' = plan, rows' = rows, opens' = opens,
         NEW q \in PlacesOf(Seg) \ Returned(Seg, Scan),
         Returned1' = Returned1 \cup {q}, Returned2' = Returned2, pc' = pc,
         NEW values, values = ValuesAt(Seg, q), Stored(values),
         map' = Append(map, [key |-> RegistersOf(values)[JoinID + 1], regs |-> regs2'])
  PROVE  PassInv'
<1> DEFINE e == [key |-> RegistersOf(values)[JoinID + 1], regs |-> regs2']
           t == <<q, opens>>
<1>1. /\ pc = "build" /\ Seg = plan.seg1 /\ Scan = scan1 /\ Types = plan.types1
      /\ JoinID = plan.id1
  BY ReadingIs DEF JoinID
<1>2. /\ opens \in Nat \ {0} /\ rows = << >> /\ Returned2 = {}
      /\ \A k \in DOMAIN Types : CanLoad(Types[k])
      /\ \A k \in DOMAIN heap : k \in DOMAIN heap' /\ heap'[k] = heap[k]
      /\ Holds(heap', regs2', RegistersOf(values))
  BY <1>1, StoredIs DEF PassInv, ReadInv, IsOpen
<1>3. ~Hopeless /\ Hopeless' = Hopeless
  BY <1>1, <1>2 DEF Hopeless
<1>4. RegistersOf(values) = Left(plan, q)
  BY <1>1 DEF RegistersOf, Left
<1>5. Entry(plan, heap', e, t[1])
  <2>1. e.regs = regs2' /\ e.key = Left(plan, q)[plan.id1 + 1] /\ t[1] = q
    BY <1>1, <1>4
  <2> HIDE DEF e, t
  <2> QED
    BY <1>2, <1>4, <2>1 DEF Entry
<1>6. t \notin Tokens /\ Tokens' = Tokens \cup {t}
  <2>1. q \in PlacesOf(plan.seg1) \ Returned1
    BY <1>1 DEF Returned1
  <2>2. t \notin Tokens
    BY <1>1, <2>1 DEF Tokens
  <2>3. ASSUME NEW x \in PlacesOf(plan.seg1) \X (1..opens)
        PROVE  (x[2] = opens => x[1] \in Returned1 \cup {q})
                 <=> ((x[2] = opens => x[1] \in Returned1) \/ x = t)
    <3>1. x = <<x[1], x[2]>>
      OBVIOUS
    <3> QED
      BY <3>1
  <2>4. t \in PlacesOf(plan.seg1) \X (1..opens)
    BY <1>2, <2>1
  <2> HIDE DEF t
  <2> QED
    BY <1>1, <2>2, <2>3, <2>4 DEF Tokens
<1>7. PICK o : IsMap(plan, Tokens, heap, map, o)
  BY <1>1, <1>3 DEF PassInv, TablesInv
<1>8. PICK S : map \in Seq(S)
  BY DEF PassInv, CauseInv, OpenInv
<1>9. map' = Append(map, e)
  OBVIOUS
<1> HIDE DEF e, t
<1>10. PICK u : IsMap(plan, Tokens \cup {t}, heap', Append(map, e), u)
  <2>1. PICK g : g = heap'
    OBVIOUS
  <2>2. \A k \in DOMAIN heap : k \in DOMAIN g /\ g[k] = heap[k]
    BY <1>2, <2>1
  <2>3. Entry(plan, g, e, t[1])
    BY <1>5, <2>1
  <2>4. \E u : IsMap(plan, Tokens \cup {t}, g, Append(map, e), u)
    BY <1>6, <1>7, <1>8, <2>2, <2>3, MapGrows
  <2> QED
    BY <2>1, <2>4
<1>11. IsMap(plan, Tokens, heap, map, u)'
  BY <1>6, <1>9, <1>10
<1>12. TablesInv'
  BY <1>1, <1>11 DEF TablesInv, Passing
<1>13. ReadInv'
  BY <1>1, <1>2, <1>3 DEF ReadInv, IsOpen, Passing
<1>14. \E Z : rows' \in Seq(Z)
  BY DEF PassInv
<1> QED
  BY <1>12, <1>13, <1>14 DEF PassInv

\* A record of the second segment: the entries with its key wait.
LEMMA ProbedPasses ==
  ASSUME PassInv, CauseInv', Reading = 2, plan' = plan, rows' = rows, opens' = opens,
         NEW q \in PlacesOf(Seg) \ Returned(Seg, Scan),
         Returned2' = Returned2 \cup {q}, Returned1' = Returned1, pc' = pc, map' = map,
         NEW values, values = ValuesAt(Seg, q), Stored(values),
         range' = {j \in DOMAIN map : Equal(map[j].key, RegistersOf(values)[JoinID + 1])},
         hasRange' = (range' # {})
  PROVE  PassInv'
<1>1. /\ pc = "next" /\ ~hasRange /\ Seg = plan.seg2 /\ Scan = scan2 /\ Types = plan.types2
      /\ JoinID = plan.id2
  BY ReadingIs DEF JoinID
<1>2. /\ \A k \in DOMAIN heap : k \in DOMAIN heap' /\ heap'[k] = heap[k]
      /\ Holds(heap', regs2', RegistersOf(values))
  BY StoredIs DEF PassInv
<1>3. ReadInv'
  <2>1. Hopeless' = Hopeless
    BY DEF Hopeless
  <2> QED
    BY <1>1, <2>1 DEF PassInv, ReadInv, IsOpen, Passing
<1>4. \E Z : rows' \in Seq(Z)
  BY DEF PassInv
<1>5. ~Hopeless
  BY <1>1 DEF PassInv, ReadInv, Passing
<1>6. PICK o : IsMap(plan, Tokens, heap, map, o) /\ \E f, g, c : RowsInv(o, f, g, c)
  BY <1>1, <1>5 DEF PassInv, TablesInv, Passing
<1>7. PICK f, g, c : RowsInv(o, f, g, c)
  BY <1>6
<1>8. Tokens' = Tokens
  BY <1>1, TokensStay
<1>9. RegistersOf(values) = Right(plan, q)
  BY <1>1 DEF RegistersOf, Right
<1>10. q \in PlacesOf(plan.seg2) \ Returned2
  BY <1>1 DEF Returned2
<1>11. /\ o \in [DOMAIN map -> Tokens]
       /\ \A t \in Tokens : \E j \in DOMAIN map : o[j] = t
       /\ \A j \in DOMAIN map : Entry(plan, heap, map[j], o[j][1])
  BY <1>6, Fun_BijectionProperties DEF IsMap
<1>12. IsMap(plan, Tokens, heap, map, o)'
  <2>1. PICK h : h = heap'
    OBVIOUS
  <2>2. ASSUME NEW j \in DOMAIN map PROVE Entry(plan, h, map[j], o[j][1])
    BY <1>2, <1>11, <2>1, HoldsOn DEF Entry
  <2>3. IsMap(plan, Tokens, h, map, o)
    BY <1>6, <2>2 DEF IsMap
  <2> QED
    BY <1>8, <2>1, <2>3
<1>13. \A j \in DOMAIN map : j \in range' <=> Joins(plan, o[j][1], q)
  BY <1>1, <1>9, <1>11 DEF Joins, Entry
<1>14. range' \subseteq DOMAIN map
  OBVIOUS
<1>15. MatchInv(o, g, q)'
  BY <1>1, <1>2, <1>9, <1>13, <1>14 DEF MatchInv
<1>16. Hits(plan, Tokens, Returned2 \cup {q}) \ Pending(o, g, q)'
         = Hits(plan, Tokens, Returned2) \ Pending(o, g, c)
  <2>1. Pending(o, g, c) = {}
    BY <1>1 DEF Pending
  <2>2. Pending(o, g, q)' = {<<o[j], q>> : j \in {i \in DOMAIN map : Joins(plan, o[i][1], q)}}
    BY <1>1, <1>13, <1>14 DEF Pending
  <2>3. ASSUME NEW x \in Hits(plan, Tokens, Returned2 \cup {q}), x \notin Pending(o, g, q)'
        PROVE  x \in Hits(plan, Tokens, Returned2)
    <3>1. /\ x \in Tokens \X (Returned2 \cup {q})
          /\ Joins(plan, x[1][1], x[2]) /\ Selects(plan, x[1][1], x[2])
      BY DEF Hits
    <3>2. x = <<x[1], x[2]>> /\ x[1] \in Tokens /\ x[2] \in Returned2 \cup {q}
      BY <3>1
    <3>3. x[2] # q
      <4>1. SUFFICES ASSUME x[2] = q PROVE FALSE
        OBVIOUS
      <4>2. PICK j \in DOMAIN map : o[j] = x[1]
        BY <1>11, <3>2
      <4>3. x = <<o[j], q>> /\ Joins(plan, o[j][1], q)
        BY <3>1, <3>2, <4>1, <4>2
      <4> QED
        BY <2>2, <2>3, <4>3
    <3>4. x \in Tokens \X Returned2
      BY <3>2, <3>3
    <3> QED
      BY <3>1, <3>4 DEF Hits
  <2>4. ASSUME NEW x \in Hits(plan, Tokens, Returned2)
        PROVE  x \in Hits(plan, Tokens, Returned2 \cup {q}) /\ x \notin Pending(o, g, q)'
    <3>1. x \in Tokens \X Returned2
      BY DEF Hits
    <3>2. x[2] \in Returned2 /\ x \in Tokens \X (Returned2 \cup {q})
      BY <3>1
    <3>3. x[2] # q
      BY <1>10, <3>2
    <3>4. \A y \in Pending(o, g, q)' : y[2] = q
      BY <2>2
    <3> QED
      BY <3>2, <3>3, <3>4 DEF Hits
  <2> QED
    BY <2>1, <2>3, <2>4
<1>17. IsRows(plan, Hits(plan, Tokens, Returned2) \ Pending(o, g, q), rows, f)'
  BY <1>7, <1>8, <1>16 DEF RowsInv
<1>18. RowsInv(o, f, g, q)'
  BY <1>15, <1>17 DEF RowsInv
<1>19. TablesInv'
  BY <1>12, <1>18 DEF TablesInv
<1> QED
  BY <1>3, <1>4, <1>19 DEF PassInv

LEMMA RecordPasses ==
  ASSUME PassInv, Record
  PROVE  PassInv'
<1>1. CauseInv /\ CauseInv'
  BY RecordKeeps DEF PassInv
<1>2. Reading # 0 /\ plan' = plan /\ rows' = rows /\ opens' = opens
  BY <1>1, RecordRead
<1>3. PICK q \in PlacesOf(Seg) \ Returned(Seg, Scan) :
         /\ Refused(ValuesAt(Seg, q)) \/ Stored(ValuesAt(Seg, q))
         /\ \E s : SetScan(s) /\ Returned(Seg, s) = Returned(Seg, Scan) \cup {q}
  BY <1>1, RecordRead
<1>4. /\ Reading = 1 => Returned1' = Returned1 \cup {q} /\ Returned2' = Returned2
      /\ Reading = 2 => Returned2' = Returned2 \cup {q} /\ Returned1' = Returned1
  <2>1. PICK s : SetScan(s) /\ Returned(Seg, s) = Returned(Seg, Scan) \cup {q}
    BY <1>3
  <2> QED
    BY <1>1, <1>2, <2>1, RecordReturned
<1>5. PICK values : values = ValuesAt(Seg, q)
  OBVIOUS
<1>6. CASE Refused(values)
  BY <1>1, <1>2, <1>5, <1>6, RefusedPasses
<1>7. CASE Stored(values)
  <2> DEFINE r == RegistersOf(values)
  <2>1. CASE pc' = "undefined"
    <3>1. ReadInv' /\ TablesInv'
      BY <1>2, <2>1 DEF PassInv, ReadInv, TablesInv, IsOpen, Passing
    <3> QED
      BY <1>1, <1>2, <3>1 DEF PassInv
  <2>2. CASE /\ Reading = 1 /\ pc' = pc
             /\ map' = Append(map, [key |-> r[JoinID + 1], regs |-> regs2'])
    BY <1>1, <1>2, <1>4, <1>5, <1>7, <2>2, BuiltPasses
  <2>3. CASE /\ Reading = 2 /\ pc' = pc /\ map' = map
             /\ range' = {j \in DOMAIN map : Equal(map[j].key, r[JoinID + 1])}
             /\ hasRange' = (range' # {})
    BY <1>1, <1>2, <1>4, <1>5, <1>7, <2>3, ProbedPasses
  <2> QED
    BY <1>7, <2>1, <2>2, <2>3 DEF Stored
<1> QED
  BY <1>3, <1>5, <1>6, <1>7

\* The answer to a query, by the places of its records.
Pair(p, q, c) == <<[at |-> q, regs |-> Left(p, q)], [at |-> c, regs |-> Right(p, c)]>>

LEMMA AnswersAre ==
  /\ \A q \in PlacesOf(plan.seg1), c \in PlacesOf(plan.seg2) :
        Joins(plan, q, c) /\ Selects(plan, q, c) => Pair(plan, q, c) \in Answers
  /\ \A pair \in Answers : \E q \in PlacesOf(plan.seg1), c \in PlacesOf(plan.seg2) :
        pair = Pair(plan, q, c) /\ Joins(plan, q, c) /\ Selects(plan, q, c)
  /\ \A q, c : RowOf(Pair(plan, q, c)) = RowAt(plan, q, c)
  /\ \A q, c, r, d : Pair(plan, q, c) = Pair(plan, r, d) => q = r /\ c = d
<1> DEFINE A1 == {[at |-> q, regs |-> Left(plan, q)] : q \in PlacesOf(plan.seg1)}
           A2 == {[at |-> c, regs |-> Right(plan, c)] : c \in PlacesOf(plan.seg2)}
<1>1. RecordsOf(plan.seg1, plan.types1) = A1
  BY DEF RecordsOf, PlacesOf, Left, ValuesAt
<1>2. RecordsOf(plan.seg2, plan.types2) = A2
  BY DEF RecordsOf, PlacesOf, Right, ValuesAt
<1>3. \A q, c : /\ Pair(plan, q, c)[1].at = q /\ Pair(plan, q, c)[2].at = c
                /\ Pair(plan, q, c)[1].regs = Left(plan, q)
                /\ Pair(plan, q, c)[2].regs = Right(plan, c)
  BY DEF Pair
<1>4. \A q, c : RowOf(Pair(plan, q, c)) = RowAt(plan, q, c)
  BY <1>3 DEF RowOf, RowAt
<1>5. \A q, c : /\ Joins(plan, q, c) <=> Equal(Pair(plan, q, c)[1].regs[plan.id1 + 1],
                                              Pair(plan, q, c)[2].regs[plan.id2 + 1])
                /\ Selects(plan, q, c) <=>
                      Equal((Pair(plan, q, c)[1].regs \o Pair(plan, q, c)[2].regs)[plan.regID + 1],
                            plan.constant)
  BY <1>3 DEF Joins, Selects
<1>6. ASSUME NEW q \in PlacesOf(plan.seg1), NEW c \in PlacesOf(plan.seg2)
      PROVE  Pair(plan, q, c) \in A1 \X A2
  BY DEF Pair
<1>7. ASSUME NEW pair \in A1 \X A2
      PROVE  \E q \in PlacesOf(plan.seg1), c \in PlacesOf(plan.seg2) : pair = Pair(plan, q, c)
  <2>1. PICK q \in PlacesOf(plan.seg1) : pair[1] = [at |-> q, regs |-> Left(plan, q)]
    OBVIOUS
  <2>2. PICK c \in PlacesOf(plan.seg2) : pair[2] = [at |-> c, regs |-> Right(plan, c)]
    OBVIOUS
  <2>3. pair = <<pair[1], pair[2]>>
    OBVIOUS
  <2>4. pair = Pair(plan, q, c)
    BY <2>1, <2>2, <2>3 DEF Pair
  <2> QED
    BY <2>4
<1> HIDE DEF A1, A2
<1>8. Answers = {pair \in A1 \X A2 :
                    /\ Equal(pair[1].regs[plan.id1 + 1], pair[2].regs[plan.id2 + 1])
                    /\ Equal((pair[1].regs \o pair[2].regs)[plan.regID + 1], plan.constant)}
  BY <1>1, <1>2 DEF Answers
<1>9. \A q \in PlacesOf(plan.seg1), c \in PlacesOf(plan.seg2) :
        Joins(plan, q, c) /\ Selects(plan, q, c) => Pair(plan, q, c) \in Answers
  BY <1>5, <1>6, <1>8
<1>10. ASSUME NEW pair \in Answers
       PROVE  \E q \in PlacesOf(plan.seg1), c \in PlacesOf(plan.seg2) :
                 pair = Pair(plan, q, c) /\ Joins(plan, q, c) /\ Selects(plan, q, c)
  <2>1. /\ pair \in A1 \X A2
        /\ Equal(pair[1].regs[plan.id1 + 1], pair[2].regs[plan.id2 + 1])
        /\ Equal((pair[1].regs \o pair[2].regs)[plan.regID + 1], plan.constant)
    BY <1>8
  <2>2. PICK q \in PlacesOf(plan.seg1), c \in PlacesOf(plan.seg2) : pair = Pair(plan, q, c)
    BY <1>7, <2>1
  <2> QED
    BY <1>5, <2>1, <2>2
<1>11. \A q, c, r, d : Pair(plan, q, c) = Pair(plan, r, d) => q = r /\ c = d
  <2> SUFFICES ASSUME NEW q, NEW c, NEW r, NEW d, Pair(plan, q, c) = Pair(plan, r, d)
               PROVE  q = r /\ c = d
    OBVIOUS
  <2>1. /\ Pair(plan, q, c)[1].at = q /\ Pair(plan, q, c)[2].at = c
        /\ Pair(plan, r, d)[1].at = r /\ Pair(plan, r, d)[2].at = d
    BY <1>3
  <2> QED
    BY <2>1
<1> QED
  BY <1>4, <1>9, <1>10, <1>11

\* As many as the members of A, k times.
LEMMA TimesOver ==
  ASSUME NEW N, IsFiniteSet(N), NEW A, NEW k \in Nat \ {0}, NEW b \in Bijection(N, A \X (1..k))
  PROVE  IsFiniteSet(A) /\ Cardinality(N) = k * Cardinality(A)
<1>1. ExistsBijection(N, A \X (1..k))
  BY DEF ExistsBijection
<1>2. IsFiniteSet(A \X (1..k)) /\ Cardinality(A \X (1..k)) = Cardinality(N)
  BY <1>1, FS_Bijection
<1>3. IsFiniteSet(A)
  <2> DEFINE i == [a \in A |-> <<a, 1>>]
  <2>1. i \in [A -> A \X (1..k)] /\ \A a, c \in A : i[a] = i[c] => a = c
    <3>1. 1 \in 1..k
      OBVIOUS
    <3> QED
      BY <3>1
  <2>2. i \in Injection(A, A \X (1..k))
    BY <2>1, Fun_IsInj
  <2> QED
    BY <1>2, <2>2, FS_Injection
<1>4. IsFiniteSet(1..k) /\ Cardinality(1..k) = k
  BY FS_Interval
<1>5. Cardinality(A \X (1..k)) = Cardinality(A) * k /\ Cardinality(A) \in Nat
  BY <1>3, <1>4, FS_Product, FS_CardinalityType
<1> QED
  BY <1>2, <1>3, <1>5

LEMMA PassCounts ==
  ASSUME PassInv
  PROVE  PassYieldsAnswer
<1> SUFFICES ASSUME pc = "end", NEW row
             PROVE  Cardinality({n \in DOMAIN rows : rows[n] = row})
                      = opens * Cardinality({pair \in Answers : RowOf(pair) = row})
  BY DEF PassYieldsAnswer
<1> DEFINE N == {n \in DOMAIN rows : rows[n] = row}
           A == {pair \in Answers : RowOf(pair) = row}
<1>1. /\ opens \in Nat \ {0} /\ ~hasRange /\ Returned2 = PlacesOf(plan.seg2) /\ ~Hopeless
  BY DEF PassInv, ReadInv, IsOpen, Passing
<1>2. PICK o : \E f, g, c : RowsInv(o, f, g, c)
  BY <1>1 DEF PassInv, TablesInv, Passing
<1>3. PICK f, g, c : RowsInv(o, f, g, c)
  BY <1>2
<1> DEFINE T == PlacesOf(plan.seg1) \X (1..opens)
           H == Hits(plan, T, PlacesOf(plan.seg2))
<1>4. IsRows(plan, H, rows, f)
  <2>1. Tokens = T
    BY DEF Tokens
  <2>2. Pending(o, g, c) = {}
    BY <1>1 DEF Pending
  <2>3. Hits(plan, Tokens, Returned2) \ Pending(o, g, c) = H
    BY <1>1, <2>1, <2>2
  <2> QED
    BY <1>3, <2>3 DEF RowsInv
<1>5. /\ f \in [DOMAIN rows -> H] /\ \A m, n \in DOMAIN rows : f[m] = f[n] => m = n
      /\ \A x \in H : \E n \in DOMAIN rows : f[n] = x
      /\ \A n \in DOMAIN rows : rows[n] = RowAt(plan, f[n][1][1], f[n][2])
  <2> HIDE DEF H
  <2>1. f \in Bijection(DOMAIN rows, H)
    BY <1>4 DEF IsRows
  <2> QED
    BY <1>4, <2>1, Fun_BijectionProperties DEF IsRows
<1>6. /\ \A x \in H : /\ x = <<<<x[1][1], x[1][2]>>, x[2]>>
                      /\ x[1][1] \in PlacesOf(plan.seg1) /\ x[1][2] \in 1..opens
                      /\ x[2] \in PlacesOf(plan.seg2)
                      /\ Joins(plan, x[1][1], x[2]) /\ Selects(plan, x[1][1], x[2])
      /\ \A q \in PlacesOf(plan.seg1), k \in 1..opens, d \in PlacesOf(plan.seg2) :
            Joins(plan, q, d) /\ Selects(plan, q, d) => <<<<q, k>>, d>> \in H
  <2>1. ASSUME NEW x \in H
        PROVE  /\ x = <<<<x[1][1], x[1][2]>>, x[2]>>
               /\ x[1][1] \in PlacesOf(plan.seg1) /\ x[1][2] \in 1..opens
               /\ x[2] \in PlacesOf(plan.seg2)
               /\ Joins(plan, x[1][1], x[2]) /\ Selects(plan, x[1][1], x[2])
    <3>1. /\ x \in T \X PlacesOf(plan.seg2)
          /\ Joins(plan, x[1][1], x[2]) /\ Selects(plan, x[1][1], x[2])
      BY DEF Hits
    <3>2. x = <<x[1], x[2]>> /\ x[1] \in T /\ x[2] \in PlacesOf(plan.seg2)
      BY <3>1
    <3>3. /\ x[1] = <<x[1][1], x[1][2]>>
          /\ x[1][1] \in PlacesOf(plan.seg1) /\ x[1][2] \in 1..opens
      BY <3>2
    <3> QED
      BY <3>1, <3>2, <3>3
  <2>2. ASSUME NEW q \in PlacesOf(plan.seg1), NEW k \in 1..opens, NEW d \in PlacesOf(plan.seg2),
               Joins(plan, q, d), Selects(plan, q, d)
        PROVE  <<<<q, k>>, d>> \in H
    <3>1. <<q, k>> \in T
      OBVIOUS
    <3> HIDE DEF T
    <3>2. <<<<q, k>>, d>> \in T \X PlacesOf(plan.seg2)
      BY <3>1
    <3> QED
      BY <2>2, <3>2 DEF Hits
  <2> QED
    BY <2>1, <2>2
<1> HIDE DEF H, T
<1> DEFINE b == [n \in N |-> <<Pair(plan, f[n][1][1], f[n][2]), f[n][1][2]>>]
<1>7. ASSUME NEW n \in N PROVE b[n] \in A \X (1..opens)
  <2>1. f[n] \in H /\ RowAt(plan, f[n][1][1], f[n][2]) = row
    BY <1>5
  <2>2. Pair(plan, f[n][1][1], f[n][2]) \in A
    BY <1>6, <2>1, AnswersAre
  <2> HIDE DEF A
  <2> QED
    BY <1>6, <2>1, <2>2
<1>8. ASSUME NEW m \in N, NEW n \in N, b[m] = b[n] PROVE m = n
  <2>1. /\ Pair(plan, f[m][1][1], f[m][2]) = Pair(plan, f[n][1][1], f[n][2])
        /\ f[m][1][2] = f[n][1][2]
    BY <1>8
  <2>2. f[m][1][1] = f[n][1][1] /\ f[m][2] = f[n][2]
    BY <2>1, AnswersAre
  <2>3. f[m] = <<<<f[m][1][1], f[m][1][2]>>, f[m][2]>> /\ f[n] = <<<<f[n][1][1], f[n][1][2]>>, f[n][2]>>
    BY <1>5, <1>6
  <2>4. f[m] = f[n]
    BY <2>1, <2>2, <2>3
  <2> QED
    BY <1>5, <2>4
<1>9. ASSUME NEW y \in A \X (1..opens) PROVE \E n \in N : b[n] = y
  <2>1. y = <<y[1], y[2]>> /\ y[1] \in A /\ y[2] \in 1..opens
    OBVIOUS
  <2>2. PICK q \in PlacesOf(plan.seg1), d \in PlacesOf(plan.seg2) :
           y[1] = Pair(plan, q, d) /\ Joins(plan, q, d) /\ Selects(plan, q, d)
    BY <2>1, AnswersAre
  <2>3. PICK n \in DOMAIN rows : f[n] = <<<<q, y[2]>>, d>>
    <3>1. <<<<q, y[2]>>, d>> \in H
      BY <1>6, <2>1, <2>2
    <3> QED
      BY <1>5, <3>1
  <2>4. f[n][1][1] = q /\ f[n][1][2] = y[2] /\ f[n][2] = d
    BY <2>3
  <2>5. rows[n] = row
    BY <1>5, <2>1, <2>2, <2>4, AnswersAre
  <2>6. b[n] = <<Pair(plan, q, d), y[2]>>
    BY <2>4, <2>5
  <2> QED
    BY <2>1, <2>2, <2>5, <2>6
<1>10. b \in Bijection(N, A \X (1..opens))
  <2>1. b \in [N -> A \X (1..opens)]
    BY <1>7
  <2> HIDE DEF b, N, A
  <2> QED
    BY <1>8, <1>9, <2>1, Fun_IsBij
<1>11. IsFiniteSet(N)
  <2>1. PICK S : rows \in Seq(S)
    BY DEF PassInv
  <2>2. DOMAIN rows = 1..Len(rows) /\ Len(rows) \in Nat
    BY <2>1
  <2>3. IsFiniteSet(1..Len(rows)) /\ N \in SUBSET (1..Len(rows))
    BY <2>2, FS_Interval
  <2> QED
    BY <2>3, FS_Subset
<1> HIDE DEF N, A, b
<1>12. Cardinality(N) = opens * Cardinality(A)
  BY <1>1, <1>10, <1>11, TimesOver
<1> QED
  BY <1>12 DEF N, A

LEMMA NextPassInv ==
  ASSUME PassInv, [Next]_vars
  PROVE  PassInv'
<1>1. CASE Finished \/ UNCHANGED vars
  <2>1. UNCHANGED vars
    BY <1>1 DEF Finished
  <2>2. CauseInv'
    BY <1>1, NextCauseInv DEF PassInv
  <2>3. /\ plan' = plan /\ heap' = heap /\ scan1' = scan1 /\ scan2' = scan2 /\ map' = map
        /\ regs2' = regs2 /\ range' = range /\ hasRange' = hasRange /\ regs' = regs
        /\ pc' = pc /\ rows' = rows /\ opens' = opens
    BY <2>1 DEF vars
  <2>4. /\ Returned1' = Returned1 /\ Returned2' = Returned2 /\ Hopeless' = Hopeless
        /\ Tokens' = Tokens
    BY <2>3 DEF Returned1, Returned2, Hopeless, Tokens
  <2>5. ReadInv'
    BY <2>3, <2>4 DEF PassInv, ReadInv, IsOpen
  <2>6. TablesInv'
    <3>1. CASE pc \in {"aborted", "undefined"} \/ Hopeless
      BY <2>3, <2>4, <3>1 DEF TablesInv
    <3>2. CASE pc \notin {"aborted", "undefined"} /\ ~Hopeless
      <4>1. PICK o : /\ IsMap(plan, Tokens, heap, map, o)
                     /\ pc \in Passing => \E f, g, c : RowsInv(o, f, g, c)
        BY <3>2 DEF PassInv, TablesInv
      <4>2. IsMap(plan, Tokens, heap, map, o)'
        BY <2>3, <2>4, <4>1
      <4>3. ASSUME NEW f, NEW g, NEW c, RowsInv(o, f, g, c) PROVE RowsInv(o, f, g, c)'
        <5>1. Pending(o, g, c)' = Pending(o, g, c)
          BY <2>3 DEF Pending
        <5> QED
          BY <2>3, <2>4, <4>3, <5>1 DEF RowsInv, MatchInv
      <4> QED
        BY <2>3, <4>1, <4>2, <4>3 DEF TablesInv
    <3> QED
      BY <3>1, <3>2
  <2> QED
    BY <2>2, <2>3, <2>5, <2>6 DEF PassInv
<1>2. CASE Open
  BY <1>2, OpenPasses
<1>3. CASE PageEnd
  BY <1>3, PageEndPasses
<1>4. CASE Outside
  BY <1>4, OutsidePasses
<1>5. CASE Record
  BY <1>5, RecordPasses
<1>6. CASE ScanEnd
  BY <1>6, ScanEndPasses
<1>7. CASE CallNext
  BY <1>7, CallNextPasses
<1>8. CASE NoMoreMatches
  BY <1>8, NoMoreMatchesPasses
<1>9. CASE GetOutput
  BY <1>9, GetOutputPasses
<1>10. CASE Close
  BY <1>10, ClosePasses
<1>11. ASSUME NEW j \in range, Match(j) PROVE PassInv'
  BY <1>11, MatchPasses
<1> QED
  BY <1>1, <1>2, <1>3, <1>4, <1>5, <1>6, <1>7, <1>8, <1>9, <1>10, <1>11 DEF Next

LEMMA InitPassInv ==
  ASSUME Init
  PROVE  PassInv
<1>1. /\ plan \in Plans /\ heap = << >> /\ map = << >> /\ pc = "closed" /\ rows = << >>
      /\ opens = 0
  BY DEF Init
<1>2. heap \in Seq({}) /\ map \in Seq({}) /\ rows \in Seq({}) /\ DOMAIN map = {}
  BY <1>1
<1>3. CauseInv
  BY <1>1, <1>2 DEF CauseInv, OpenInv, IsOpen, GoesWrongOnlyIf
<1>4. ReadInv
  BY <1>1 DEF ReadInv, IsOpen, Passing
<1>5. TablesInv
  <2>1. Tokens = {}
    BY <1>1 DEF Tokens
  <2>2. << >> \in Bijection(DOMAIN map, {})
    <3>1. << >> \in [{} -> {}]
      OBVIOUS
    <3> QED
      BY <1>2, <3>1, Fun_IsBij
  <2>3. IsMap(plan, Tokens, heap, map, << >>)
    BY <1>2, <2>1, <2>2 DEF IsMap
  <2> QED
    BY <1>1, <2>3 DEF TablesInv, Passing
<1> QED
  BY <1>2, <1>3, <1>4, <1>5 DEF PassInv

(***************************************************************************)
(* Whatever the records, the join and the selection are: a pass that has   *)
(* come to its end has printed each row of the answer as often as it is    *)
(* one, times the number of opens (the hash table is never emptied), and   *)
(* nothing else; what went wrong before, and earlier passes, leave no      *)
(* trace in it.                                                            *)
(***************************************************************************)
THEOREM PassesAnswer == Spec => []PassYieldsAnswer
<1>1. Init => PassInv
  BY InitPassInv
<1>2. PassInv /\ [Next]_vars => PassInv'
  BY NextPassInv
<1>3. PassInv => PassYieldsAnswer
  BY PassCounts
<1> QED
  BY <1>1, <1>2, <1>3, PTL DEF Spec
=============================================================================
