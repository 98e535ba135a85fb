--------------------------- MODULE SlottedSegment ---------------------------
(***************************************************************************)
(* SPSegment: records of variable length addressed by TIDs, on slotted     *)
(* pages.  A record that grows and moves to another page leaves an         *)
(* indirection behind.                                                     *)
(*                                                                         *)
(* A step is what a thread does between fixing a page and unfixing it.     *)
(* The pages are those of PageStore, which BufferManager implements: what  *)
(* is left of it here is who holds a page from one step to the next, which *)
(* happens in two places: in update, behind two indirections, and in a     *)
(* table scan, which keeps a page fixed shared between two calls of next.  *)
(* The buffer is taken to be large enough that no page is evicted in the       *)
(* middle of an insert, which keeps a pointer into a page it has unfixed.  *)
(*                                                                         *)
(* Clients keep the TIDs they are given in a map, as the test does, and    *)
(* use no others.                                                          *)
(***************************************************************************)
EXTENDS SlottedPage, TableScan, FiniteSets

CONSTANTS Threads, NoThread,
          Ops,       \* [Threads -> SUBSET AllOps]: what a thread calls
          Records,   \* the records clients store
          RecordLength, \* of the records of a table, for its scans
          MaxLive    \* bound on the records clients keep at a time

AllOps == {"insert", "remove", "lookup", "update", "tablescan"}

ASSUME SegmentAssumption ==
    /\ IsFiniteSet(PageIDs) /\ PageIDs = 0..(Cardinality(PageIDs) - 1)
    /\ Records \subseteq Seq(Units)
    /\ \A r \in Records : HeaderSize + SlotSize + Len(r) <= BlockSize
    /\ NoThread \notin Threads
    /\ Ops \in [Threads -> SUBSET AllOps]
    /\ RecordLength \in Nat /\ MaxLive \in Nat

VARIABLES pages,   \* [PageIDs -> Page]
          size,    \* the number of pages in use
          holder,  \* [PageIDs -> Threads \cup {NoThread}]: fixed exclusively
          broken,  \* SUBSET PageIDs: the lock has been unlocked once too often
          call,    \* [Threads -> Call]: the locals of a call
          values   \* the records of the clients, by TID

vars == <<pages, size, holder, broken, call, values>>

Labels == {"idle", "scan", "compact", "place", "point", "update", "check", "skip",
           "free", "remove", "lookup", "next", "scanned", "return", "undefined"}

NoPage == -1

\* tids is the stack of the TIDs update and lookup have followed; header is
\* the page insert's header pointer points into.  A table scan has its
\* position, and (for its property) the slots it is due to return: those whose
\* records were there when it was opened and nobody has touched since.
Call == [pc : Labels, op : AllOps \cup {"none"}, tids : Seq(TIDs), rec : Seq(Units),
         page : Nat, header : PageIDs \cup {NoPage}, result : TIDs \cup {NoTID},
         answer : Seq(Units \cup {Junk}),
         scan : Scans, due : SUBSET TIDs]

Idle == [pc |-> "idle", op |-> "none", tids |-> << >>, rec |-> << >>, page |-> 0,
         header |-> NoPage, result |-> NoTID, answer |-> << >>,
         scan |-> NewScan, due |-> {}]

Init == /\ pages = [p \in PageIDs |-> EmptyPage]
        /\ size = 0
        /\ holder = [p \in PageIDs |-> NoThread]
        /\ broken = {}
        /\ call = [t \in Threads |-> Idle]
        /\ values = << >>

-----------------------------------------------------------------------------
At(t, label) == call[t].pc = label

\* fixPage returns, for a shared or an exclusive fix.  A thread that holds the
\* page already is not kept waiting: its lock call fails, and the failure is
\* ignored.
CanShare(t, p) == p \notin broken /\ holder[p] \in {NoThread, t}
CanFix(t, p) == /\ CanShare(t, p)
                /\ \A u \in Threads \ {t} : call[u].scan.bf # p

Current(t) == Last(call[t].tids)
SlotOf(tid) == pages[tid.pageID].slots[tid.slotID]

\* The slot of the record: the TID's own, or the one its indirection names.
Home(tid) == IF IsIndirection(SlotOf(tid)) THEN SlotOf(tid).target ELSE tid

\* The TIDs calls of other threads are about: clients that share records
\* keep out of each other's way (nothing in the segment does).
InUse(t) == {call[u].tids[1] : u \in {v \in Threads \ {t} : call[v].tids # << >>}}

Touched(op, tids) == IF op \in {"update", "remove"} THEN {Home(tids[1])} ELSE {}

Begin(t, op, tids, r, label) ==
    /\ At(t, "idle") /\ op \in Ops[t]
    /\ call' = [u \in Threads |->
          IF u = t THEN [Idle EXCEPT !.pc = label, !.op = op, !.tids = tids, !.rec = r]
                   ELSE [call[u] EXCEPT !.due = @ \ Touched(op, tids)]]
    /\ UNCHANGED <<pages, size, holder, broken>>

-----------------------------------------------------------------------------
\* insert: look for a page with room, one shared fix after the other.
Inserting == Cardinality({t \in Threads : call[t].op = "insert"})

Insert(t, r) == /\ Cardinality(DOMAIN values) + Inserting < MaxLive
                /\ Begin(t, "insert", << >>, r, "scan")
                /\ UNCHANGED values

ScanPage(t) ==
    /\ At(t, "scan")
    /\ call[t].page < size
    /\ CanShare(t, call[t].page)
    /\ LET p == call[t].page
           h == pages[p].header
           n == Len(call[t].rec)
       IN  call' = [call EXCEPT
             ![t].header = p,
             ![t].page = IF Fits(h, n) THEN @ ELSE @ + 1,
             ![t].pc = CASE ~Fits(h, n) -> "scan"
                         [] Fits(h, n) /\ NeedsCompaction(h, n) -> "compact"
                         [] OTHER -> "place"]
    /\ UNCHANGED <<pages, size, holder, broken, values>>

ScanEnd(t) ==
    /\ At(t, "scan")
    /\ call[t].page >= size
    /\ call' = [call EXCEPT ![t].pc = "place"]
    /\ UNCHANGED <<pages, size, holder, broken, values>>

\* compactPage
Compact(t) ==
    /\ At(t, "compact")
    /\ CanFix(t, call[t].page)
    /\ pages' = [pages EXCEPT ![call[t].page] = Compacted(@)]
    /\ call' = [call EXCEPT ![t].pc = "place"]
    /\ UNCHANGED <<size, holder, broken, values>>

\* insert, the rest: the page is fixed exclusively; at the end of the segment
\* a page is made.  The header used is that of the page looked at last.
Place(t) ==
    /\ At(t, "place")
    /\ call[t].page \in PageIDs
    /\ CanFix(t, call[t].page)
    /\ LET p     == call[t].page
           fresh == p = size
           q     == IF fresh THEN p ELSE call[t].header
           h     == IF fresh THEN EmptyPage.header ELSE pages[q].header
           i     == NewSlotID(h)
           old   == IF fresh THEN EmptyPage ELSE pages[p]
           new   == Allocated(h, old.slots, Len(call[t].rec))
           full  == WithRecord(old, i, new.dataStart, call[t].rec)
           tid   == [pageID |-> p, slotID |-> i]
       IN  IF q = NoPage \/ i \notin SlotIDs
           THEN \* a pointer nobody has set, or a slot behind the page
                /\ call' = [call EXCEPT ![t].pc = "undefined"]
                /\ UNCHANGED <<pages, size>>
           ELSE /\ pages' = [[pages EXCEPT ![p] = full] EXCEPT ![q].header = new]
                /\ size' = IF fresh THEN size + 1 ELSE size
                /\ call' = [call EXCEPT
                     ![t].result = tid,
                     ![t].pc = IF call[t].op = "insert" THEN "return" ELSE "point"]
    /\ UNCHANGED <<holder, broken, values>>

-----------------------------------------------------------------------------
\* The call c goes on with the record itself, behind an indirection.
Following(c, tid) == [c EXCEPT !.tids = Append(@, tid)]

\* remove.  The client forgets the TID when it calls.
Delete(t, tid) == /\ tid \in DOMAIN values \ InUse(t)
                  /\ Begin(t, "remove", <<tid>>, << >>, "remove")
                  /\ values' = [u \in DOMAIN values \ {tid} |-> values[u]]

RemoveStep(t) ==
    /\ At(t, "remove")
    /\ LET tid == Current(t) IN
          /\ CanFix(t, tid.pageID)
          /\ IF IsIndirection(SlotOf(tid))
             THEN /\ pages' = [pages EXCEPT ![tid.pageID] = FreedSlot(@, tid.slotID)]
                  /\ call' = [call EXCEPT ![t] = Following(@, SlotOf(tid).target)]
             ELSE /\ pages' = [pages EXCEPT ![tid.pageID] = RecordRemoved(@, tid.slotID)]
                  /\ call' = [call EXCEPT ![t].pc = "return"]
    /\ UNCHANGED <<size, holder, broken, values>>

-----------------------------------------------------------------------------
Lookup(t, tid) == /\ tid \in DOMAIN values \ InUse(t)
                  /\ Begin(t, "lookup", <<tid>>, << >>, "lookup")
                  /\ UNCHANGED values

LookupStep(t) ==
    /\ At(t, "lookup")
    /\ LET tid == Current(t) IN
          /\ CanShare(t, tid.pageID)
          /\ call' = [call EXCEPT ![t] =
                IF IsIndirection(SlotOf(tid))
                THEN Following(@, SlotOf(tid).target)
                ELSE [@ EXCEPT !.answer = ReadRecord(pages[tid.pageID], SlotOf(tid)),
                               !.pc = "return"]]
    /\ UNCHANGED <<pages, size, holder, broken, values>>

-----------------------------------------------------------------------------
Update(t, tid, r) == /\ tid \in DOMAIN values \ InUse(t)
                     /\ Begin(t, "update", <<tid>>, r, "update")
                     /\ UNCHANGED values

\* The update of the last TID is done: on to the one before it, if any.
Done(c) == [c EXCEPT !.pc = IF Len(c.tids) = 1 THEN "return" ELSE "check"]

\* Back to the caller of a recursive update.
Back(c) == [c EXCEPT !.tids = Front(@)]

UpdateStep(t) ==
    /\ At(t, "update")
    /\ LET tid == Current(t)
           p   == tid.pageID
           s   == SlotOf(tid)
           r   == call[t].rec
       IN  /\ CanFix(t, p)
           /\ \/ /\ IsIndirection(s)
                 /\ call' = [call EXCEPT ![t] = Following(@, s.target)]
                 /\ UNCHANGED pages
              \/ /\ ~IsIndirection(s) /\ Len(r) <= s.length
                 /\ pages' = [pages EXCEPT ![p] = ReplacedInPlace(@, tid.slotID, r)]
                 /\ call' = [call EXCEPT ![t] = Done(@)]
              \/ /\ ~IsIndirection(s) /\ Len(r) > s.length
                 /\ pages' = [pages EXCEPT ![p] = RecordDropped(@, tid.slotID)]
                 /\ call' = [call EXCEPT ![t].pc = "scan", ![t].page = 0]
    /\ UNCHANGED <<size, holder, broken, values>>

\* The record has been inserted again; the old slot is made to lead there.
Point(t) ==
    /\ At(t, "point")
    /\ LET tid == Current(t)
           new == call[t].result
           p   == tid.pageID
       IN  /\ CanFix(t, p)
           /\ pages' = [pages EXCEPT ![p] =
                 IF new.pageID = p THEN SlotMoved(@, tid.slotID, new.slotID)
                 ELSE [@ EXCEPT !.slots[tid.slotID] = Indirection(new)]]
    /\ call' = [call EXCEPT ![t] = Done([@ EXCEPT !.result = NoTID])]
    /\ UNCHANGED <<size, holder, broken, values>>

\* Back from a recursive update: has the record moved on?
Check(t) ==
    /\ At(t, "check")
    /\ LET itid == Current(t) IN
          /\ CanFix(t, itid.pageID)
          /\ IF IsIndirection(SlotOf(itid))
             THEN /\ holder' = [holder EXCEPT ![itid.pageID] = t]
                  /\ call' = [call EXCEPT ![t].pc = "skip"]
             ELSE /\ call' = [call EXCEPT ![t] = Done(Back(@))]
                  /\ UNCHANGED holder
    /\ UNCHANGED <<pages, size, broken, values>>

Outer(t) == call[t].tids[Len(call[t].tids) - 1]

\* With the page of the first indirection still fixed, the slot before it is
\* made to lead to the record.  If both slots are on one page, the lock call
\* fails, unnoticed, and the unlock that follows gives up the lock held.
Skip(t) ==
    /\ At(t, "skip")
    /\ LET tid == Outer(t)
           p   == tid.pageID
       IN  /\ CanFix(t, p)
           /\ pages' = [pages EXCEPT ![p].slots[tid.slotID] =
                                        Indirection(SlotOf(Current(t)).target)]
           /\ holder' = [holder EXCEPT ![p] = NoThread]
    /\ call' = [call EXCEPT ![t].pc = "free"]
    /\ UNCHANGED <<size, broken, values>>

\* Faulty variant: the slot that is skipped is not freed.
Free_Kept(t) ==
    /\ At(t, "free")
    /\ LET p == Current(t).pageID IN
          /\ holder' = [holder EXCEPT ![p] = IF @ = t THEN NoThread ELSE @]
          /\ IF holder[p] = t THEN UNCHANGED broken
                              ELSE broken' \in {broken, broken \cup {p}}
    /\ call' = [call EXCEPT ![t] = Done(Back(@))]
    /\ UNCHANGED <<pages, size, values>>

\* The slot that is skipped becomes free.  An unlock without a lock may leave
\* the lock unusable, or do nothing.
Free(t) ==
    /\ At(t, "free")
    /\ LET itid == Current(t)
           p    == itid.pageID
       IN  /\ pages' = [pages EXCEPT ![p] = FreedSlot(@, itid.slotID)]
           /\ holder' = [holder EXCEPT ![p] = IF @ = t THEN NoThread ELSE @]
           /\ IF holder[p] = t THEN UNCHANGED broken
                               ELSE broken' \in {broken, broken \cup {p}}
    /\ call' = [call EXCEPT ![t] = Done(Back(@))]
    /\ UNCHANGED <<size, values>>

-----------------------------------------------------------------------------
\* TableScan.  Pages are numbered from the segment's prefix (a segment with
\* prefix 0 and no page: see Operators).
OpenScan(t) ==
    /\ At(t, "idle") /\ "tablescan" \in Ops[t]
    /\ call' = [call EXCEPT ![t] =
          [Idle EXCEPT !.pc = "next", !.op = "tablescan", !.scan = Opened(0, size - 1),
                       !.due = {Home(tid) : tid \in DOMAIN values \ InUse(t)}]]
    /\ UNCHANGED <<pages, size, holder, broken, values>>

\* Faulty variant: the page is not kept fixed for the next call.
Kept_Unfixed(scan) == Unfixed(scan)

\* A scan that has returned a record keeps its page.
Kept(scan) == scan

\* next: the next record of the page, or on to the next page.  The attributes
\* are taken to fill the record (an assertion).
NextStep(t) ==
    /\ call[t].pc \in {"next", "scanned"}
    /\ ~AtEnd(call[t].scan)
    /\ LET p     == PageOf(call[t].scan)
           page  == pages[p]
           scan  == Loaded(call[t].scan, page.header.slotCount)
           i     == NextRecord(scan, {k \in SlotIDs : page.slots[k].offset >= 2})
       IN  /\ CanShare(t, p)
           /\ call' = [call EXCEPT ![t] =
                 CASE i = scan.slotCount -> [@ EXCEPT !.scan = Unfixed(scan), !.pc = "next", !.answer = << >>]
                   [] i < scan.slotCount /\ page.slots[i].length # RecordLength ->
                        [@ EXCEPT !.scan = scan, !.pc = "undefined"]
                   [] OTHER ->
                        [@ EXCEPT !.scan = Kept(Past(scan, i)), !.pc = "scanned",
                                  !.answer = ReadRecord(page, page.slots[i]),
                                  !.due = call[t].due \ {[pageID |-> p, slotID |-> i]}]]
    /\ UNCHANGED <<pages, size, holder, broken, values>>

\* The client closes the scan, after its last record or before.
CloseScan(t) ==
    /\ At(t, "scanned") \/ (At(t, "next") /\ AtEnd(call[t].scan))
    /\ call' = [call EXCEPT ![t] = Idle]
    /\ UNCHANGED <<pages, size, holder, broken, values>>

-----------------------------------------------------------------------------
\* The map f with x mapped to y.
With(f, x, y) == [u \in DOMAIN f \cup {x} |-> IF u = x THEN y ELSE f[u]]

\* The call returns; the client notes what it has stored.
Return(t) ==
    /\ At(t, "return")
    /\ call' = [call EXCEPT ![t] = Idle]
    /\ values' = CASE call[t].op = "insert" -> With(values, call[t].result, call[t].rec)
                   [] call[t].op = "update" -> [values EXCEPT ![call[t].tids[1]] = call[t].rec]
                   [] OTHER -> values
    /\ UNCHANGED <<pages, size, holder, broken>>

Step(t) == \/ ScanPage(t) \/ ScanEnd(t) \/ Compact(t) \/ Place(t)
           \/ RemoveStep(t) \/ LookupStep(t)
           \/ UpdateStep(t) \/ Point(t) \/ Check(t) \/ Skip(t) \/ Free(t)
           \/ OpenScan(t) \/ NextStep(t) \/ CloseScan(t)
           \/ Return(t)

Next == \E t \in Threads :
          \/ \E r \in Records : Insert(t, r)
          \/ \E tid \in DOMAIN values : \/ Delete(t, tid) \/ Lookup(t, tid)
                                        \/ \E r \in Records : Update(t, tid, r)
          \/ Step(t)

Spec == Init /\ [][Next]_vars

-----------------------------------------------------------------------------
TypeOK == /\ pages \in [PageIDs -> Page]
          /\ size \in 0..Cardinality(PageIDs)
          /\ holder \in [PageIDs -> Threads \cup {NoThread}]
          /\ broken \in SUBSET PageIDs
          /\ call \in [Threads -> Call]
          /\ DOMAIN values \subseteq TIDs
          /\ \A tid \in DOMAIN values : values[tid] \in Records

(***************************************************************************)
(* The header of each page tells the truth after every step: the free      *)
(* space is what slots and records leave, the cache names the first free   *)
(* slot, and the records lie apart from each other and from the slots.     *)
(* (insert, remove, update and compactPage each keep these by hand.)       *)
(***************************************************************************)
SpaceAccounted ==
    \A p \in 0..(size - 1) :
        pages[p].header.freeSpace =
            BlockSize - HeaderSize - SlotSize * pages[p].header.slotCount
              - FoldSet(LAMBDA i, sum : sum + pages[p].slots[i].length, 0, UsedSlots(pages[p]))

FirstFreeRight ==
    \A p \in 0..(size - 1) :
        pages[p].header.firstFreeSlot = NextFree(pages[p].slots, 0, pages[p].header.slotCount)

RecordsApart ==
    \A p \in 0..(size - 1) :
        LET h == pages[p].header IN
        /\ HeaderSize + SlotSize * h.slotCount <= h.dataStart
        /\ \A i \in UsedSlots(pages[p]) : Area(pages[p].slots[i]) \subseteq h.dataStart..(BlockSize - 1)
        /\ \A i, j \in UsedSlots(pages[p]) :
              i # j => Area(pages[p].slots[i]) \cap Area(pages[p].slots[j]) = {}

(***************************************************************************)
(* When no call is under way, every slot that is not free is a TID some    *)
(* client keeps, or the target of exactly one of those; and a record is at *)
(* most one indirection away from its TID, however often it has moved      *)
(* (update skips the first of two indirections).                           *)
(***************************************************************************)
Taken == {tid \in TIDs : tid.pageID < size /\ ~IsFree(SlotOf(tid))}

Targets(tid) == IF IsIndirection(SlotOf(tid)) THEN {SlotOf(tid).target} ELSE {}

NothingLost ==
    (\A t \in Threads : At(t, "idle")) =>
        /\ Taken = DOMAIN values \cup UNION {Targets(tid) : tid \in DOMAIN values}
        /\ \A tid \in DOMAIN values : \A new \in Targets(tid) :
              /\ new \notin DOMAIN values
              /\ ~IsIndirection(SlotOf(new))
              /\ \A other \in DOMAIN values \ {tid} : new \notin Targets(other)

(***************************************************************************)
(* The segment implements the store of records: what a TID leads to        *)
(* changes only when the client updates it.  (While an update is under way *)
(* the record counts as the old one.)                                      *)
(***************************************************************************)
\* What lookup returns once it is at the record's page.
Content(tid) == ReadRecord(pages[Home(tid).pageID], SlotOf(Home(tid)))

Updaters(tid) == {t \in Threads : call[t].op = "update" /\ call[t].tids[1] = tid}

StoredRecords == [tid \in DOMAIN values |->
                     IF Updaters(tid) # {} THEN values[tid] ELSE Content(tid)]

RecordStore == INSTANCE RecordStore WITH store <- StoredRecords

ImplementsRecordStore == RecordStore!Spec

(***************************************************************************)
(* lookup returns the record of the TID, whatever other threads do to      *)
(* other records on the pages it comes through.                            *)
(***************************************************************************)
LookupReturnsRecord ==
    [][\A t \in Threads :
          At(t, "lookup") /\ call'[t].pc = "return" =>
              call'[t].answer = values[call[t].tids[1]]]_vars

(***************************************************************************)
(* A TID is not handed out while it is in use.                             *)
(***************************************************************************)
TidsNotOverwritten ==
    \A t \in Threads :
        At(t, "return") /\ call[t].op = "insert" =>
            /\ call[t].result \notin DOMAIN values
            /\ \A u \in Threads \ {t} :
                  At(u, "return") /\ call[u].op = "insert" => call[u].result # call[t].result

(***************************************************************************)
(* A table scan that has come to its end has returned every record that    *)
(* was there when it was opened and that nobody has touched since, however *)
(* many others have come, gone or moved meanwhile; and what it returns of  *)
(* such a record is the record.                                            *)
(***************************************************************************)
ScanSeesUntouched ==
    [][\A t \in Threads :
          /\ At(t, "next") /\ AtEnd(call[t].scan) /\ call'[t] = Idle => call[t].due = {}
          /\ call'[t].pc = "scanned" /\ call'[t].scan # call[t].scan => \A tid \in DOMAIN values :
               Home(tid) \in call[t].due \ call'[t].due => call'[t].answer = values[tid]]_vars
=============================================================================
