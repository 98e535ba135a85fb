---------------------------- MODULE SlottedPage -----------------------------
(***************************************************************************)
(* A page of a slotted-page segment: a header, the slots that grow upwards *)
(* behind it, and the records that grow downwards from the end of the page.*)
(* The operators are what SPSegment does to one page while it has it fixed *)
(* exclusively.  Sizes and offsets are in units: the real header has three *)
(* of 8 bytes, a slot two.                                                 *)
(*                                                                         *)
(* A record is a sequence of units.  Units of the data area that no record *)
(* owns are Junk (the code leaves what was there; to read it is wrong all  *)
(* the same).  Slots and data are kept apart here and overlap in the code  *)
(* when dataStart comes below the end of the slots: see Layout.            *)
(***************************************************************************)
EXTENDS Integers, Sequences, SequencesExt

CONSTANTS BlockSize, HeaderSize, SlotSize,
          Units,        \* what a record is made of
          Junk,
          PageIDs,
          NoTID,
          SizeModulus   \* size_t counts modulo this (2^64 in the code)

ASSUME SizesAssumption ==
    /\ BlockSize \in Nat /\ HeaderSize \in Nat \ {0} /\ SlotSize \in Nat \ {0}
    /\ HeaderSize + SlotSize <= BlockSize
    /\ SizeModulus \in Nat /\ SizeModulus > BlockSize
ASSUME UnitsAssumption == Junk \notin Units

MaxSlots == (BlockSize - HeaderSize) \div SlotSize
SlotIDs == 0..(MaxSlots - 1)
TIDs == [pageID : PageIDs, slotID : SlotIDs]

Header == [slotCount : 0..MaxSlots, firstFreeSlot : 0..MaxSlots,
           dataStart : Int, freeSpace : 0..(SizeModulus - 1)]
Slot == [offset : Int, length : 0..BlockSize, target : TIDs \cup {NoTID}]
Page == [header : Header,
         slots : [SlotIDs -> Slot],
         data : [0..(BlockSize - 1) -> Units \cup {Junk}]]

\* offset 0: free; 1: the length is the packed TID of the record's new place.
FreeSlot == [offset |-> 0, length |-> 0, target |-> NoTID]
Indirection(tid) == [offset |-> 1, length |-> 0, target |-> tid]
IsFree(s) == s.offset = 0
IsIndirection(s) == s.offset = 1

\* Subtraction of size_t.
Less(a, b) == (a - b) % SizeModulus

Area(s) == s.offset..(s.offset + s.length - 1)

\* The unit at an offset (which races may drive out of the page).
UnitAt(data, k) == IF k \in DOMAIN data THEN data[k] ELSE Junk

\* The units at a slot.
ReadRecord(page, s) == [k \in 1..s.length |-> UnitAt(page.data, s.offset + k - 1)]

-----------------------------------------------------------------------------
\* A fresh page.
EmptyPage ==
    [header |-> [slotCount |-> 0, firstFreeSlot |-> 0, dataStart |-> BlockSize,
                 freeSpace |-> BlockSize - HeaderSize],
     slots |-> [i \in SlotIDs |-> FreeSlot],
     data |-> [k \in 0..(BlockSize - 1) |-> Junk]]

\* Is there room for a record of length n, compaction allowed?
Fits(h, n) == n + SlotSize <= h.freeSpace

\* Faulty variant: no room is left for the new slot itself.
NeedsCompaction_NoSlot(h, n) ==
    LET headEnd == HeaderSize + h.slotCount * SlotSize
    IN  h.dataStart <= headEnd \/ n > h.dataStart - headEnd

\* Is the room in one piece?  (One more slot is counted, whether or not a
\* free one exists.)
NeedsCompaction(h, n) ==
    LET headEnd == HeaderSize + (h.slotCount + 1) * SlotSize
    IN  h.dataStart <= headEnd \/ n > h.dataStart - headEnd

\* The first free slot from i on, or the number of slots.
NextFree(slots, i, slotCount) ==
    Min({k \in i..(slotCount - 1) : IsFree(slots[k])} \cup {slotCount})

\* The slot for a new record of length n, and the header afterwards.
Reuses(h) == h.firstFreeSlot < h.slotCount
NewSlotID(h) == IF Reuses(h) THEN h.firstFreeSlot ELSE h.slotCount

\* Faulty variant: the cache of the first free slot is not moved on.
Allocated_SameFree(h, slots, n) ==
    [slotCount |-> IF Reuses(h) THEN h.slotCount ELSE h.slotCount + 1,
     firstFreeSlot |-> IF Reuses(h) THEN h.firstFreeSlot ELSE h.slotCount + 1,
     freeSpace |-> Less(h.freeSpace, IF Reuses(h) THEN n ELSE SlotSize + n),
     dataStart |-> h.dataStart - n]

Allocated(h, slots, n) ==
    [slotCount |-> IF Reuses(h) THEN h.slotCount ELSE h.slotCount + 1,
     firstFreeSlot |-> IF Reuses(h) THEN NextFree(slots, h.firstFreeSlot + 1, h.slotCount)
                                    ELSE h.slotCount + 1,
     freeSpace |-> Less(h.freeSpace, IF Reuses(h) THEN n ELSE SlotSize + n),
     dataStart |-> h.dataStart - n]

\* memcpy of the record r to offset o.
Stored(data, o, r) ==
    [k \in DOMAIN data |-> IF k \in o..(o + Len(r) - 1) THEN r[k - o + 1] ELSE data[k]]

Cleared(data, area) == [k \in DOMAIN data |-> IF k \in area THEN Junk ELSE data[k]]

\* The record r at offset o, in slot i.
WithRecord(page, i, o, r) ==
    [page EXCEPT !.slots[i] = [offset |-> o, length |-> Len(r), target |-> NoTID],
                 !.data = Stored(@, o, r)]

\* The cache after slot i has become free.
LowerFirstFree(h, i) ==
    [h EXCEPT !.firstFreeSlot = IF i < @ THEN i ELSE @]

\* A slot given up whose record, if any, lives on elsewhere.
FreedSlot(page, i) ==
    [page EXCEPT !.header = LowerFirstFree(@, i), !.slots[i] = FreeSlot]

\* Faulty variant: the space of the record is not given back.
RecordRemoved_Leak(page, i) == FreedSlot(page, i)

\* The record of slot i removed, with its slot.
RecordRemoved(page, i) ==
    LET s == page.slots[i]
        h == page.header
    IN  [FreedSlot(page, i) EXCEPT
            !.header.dataStart = IF s.offset = h.dataStart THEN @ + s.length ELSE @,
            !.header.freeSpace = @ + s.length,
            !.data = Cleared(@, Area(s))]

\* Update with a record that is not longer than the old one.
ReplacedInPlace(page, i, r) ==
    LET s == page.slots[i]
    IN  [page EXCEPT !.slots[i].length = Len(r),
                     !.header.freeSpace = @ + s.length - Len(r),
                     !.data = Stored(Cleared(@, Area(s)), s.offset, r)]

\* The first half of an update with a longer record: the record goes, the
\* slot stays, with length 0 and the old offset.
RecordDropped(page, i) ==
    LET s == page.slots[i]
    IN  [page EXCEPT !.slots[i].length = 0,
                     !.header.freeSpace = @ + s.length,
                     !.data = Cleared(@, Area(s))]

\* Faulty variant: the old length stays.
SlotMoved_Offset(page, i, j) ==
    FreedSlot([page EXCEPT !.slots[i].offset = page.slots[j].offset], j)

\* Slot i takes over the record of slot j, which becomes free.
SlotMoved(page, i, j) ==
    FreedSlot([page EXCEPT !.slots[i] = page.slots[j]], j)

-----------------------------------------------------------------------------
\* compactPage: the records are moved to the end of the page, the one with
\* the greatest offset first.
MovedData(data, from, to, n) ==
    [k \in DOMAIN data |->
        CASE k \in to..(to + n - 1) -> UnitAt(data, from + k - to)
          [] k \notin to..(to + n - 1) /\ k \in from..(from + n - 1) -> Junk
          [] OTHER -> data[k]]

\* Faulty variant: the slot keeps the old offset.
MoveUp_Stale(st, i) ==
    LET s == st.slots[i]
        o == st.offset - s.length
    IN  [st EXCEPT !.offset = o, !.data = MovedData(@, s.offset, o, s.length)]

MoveUp(st, i) ==
    LET s == st.slots[i]
        o == st.offset - s.length
    IN  IF s.length = 0 THEN st
        ELSE [offset |-> o,
              slots |-> [st.slots EXCEPT ![i].offset = o],
              data |-> MovedData(st.data, s.offset, o, s.length)]

\* The slots with a record, which compactPage puts in its queue.
UsedSlots(page) == {i \in 0..(page.header.slotCount - 1) :
                       ~IsFree(page.slots[i]) /\ ~IsIndirection(page.slots[i])}

\* Of the slots in the queue the one that is taken out last.
LastMoved(page, queue) ==
    CHOOSE i \in queue : \A j \in queue : page.slots[i].offset <= page.slots[j].offset

Compacted(page) ==
    LET moved == MapThenFoldSet(LAMBDA i, st : MoveUp(st, i),
                                [offset |-> BlockSize, slots |-> page.slots, data |-> page.data],
                                LAMBDA i : i,
                                LAMBDA queue : LastMoved(page, queue),
                                UsedSlots(page))
    IN  [header |-> [page.header EXCEPT !.dataStart = moved.offset],
         slots |-> moved.slots,
         data |-> moved.data]
=============================================================================
