----------------------------- MODULE TableScan ------------------------------
(***************************************************************************)
(* The position of a TableScan in its segment: bf is the page it has fixed *)
(* (shared), if any, slotID the next slot of it to look at, pageID the     *)
(* page to fix after it.                                                   *)
(***************************************************************************)
EXTENDS Integers, FiniteSetsExt

NoFrame == -1

Scans == [bf : Int, pageID : Int, lastID : Int, slotCount : Nat, slotID : Nat]

NewScan == [bf |-> NoFrame, pageID |-> 0, lastID |-> 0, slotCount |-> 0, slotID |-> 0]

\* open
Opened(first, last) == [NewScan EXCEPT !.pageID = first, !.lastID = last]

AtEnd(scan) == scan.bf = NoFrame /\ scan.pageID > scan.lastID

\* The page next() works on, and the scan with that page fixed.
PageOf(scan) == IF scan.bf = NoFrame THEN scan.pageID ELSE scan.bf

Loaded(scan, slotCount) ==
    IF scan.bf # NoFrame THEN scan
    ELSE [scan EXCEPT !.bf = scan.pageID, !.slotCount = slotCount, !.slotID = 0,
                      !.pageID = @ + 1]

\* The next of the slots with a record, or the number of slots.
NextRecord(scan, records) ==
    Min({i \in scan.slotID..(scan.slotCount - 1) : i \in records} \cup {scan.slotCount})

Past(scan, i) == [scan EXCEPT !.slotID = i + 1]

Unfixed(scan) == [scan EXCEPT !.bf = NoFrame]
=============================================================================
