---------------------------- MODULE RecordStore ----------------------------
(***************************************************************************)
(* What a segment promises its users: a TID handed out by insert finds its *)
(* record, as last updated, until it is removed, and names no other record *)
(* in the meantime.                                                        *)
(***************************************************************************)
CONSTANTS TIDs, Records

VARIABLE store  \* a function from the TIDs in use to their records

Init == store = << >>

Insert(r) == \E tid \in TIDs \ DOMAIN store :
                store' = [u \in DOMAIN store \cup {tid} |-> IF u = tid THEN r ELSE store[u]]

Remove(tid) == store' = [u \in DOMAIN store \ {tid} |-> store[u]]

Update(tid, r) == store' = [store EXCEPT ![tid] = r]

Next == \/ \E r \in Records : Insert(r)
        \/ \E tid \in DOMAIN store : \/ Remove(tid)
                                     \/ \E r \in Records : Update(tid, r)

Spec == Init /\ [][Next]_store
=============================================================================
