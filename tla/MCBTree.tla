------------------------------ MODULE MCBTree -------------------------------
(***************************************************************************)
(* Small instances of BTree for TLC.                                       *)
(***************************************************************************)
EXTENDS BTree

CONSTANTS t1, t2, x, y

\* Neighbours have different TIDs.
EntryPerKey == {<<k, IF k % 2 = 0 THEN x ELSE y>> : k \in Keys}
OneOverwritten == EntryPerKey \cup {<<2, y>>}
=============================================================================
